------------------------------- MODULE Board -------------------------------
(***************************************************************************)
(* The running system: alt_main starts the drivers, the program then calls *)
(* the HAL, and interrupts come in between any two steps of both.  The     *)
(* interrupt of the timer runs alt_tick of module Alarm.                   *)
(*                                                                         *)
(* What the program has yet to do is a sequence of steps, each of which    *)
(* the processor executes without interruption; a call of the HAL is the   *)
(* sequence of its accesses to shared state.                               *)
(***************************************************************************)
EXTENDS Alarm, Irq

CONSTANTS
  DMA_IRQ, TIMER_IRQ, UART_IRQ,  \* system.h
  uart_alarm,                    \* sp->alarm of the JTAG UART
  MaxRaises                      \* bound: requests of DMA and UART

ASSUME BoardConstants ==
  /\ {DMA_IRQ, TIMER_IRQ, UART_IRQ} = Irqs /\ TIMER_IRQ \notin {DMA_IRQ, UART_IRQ}
  /\ uart_alarm \in Alarms /\ Rate \in Intervals \cap Periods /\ MaxRaises \in Nat

VARIABLES
  rest,           \* the steps the program has begun and not done
  current_nticks, \* local variable of alt_alarm_start
  running,        \* the devices whose control register lets them interrupt
  raises          \* requests so far

boardVars == <<vars, irqVars, rest, current_nticks, running, raises>>

-----------------------------------------------------------------------------
\* The calls, as sequences of steps.

Section(steps) == <<<<"disable">>>> \o steps \o <<<<"enable">>>>

alt_ic_isr_register(i, isr) ==
  Section(<<<<"handler", i, isr>>>> \o Section(<<<<"enable_irq", i, isr>>>>))

\* FAULTY: the clock is read before interrupts are disabled.
alt_alarm_startEarly(a, n) ==
  <<<<"ready", a>>, <<"clock">>>> \o Section(<<<<"insert", a, n>>>>)

alt_alarm_start(a, n) ==
  <<<<"ready", a>>>> \o Section(<<<<"clock">>, <<"insert", a, n>>>>)

alt_alarm_stop(a) == Section(<<<<"remove", a>>>>)

alt_irq_init == <<<<"irq_init">>, <<"cpu_enable">>>>

alt_avalon_timer_sc_init ==
  <<<<"sysclk">>, <<"control", TIMER_IRQ>>>> \o alt_ic_isr_register(TIMER_IRQ, "isr")

altera_avalon_dma_init == alt_ic_isr_register(DMA_IRQ, "isr") \o <<<<"control", DMA_IRQ>>>>

altera_avalon_jtag_uart_init ==
  <<<<"control", UART_IRQ>>>> \o alt_ic_isr_register(UART_IRQ, "isr")
    \o alt_alarm_start(uart_alarm, Rate)

alt_sys_init ==
  alt_avalon_timer_sc_init \o altera_avalon_dma_init \o altera_avalon_jtag_uart_init

BoardInit ==
  /\ Init /\ IrqReset
  /\ rest = alt_irq_init \o alt_sys_init
  /\ current_nticks = 0 /\ running = {} /\ raises = 0

-----------------------------------------------------------------------------
\* The program and the drivers' start, one access at a time.

Doing(step) == level = "program" /\ rest # <<>> /\ Head(rest)[1] = step
argument(k) == Head(rest)[k]
Goes(n) == rest' = SubSeq(rest, n + 1, Len(rest)) /\ UNCHANGED <<line, cpuVars, raises>>

Disable ==
  /\ Doing("disable") /\ DisableAll
  /\ Goes(1) /\ UNCHANGED <<vars, tableVars, current_nticks, running>>

Enable ==
  /\ Doing("enable") /\ EnableAll
  /\ Goes(1) /\ UNCHANGED <<vars, tableVars, current_nticks, running>>

\* altera_nios2_gen2_irq_init clears the mask.
IrqInit ==
  /\ Doing("irq_init") /\ ienable' = {}
  /\ Goes(1) /\ UNCHANGED <<vars, maskVars, handler, current_nticks, running>>

\* alt_irq_cpu_enable_interrupts.
CpuEnable ==
  /\ Doing("cpu_enable") /\ pie' = TRUE
  /\ Goes(1) /\ UNCHANGED <<vars, saved, tableVars, current_nticks, running>>

Sysclk ==
  /\ Doing("sysclk") /\ SysclkInit
  /\ Goes(1) /\ UNCHANGED <<maskVars, tableVars, current_nticks, running>>

\* A driver writes its device's control register: the device may interrupt.
Control ==
  /\ Doing("control") /\ running' = running \cup {argument(2)}
  /\ Goes(1) /\ UNCHANGED <<vars, maskVars, tableVars, current_nticks>>

\* alt_irq[id].handler = isr.
WriteTable ==
  /\ Doing("handler") /\ SetHandler(argument(2), argument(3))
  /\ Goes(1) /\ UNCHANGED <<vars, maskVars, ienable, current_nticks, running>>

\* alt_ic_irq_enable or alt_ic_irq_disable.
WriteMask ==
  /\ Doing("enable_irq") /\ SetEnable(argument(2), argument(3))
  /\ Goes(1) /\ UNCHANGED <<vars, maskVars, handler, current_nticks, running>>

\* alt_alarm_start fails as long as there is no system clock.
AskRate ==
  /\ Doing("ready")
  /\ IF tick_rate # 0 THEN Goes(1) /\ UNCHANGED ret ELSE Goes(5) /\ ret' = -ENOTSUP
  /\ UNCHANGED <<clockVars, listVars, time, rollover, walkVars, registered, due>>
  /\ UNCHANGED <<maskVars, tableVars, current_nticks, running>>

ReadClock ==
  /\ Doing("clock") /\ current_nticks' = nticks
  /\ Goes(1) /\ UNCHANGED <<vars, maskVars, tableVars, running>>

InsertAlarm ==
  /\ Doing("insert") /\ Register(argument(2), argument(3), current_nticks)
  /\ ret' = 0 /\ current_nticks' = 0
  /\ Goes(1) /\ UNCHANGED <<clockVars, walkVars, maskVars, tableVars, running>>

RemoveAlarm ==
  /\ Doing("remove") /\ Stop(argument(2))
  /\ Goes(1) /\ UNCHANGED <<clockVars, walkVars, maskVars, tableVars, current_nticks, running>>

\* What the program calls next, after alt_sys_init.
Calls ==
  {alt_alarm_start(a, n) : a \in Alarms \ (registered \cup {uart_alarm}), n \in Intervals}
    \cup {alt_alarm_stop(a) : a \in Alarms \ {uart_alarm}}
    \cup {alt_ic_isr_register(i, NULL) : i \in {DMA_IRQ} \cap ienable}

Call ==
  /\ level = "program" /\ rest = <<>> /\ rest' \in Calls
  /\ UNCHANGED <<vars, irqVars, current_nticks, running, raises>>

Program == \/ Disable \/ Enable \/ IrqInit \/ CpuEnable \/ Sysclk \/ Control
           \/ WriteTable \/ WriteMask \/ AskRate \/ ReadClock \/ InsertAlarm
           \/ RemoveAlarm \/ Call

-----------------------------------------------------------------------------
\* The devices request interrupts, and keep the request until they are served.

TicksLeft == nticks < Word - 1 \/ epoch < MaxEpoch

Raise ==
  /\ \E i \in running \ line :
       /\ IF i = TIMER_IRQ THEN TicksLeft /\ UNCHANGED raises
                           ELSE raises < MaxRaises /\ raises' = raises + 1
       /\ line' = line \cup {i}
  /\ UNCHANGED <<vars, maskVars, tableVars, cpuVars, rest, current_nticks, running>>

\* The interrupt of the processor and alt_irq_handler.
Interrupt == Enter /\ UNCHANGED <<vars, rest, current_nticks, running, raises>>
Dispatcher == Dispatch /\ UNCHANGED <<vars, rest, current_nticks, running, raises>>

-----------------------------------------------------------------------------
\* The handlers.

Serving(i) == level = "handler" /\ current = i /\ handler[i] # NULL

\* alt_avalon_timer_sc_irq: the request is cleared, then alt_tick in a section.
TimerIrq ==
  /\ Serving(TIMER_IRQ) /\ pc = "idle" /\ TIMER_IRQ \in line
  /\ line' = line \ {TIMER_IRQ}
  /\ DisableAll /\ Tick
  /\ UNCHANGED <<tableVars, cpuVars, rest, current_nticks, running, raises>>

\* An alarm that the program is about to insert is not started by a callback as well.
\* The callback of the UART's alarm does nothing to alarms and returns
\* alt_ticks_per_second().
Beginning == {rest[k][2] : k \in {j \in 1..Len(rest) : rest[j][1] = "insert"}}

TickWalk ==
  /\ level = "handler" /\ pc # "idle"
  /\ \/ Visit
     \/ alarm # uart_alarm /\ (CallbackEnds \/ CallbackAgain \/ CallbackStop)
     \/ alarm # uart_alarm /\ CallbackStart /\ registered' \cap Beginning = {}
     \/ alarm = uart_alarm /\ CallbackAgain /\ time'[alarm] = Add(time[alarm], Rate)
  /\ UNCHANGED <<irqVars, rest, current_nticks, running, raises>>

TimerReturns ==
  /\ level = "handler" /\ TickReturns
  /\ EnableAll /\ level' = "handled"
  /\ UNCHANGED <<tableVars, line, active, current, rest, current_nticks, running, raises>>

\* The other handlers clear their device's request; they may withdraw a handler.
DeviceIrq ==
  /\ \E i \in {DMA_IRQ, UART_IRQ} : Serving(i)
  /\ line' = line \ {current} /\ level' = "handled"
  /\ \/ UNCHANGED tableVars
     \/ \E i \in {DMA_IRQ, UART_IRQ} : SetHandler(i, NULL) /\ SetEnable(i, NULL)
  /\ UNCHANGED <<vars, maskVars, active, current, rest, current_nticks, running, raises>>

Handlers == TimerIrq \/ TickWalk \/ TimerReturns \/ DeviceIrq

BoardNext == Program \/ Raise \/ Interrupt \/ Dispatcher \/ Handlers

\* The processor goes on; between two instructions it looks at the requests again
\* and again, so that one that is held and not masked for good is taken.
BoardSpec ==
  /\ BoardInit /\ [][BoardNext]_boardVars
  /\ WF_boardVars(Program) /\ WF_boardVars(Dispatcher) /\ WF_boardVars(Handlers)
  /\ SF_boardVars(Interrupt)

-----------------------------------------------------------------------------
\* Properties

\* Seen from the alarms, the system is what module Alarm says: every call takes
\* effect at one moment, although it reads the clock and writes the list in turn,
\* and never in the middle of a tick.
Implements == Init /\ [][Next]_vars

\* A handler is not interrupted: whatever sections it enters and leaves, interrupts
\* stay off until the dispatcher returns.
HandlersAlone == [][Interrupt => level = "program"]_boardVars

\* The dispatcher calls a handler that is registered, for a request that is still
\* there and whose interrupt is still enabled, whatever the handlers that ran since
\* the interrupt was taken have withdrawn.
RightHandler ==
  [][level = "scan" /\ level' = "handler" =>
       handler[current'] # NULL /\ current' \in pending]_boardVars

\* Every request whose interrupt is enabled is served in the end.
Served == \A i \in Irqs : i \in pending ~> i \notin pending
=============================================================================
