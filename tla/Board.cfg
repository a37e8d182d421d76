\* Start-up, then any calls, over one roll-over of a counter of three.
SPECIFICATION BoardSpec
CONSTANTS
  a1 = a1
  a2 = a2
  Alarms <- Two
  alarm_list = alarm_list
  Word = 3
  Intervals <- Ends
  Periods <- Turns
  StopNext = FALSE
  Rate = 1
  MaxEpoch = 1
  Irqs <- Three
  DMA_IRQ = 0
  TIMER_IRQ = 1
  UART_IRQ = 2
  uart_alarm = a1
  MaxRaises = 2
INVARIANTS IInv Punctual
PROPERTIES StoppedIsSilent Implements HandlersAlone RightHandler Served
