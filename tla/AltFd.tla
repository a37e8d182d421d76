------------------------------- MODULE AltFd -------------------------------
(***************************************************************************)
(* Devices, file systems and file descriptors of the HAL: registration     *)
(* (alt_dev_llist_insert.c, alt_fs_reg.c), names (alt_find_dev.c,          *)
(* alt_find_file.c), the descriptor table (alt_get_fd.c, alt_release_fd.c),*)
(* exclusive access (alt_fd_lock.c, alt_fd_unlock.c), the standard streams *)
(* (alt_io_redirect.c) and the system calls.                               *)
(*                                                                         *)
(* The table is only used by the program: the HAL is built for a single    *)
(* thread, its semaphore is empty, and no handler opens or closes files.   *)
(* A call is one step.  A name is the sequence of its path's components, a *)
(* driver's callback answers 0 or an error, and callers pass descriptors   *)
(* they hold, or negative ones.                                            *)
(***************************************************************************)
EXTENDS Integers, Sequences

CONSTANTS
  MAX_FD,       \* ALT_MAX_FD
  Devs, FSs,    \* the devices and file systems to be registered
  alt_dev_null, \* the one that always is
  NONE,         \* a null pointer
  names,        \* the name field of each, NONE if it is null
  callbacks,    \* the operations its driver provides
  Files,        \* the names that open is called with
  stdio,        \* ALT_STDOUT, ALT_STDIN, ALT_STDERR with their descriptor and flags
  OpenFlags     \* the flags that open is called with

Devices == Devs \cup {alt_dev_null}
Drivers == Devices \cup FSs
Fds == 0..(MAX_FD - 1)
Std == 0..2

ALT_FD_FLAGS_MASK == {"EXCL", "DEV"}
ALT_FCNTL_FLAGS_MASK == {"APPEND", "NONBLOCK"}
Flags == ALT_FD_FLAGS_MASK \cup ALT_FCNTL_FLAGS_MASK \cup {"WRONLY", "RDWR"}

ENOENT == 2
EIO == 5
EACCES == 13
ENODEV == 19
EINVAL == 22
EMFILE == 24
ENOTTY == 25
EBADFD == 81
ENOTSUP == 134

ASSUME FdConstants ==
  /\ MAX_FD \in Nat /\ MAX_FD > 3
  /\ NONE \notin Drivers /\ alt_dev_null \notin Devs \cup FSs /\ Devs \cap FSs = {}
  /\ callbacks \in [Drivers -> SUBSET {"open", "close", "read", "write", "lseek", "fstat", "ioctl"}]
  /\ OpenFlags \subseteq SUBSET Flags
  /\ stdio \in Seq([fd : Std, name : Files, flags : SUBSET Flags])

VARIABLES
  alt_dev_list, alt_fs_list,  \* what is registered, the latest first
  alt_fd_list,                \* the table
  alt_max_fd,                 \* the highest entry ever allocated
  stage,                      \* the standard streams redirected so far
  ret                         \* what the last call returned

listVars == <<alt_dev_list, alt_fs_list>>
tableVars == <<alt_fd_list, alt_max_fd>>
vars == <<listVars, tableVars, stage, ret>>

Init ==
  /\ alt_dev_list = <<alt_dev_null>> /\ alt_fs_list = <<>>
  /\ alt_fd_list = [i \in Fds |-> [dev |-> IF i \in Std THEN alt_dev_null ELSE NONE,
                                   fd_flags |-> {}]]
  /\ alt_max_fd = -1
  /\ stage = 0 /\ ret = 0

-----------------------------------------------------------------------------
\* How calls answer: a call that fails with -e returns -1 and sets errno to e (ioctl
\* returns -e as well).

Returns(r) == ret' = r

\* What a driver answers, or the HAL in its place if it does not provide the operation.
Answer(op, d, otherwise) == IF op \in callbacks[d] THEN {0, -EIO} ELSE {otherwise}

-----------------------------------------------------------------------------
\* Registration, by alt_sys_init.

Register(d) ==
  /\ stage = 0 /\ \A k \in 1..Len(alt_dev_list) : alt_dev_list[k] # d
  /\ IF names[d] = NONE
       THEN Returns(-EINVAL) /\ UNCHANGED alt_dev_list
       ELSE Returns(0) /\ alt_dev_list' = <<d>> \o alt_dev_list
  /\ UNCHANGED <<alt_fs_list, tableVars, stage>>

alt_fs_reg(d) ==
  /\ stage = 0 /\ \A k \in 1..Len(alt_fs_list) : alt_fs_list[k] # d
  /\ IF names[d] = NONE
       THEN Returns(-ENODEV) /\ UNCHANGED alt_fs_list
       ELSE Returns(0) /\ alt_fs_list' = <<d>> \o alt_fs_list
  /\ UNCHANGED <<alt_dev_list, tableVars, stage>>

-----------------------------------------------------------------------------
\* Names.

\* The first entry of list that is in S.
First(list, S, d) ==
  \E k \in 1..Len(list) : /\ d = list[k] /\ d \in S
                          /\ \A j \in 1..(k - 1) : list[j] \notin S

Named(name) == {d \in Devices : names[d] = name}

\* A file system owns the names below its own, component by component.
Owners(name) ==
  {d \in FSs : Len(names[d]) <= Len(name) /\ SubSeq(name, 1, Len(names[d])) = names[d]}

\* What open takes name for: a device if there is one of just this name, or else the
\* file system that was registered last among those that own it.
Finds(name, d) ==
  \/ First(alt_dev_list, Named(name), d)
  \/ /\ \A k \in 1..Len(alt_dev_list) : alt_dev_list[k] \notin Named(name)
     /\ \/ First(alt_fs_list, Owners(name), d)
        \/ d = NONE /\ \A k \in 1..Len(alt_fs_list) : alt_fs_list[k] \notin Owners(name)

-----------------------------------------------------------------------------
\* The table.

\* The entry alt_get_fd takes, if any.
Takes(i) == alt_fd_list[i].dev = NONE /\ \A j \in 0..(i - 1) : alt_fd_list[j].dev # NONE
Full == \A i \in Fds : alt_fd_list[i].dev # NONE

MaxFd(i) == IF i > alt_max_fd THEN i ELSE alt_max_fd

\* alt_file_locked, of the device d that entry i is being opened for.
alt_file_locked(d, i) ==
  \E j \in 0..MaxFd(i) : alt_fd_list[j].dev = d /\ "EXCL" \in alt_fd_list[j].fd_flags /\ j # i

\* The entry that a successful open leaves.
Entry(d, flags) ==
  [dev |-> d, fd_flags |-> (flags \ ALT_FD_FLAGS_MASK) \cup IF d \in FSs THEN {} ELSE {"DEV"}]

Released == [dev |-> NONE, fd_flags |-> {}]

\* What the opening of d in entry i answers.
OpenSays(d, i) ==
  IF d \in Devices /\ alt_file_locked(d, i) THEN {-EACCES}
  ELSE IF "open" \in callbacks[d] THEN {0, -ENOENT} ELSE {0}

\* FAULTY: what was allocated is not released.
AllocatedLeaks(d, i, flags, s) ==
  /\ Takes(i) /\ s \in OpenSays(d, i)
  /\ alt_max_fd' = MaxFd(i)
  /\ alt_fd_list' = [alt_fd_list EXCEPT ![i] = Entry(d, flags)]

\* An entry is allocated for d, and its opening answers s: what was allocated in vain
\* is released, and only the high-water mark remembers it.
Allocated(d, i, flags, s) ==
  /\ Takes(i) /\ s \in OpenSays(d, i)
  /\ alt_max_fd' = MaxFd(i)
  /\ alt_fd_list' = [alt_fd_list EXCEPT ![i] = IF s < 0 THEN Released ELSE Entry(d, flags)]

\* No entry is allocated at all, for the reason e.
NotAllocated(d, e) ==
  /\ \/ d = NONE /\ e = ENODEV
     \/ d # NONE /\ Full /\ e = EMFILE
  /\ UNCHANGED tableVars

-----------------------------------------------------------------------------
\* Start-up: alt_io_redirect opens each stream's device and moves the new entry over
\* the stream's own; a stream whose device cannot be opened stays where it is.

Redirect ==
  /\ stage < Len(stdio)
  /\ LET stream == stdio[stage + 1]
     IN  \E d \in Drivers \cup {NONE} :
           /\ Finds(stream.name, d)
           /\ \/ \E e \in {ENODEV, EMFILE} : NotAllocated(d, e)
              \/ \E i \in Fds : /\ d # NONE /\ Takes(i) /\ 0 \in OpenSays(d, i)
                                /\ alt_fd_list' = [alt_fd_list EXCEPT ![stream.fd] = Entry(d, stream.flags)]
                                /\ alt_max_fd' = MaxFd(i)
              \/ \E i \in Fds, e \in {EACCES, ENOENT} :
                   d # NONE /\ Allocated(d, i, stream.flags, -e)
  /\ stage' = stage + 1
  /\ UNCHANGED <<listVars, ret>>

\* main runs.
Running == stage = Len(stdio) /\ UNCHANGED <<listVars, stage>>

-----------------------------------------------------------------------------
\* The system calls.

ALT_OPEN(name, flags) ==
  /\ Running
  /\ \E d \in Drivers \cup {NONE} :
       /\ Finds(name, d)
       /\ \/ \E e \in {ENODEV, EMFILE} : NotAllocated(d, e) /\ Returns(-e)
          \/ \E i \in Fds, s \in {0, -ENOENT, -EACCES} :
               /\ d # NONE /\ Allocated(d, i, flags, s)
               /\ Returns(IF s < 0 THEN s ELSE i)

\* alt_release_fd: the standard streams are never released.
alt_release_fd(i) ==
  alt_fd_list' = IF i \in Std THEN alt_fd_list ELSE [alt_fd_list EXCEPT ![i] = Released]

ALT_CLOSE(i) ==
  /\ Running
  /\ \E s \in Answer("close", alt_fd_list[i].dev, 0) : Returns(s)
  /\ alt_release_fd(i)
  /\ UNCHANGED alt_max_fd

\* FAULTY: whoever asks gets the lock.
alt_fd_lockAnyway(i) == FALSE

\* alt_fd_lock finds another descriptor of the device.  It does not look at the entry
\* alt_max_fd itself.
alt_fd_lock(i) == \E j \in 0..(alt_max_fd - 1) : j # i /\ alt_fd_list[j].dev = alt_fd_list[i].dev

\* TIOCEXCL and TIOCNXCL, which file systems handle themselves.
Exclusive(i) ==
  /\ Running /\ "DEV" \in alt_fd_list[i].fd_flags
  /\ IF alt_fd_lock(i)
       THEN Returns(-EACCES) /\ UNCHANGED alt_fd_list
       ELSE Returns(0) /\ alt_fd_list' = [alt_fd_list EXCEPT ![i].fd_flags = @ \cup {"EXCL"}]
  /\ UNCHANGED alt_max_fd

alt_fd_unlock(i) ==
  /\ Running /\ "DEV" \in alt_fd_list[i].fd_flags
  /\ Returns(0) /\ alt_fd_list' = [alt_fd_list EXCEPT ![i].fd_flags = @ \ {"EXCL"}]
  /\ UNCHANGED alt_max_fd

\* Any other request goes to the driver.
ALT_IOCTL(i) ==
  /\ Running /\ UNCHANGED tableVars
  /\ \E s \in Answer("ioctl", alt_fd_list[i].dev, -ENOTTY) : Returns(s)

\* The flags but for ALT_FD_FLAGS_MASK.
F_GETFL(i) == Running /\ UNCHANGED tableVars /\ Returns(0)

F_SETFL(i, flags) ==
  /\ Running
  /\ alt_fd_list' = [alt_fd_list EXCEPT ![i].fd_flags =
                       (@ \ ALT_FCNTL_FLAGS_MASK) \cup (flags \cap ALT_FCNTL_FLAGS_MASK)]
  /\ Returns(0)
  /\ UNCHANGED alt_max_fd

\* read and write: the mode the descriptor was opened with, then the driver.
ALT_READ(i) ==
  /\ Running /\ UNCHANGED tableVars
  /\ \E s \in IF "WRONLY" \in alt_fd_list[i].fd_flags THEN {-EACCES}
              ELSE Answer("read", alt_fd_list[i].dev, -EACCES) : Returns(s)

ALT_WRITE(i) ==
  /\ Running /\ UNCHANGED tableVars
  /\ \E s \in IF alt_fd_list[i].fd_flags \cap {"WRONLY", "RDWR"} = {} THEN {-EACCES}
              ELSE Answer("write", alt_fd_list[i].dev, -EACCES) : Returns(s)

ALT_LSEEK(i) ==
  /\ Running /\ UNCHANGED tableVars
  /\ \E s \in Answer("lseek", alt_fd_list[i].dev, -ENOTSUP) : Returns(s)

ALT_FSTAT(i) ==
  /\ Running /\ UNCHANGED tableVars
  /\ \E s \in Answer("fstat", alt_fd_list[i].dev, 0) : Returns(s)

\* A driver without fstat is a terminal; the others say themselves what they are.
ALT_ISATTY(i) ==
  /\ Running /\ UNCHANGED tableVars
  /\ \E s \in IF "fstat" \in callbacks[alt_fd_list[i].dev] THEN {0, 1} ELSE {1} : Returns(s)

\* stat opens, asks and closes, and leaves the table as it was.  A name that cannot be
\* opened ends with the error of the fstat and close that follow.
ALT_STAT(name) ==
  /\ Running
  /\ \E d \in Drivers \cup {NONE} :
       /\ Finds(name, d)
       /\ \/ \E e \in {ENODEV, EMFILE} : NotAllocated(d, e) /\ Returns(-EBADFD)
          \/ \E i \in Fds, s \in {0, -ENOENT, -EACCES} :
               /\ d # NONE /\ Takes(i) /\ s \in OpenSays(d, i)
               /\ alt_max_fd' = MaxFd(i) /\ UNCHANGED alt_fd_list
               /\ ret' \in IF s < 0 THEN {-EBADFD} ELSE Answer("fstat", d, 0)

\* A negative descriptor, with any call; isatty answers 0.
BadDescriptor == Running /\ UNCHANGED tableVars /\ ret' \in {-EBADFD, 0}

-----------------------------------------------------------------------------
\* The descriptors that are allocated.
Open == {i \in Fds : alt_fd_list[i].dev # NONE}

Next ==
  \/ \E d \in Devs : Register(d)
  \/ \E d \in FSs : alt_fs_reg(d)
  \/ Redirect
  \/ \E name \in Files : ALT_STAT(name) \/ \E flags \in OpenFlags : ALT_OPEN(name, flags)
  \/ \E i \in Open :
       \/ ALT_CLOSE(i) \/ Exclusive(i) \/ alt_fd_unlock(i) \/ ALT_IOCTL(i)
       \/ F_GETFL(i) \/ \E flags \in OpenFlags : F_SETFL(i, flags)
       \/ ALT_READ(i) \/ ALT_WRITE(i) \/ ALT_LSEEK(i) \/ ALT_FSTAT(i) \/ ALT_ISATTY(i)
  \/ BadDescriptor

Spec == Init /\ [][Next]_vars

-----------------------------------------------------------------------------
\* Properties

Locked(i) == "EXCL" \in alt_fd_list[i].fd_flags

TypeOK ==
  /\ alt_dev_list \in Seq(Devices) /\ alt_fs_list \in Seq(FSs)
  /\ alt_fd_list \in [Fds -> [dev : Drivers \cup {NONE}, fd_flags : SUBSET Flags]]
  /\ alt_max_fd \in {-1} \cup Fds
  /\ stage \in 0..Len(stdio) /\ ret \in Int

\* The standard streams can be used at any time, what is free is clean, only devices
\* are locked, and the search for locks and other descriptors of a device reaches far
\* enough: nothing is open beyond the high-water mark.
TableOK ==
  /\ \A i \in Std : alt_fd_list[i].dev # NONE
  /\ \A i \in Fds \ Open : alt_fd_list[i].fd_flags = {}
  /\ \A i \in Fds : "DEV" \in alt_fd_list[i].fd_flags => alt_fd_list[i].dev \in Devices
  /\ \A i \in Fds : Locked(i) => "DEV" \in alt_fd_list[i].fd_flags /\ stage = Len(stdio)
  /\ \A i \in Fds : "DEV" \in alt_fd_list[i].fd_flags \/ i \in Open \ Std => i <= alt_max_fd

\* A locked descriptor is the lowest of its device: those above it were open before it
\* was locked, and the locking has overlooked them.
LockLowest ==
  \A i, j \in Open : Locked(i) /\ j # i /\ alt_fd_list[j].dev = alt_fd_list[i].dev => i < j

IInv == TypeOK /\ TableOK /\ LockLowest

\* The calls keep what they promise (module Handles): a failing open leaves no
\* descriptor behind, a handle refers to the same device until it is closed, a locked
\* device gives out no further handle and never has two owners.
Holders == {i \in Open : Locked(i)}
Refers == [i \in Open |-> alt_fd_list[i].dev]
Owner == [d \in {alt_fd_list[i].dev : i \in Holders} |->
            CHOOSE i \in Holders : alt_fd_list[i].dev = d]
Promised == INSTANCE Handles WITH
  Devices <- Drivers, Standard <- Std, Handle <- Fds, nowhere <- alt_dev_null,
  refers <- Refers, owner <- Owner, answer <- ret
Implements == Promised!Spec

\* What the comment on alt_fd_lock says: a lock is granted if there are no other open
\* descriptors of the device.
LockIsAlone ==
  \A i, j \in Open : Locked(i) /\ j # i => alt_fd_list[j].dev # alt_fd_list[i].dev
=============================================================================
