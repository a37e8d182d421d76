---------------------------- MODULE AltFdProofs ----------------------------
(***************************************************************************)
(* For a table of any size, any devices and file systems and any drivers:  *)
(* IInv of AltFd is inductive, and the calls keep what module Handles      *)
(* promises.                                                               *)
(***************************************************************************)
EXTENDS AltFd, SequenceTheorems, TLAPS

USE DEF Returns

Entries == [dev : Drivers \cup {NONE}, fd_flags : SUBSET Flags]

-----------------------------------------------------------------------------
\* What can happen to the table.

\* Nothing, but for the high-water mark.
Kept ==
  /\ alt_fd_list' = alt_fd_list
  /\ alt_max_fd' \in {-1} \cup Fds /\ alt_max_fd <= alt_max_fd'
  /\ stage' = stage \/ (stage < Len(stdio) /\ stage' = stage + 1)

\* A free entry i is given to d.
Given(i, d, flags) ==
  /\ Takes(i) /\ ~(d \in Devices /\ alt_file_locked(d, i))
  /\ alt_fd_list' = [alt_fd_list EXCEPT ![i] = Entry(d, flags)]
  /\ alt_max_fd' = MaxFd(i)
  /\ stage' = stage

\* A standard stream is moved to d at start-up.
Moved(s, i, d, flags) ==
  /\ stage < Len(stdio) /\ stage' = stage + 1
  /\ Takes(i) /\ alt_max_fd' = MaxFd(i)
  /\ alt_fd_list' = [alt_fd_list EXCEPT ![s] = Entry(d, flags)]

Freed(i) ==
  /\ alt_fd_list' = [alt_fd_list EXCEPT ![i] = Released]
  /\ UNCHANGED <<alt_max_fd, stage>>

\* The flags of i become f.
Flagged(i, f) ==
  /\ alt_fd_list' = [alt_fd_list EXCEPT ![i].fd_flags = f]
  /\ UNCHANGED <<alt_max_fd, stage>>

Locks(i) ==
  /\ stage = Len(stdio) /\ "DEV" \in alt_fd_list[i].fd_flags /\ ~alt_fd_lock(i)
  /\ Flagged(i, alt_fd_list[i].fd_flags \cup {"EXCL"}) /\ ret' = 0

Unlocks(i) == Flagged(i, alt_fd_list[i].fd_flags \ {"EXCL"}) /\ ret' = 0

Sets(i, flags) ==
  Flagged(i, (alt_fd_list[i].fd_flags \ ALT_FCNTL_FLAGS_MASK) \cup (flags \cap ALT_FCNTL_FLAGS_MASK))

TableStep ==
  \/ Kept
  \/ \E i \in Fds, d \in Drivers, flags \in SUBSET Flags : Given(i, d, flags) /\ ret' = i
  \/ \E i \in Fds, s \in Std, d \in Drivers, flags \in SUBSET Flags :
       Moved(s, i, d, flags) /\ ret' = ret
  \/ \E i \in Open \ Std : Freed(i)
  \/ \E i \in Open : Locks(i) \/ Unlocks(i)
  \/ \E i \in Open, flags \in SUBSET Flags : Sets(i, flags)

\* Every call does one of these.
LEMMA Calls ==
  ASSUME TypeOK, TableOK, [Next]_vars
  PROVE  TableStep /\ ret' \in Int
<1>. USE FdConstants DEF Fds, Std, tableVars, listVars
<1>1. /\ alt_fd_list \in [Fds -> Entries] /\ alt_max_fd \in {-1} \cup Fds
      /\ stage \in 0..Len(stdio) /\ ret \in Int /\ MAX_FD \in Nat
      /\ OpenFlags \subseteq SUBSET Flags
  BY DEF TypeOK, Entries
<1>2. \A i \in Fds : alt_max_fd <= MaxFd(i) /\ MaxFd(i) \in {-1} \cup Fds
  BY <1>1 DEF MaxFd
<1>3. \A i \in Fds : Takes(i) => [alt_fd_list EXCEPT ![i] = Released] = alt_fd_list
  <2>. SUFFICES ASSUME NEW i \in Fds, Takes(i)
                PROVE  [alt_fd_list EXCEPT ![i] = Released] = alt_fd_list
    OBVIOUS
  <2>1. alt_fd_list[i].dev = NONE /\ i \notin Open /\ alt_fd_list[i] \in Entries
    BY <1>1 DEF Takes, Open
  <2>2. alt_fd_list[i].fd_flags = {}
    BY <2>1 DEF TableOK
  <2>3. alt_fd_list[i] = Released
    BY <2>1, <2>2 DEF Released, Entries
  <2>. QED  BY <2>3, <1>1
<1>4. CASE UNCHANGED tableVars /\ stage' = stage /\ ret' \in Int
  BY <1>1, <1>4 DEF TableStep, Kept
<1>5. ASSUME NEW d \in Devs, Register(d) PROVE TableStep /\ ret' \in Int
  BY <1>4, <1>5 DEF Register, EINVAL
<1>6. ASSUME NEW d \in FSs, alt_fs_reg(d) PROVE TableStep /\ ret' \in Int
  BY <1>4, <1>6 DEF alt_fs_reg, ENODEV
<1>7. ASSUME Redirect PROVE TableStep /\ ret' \in Int
  <2>. DEFINE s == stdio[stage + 1]
  <2>1. /\ stage < Len(stdio) /\ stage' = stage + 1 /\ ret' = ret
        /\ stage + 1 \in 1..Len(stdio)
    BY <1>1, <1>7 DEF Redirect
  <2>2. s \in [fd : Std, name : Files, flags : SUBSET Flags]
    BY <2>1, ElementOfSeq
  <2>3. s.fd \in Std /\ s.flags \in SUBSET Flags
    BY <2>2
  <2>4. PICK d \in Drivers \cup {NONE} :
          \/ \E e \in {ENODEV, EMFILE} : NotAllocated(d, e)
          \/ \E i \in Fds : /\ d # NONE /\ Takes(i) /\ 0 \in OpenSays(d, i)
                            /\ alt_fd_list' = [alt_fd_list EXCEPT ![s.fd] = Entry(d, s.flags)]
                            /\ alt_max_fd' = MaxFd(i)
          \/ \E i \in Fds, e \in {EACCES, ENOENT} : d # NONE /\ Allocated(d, i, s.flags, -e)
    BY <1>7 DEF Redirect
  <2>. HIDE DEF s
  <2>5. CASE \E e \in {ENODEV, EMFILE} : NotAllocated(d, e)
    BY <2>1, <2>5, <1>1 DEF NotAllocated, TableStep, Kept
  <2>6. ASSUME NEW i \in Fds, d # NONE, Takes(i),
               alt_fd_list' = [alt_fd_list EXCEPT ![s.fd] = Entry(d, s.flags)],
               alt_max_fd' = MaxFd(i)
        PROVE  TableStep /\ ret' \in Int
    <3>1. Moved(s.fd, i, d, s.flags) /\ d \in Drivers
      BY <2>1, <2>6 DEF Moved
    <3>. QED  BY <3>1, <2>1, <2>3, <1>1 DEF TableStep
  <2>7. ASSUME NEW i \in Fds, NEW e \in {EACCES, ENOENT}, Allocated(d, i, s.flags, -e)
        PROVE  TableStep /\ ret' \in Int
    <3>1. -e < 0
      BY DEF EACCES, ENOENT
    <3>2. alt_fd_list' = alt_fd_list /\ alt_max_fd' = MaxFd(i)
      BY <2>7, <3>1, <1>3 DEF Allocated
    <3>. QED  BY <3>2, <2>1, <1>1, <1>2 DEF TableStep, Kept
  <2>. QED  BY <2>4, <2>5, <2>6, <2>7
<1>8. ASSUME NEW name \in Files, NEW flags \in OpenFlags, ALT_OPEN(name, flags)
      PROVE  TableStep /\ ret' \in Int
  <2>1. stage' = stage
    BY <1>8 DEF ALT_OPEN, Running
  <2>2. PICK d \in Drivers \cup {NONE} :
          \/ \E e \in {ENODEV, EMFILE} : NotAllocated(d, e) /\ ret' = -e
          \/ \E i \in Fds, s \in {0, -ENOENT, -EACCES} :
               d # NONE /\ Allocated(d, i, flags, s) /\ ret' = IF s < 0 THEN s ELSE i
    BY <1>8 DEF ALT_OPEN
  <2>3. CASE \E e \in {ENODEV, EMFILE} : NotAllocated(d, e) /\ ret' = -e
    BY <2>1, <2>3, <1>4 DEF NotAllocated, ENODEV, EMFILE
  <2>4. ASSUME NEW i \in Fds, NEW s \in {0, -ENOENT, -EACCES}, d # NONE,
               Allocated(d, i, flags, s), ret' = IF s < 0 THEN s ELSE i
        PROVE  TableStep /\ ret' \in Int
    <3>0. s \in Int /\ (s = 0 \/ s < 0)
      BY DEF ENOENT, EACCES
    <3>1. CASE s < 0
      <4>1. alt_fd_list' = alt_fd_list /\ alt_max_fd' = MaxFd(i)
        BY <2>4, <3>1, <1>3 DEF Allocated
      <4>. QED  BY <4>1, <2>1, <2>4, <3>0, <3>1, <1>1, <1>2 DEF TableStep, Kept
    <3>2. CASE s = 0
      <4>1. ~(d \in Devices /\ alt_file_locked(d, i))
        BY <2>4, <3>2 DEF Allocated, OpenSays, EACCES
      <4>2. alt_fd_list' = [alt_fd_list EXCEPT ![i] = Entry(d, flags)]
        BY <2>4, <3>2 DEF Allocated
      <4>3. Given(i, d, flags) /\ ret' = i
        BY <4>1, <4>2, <2>1, <2>4, <3>2 DEF Given, Allocated
      <4>4. d \in Drivers /\ flags \in SUBSET Flags /\ ret' \in Int
        BY <2>4, <4>3, <1>1
      <4>. QED  BY <4>3, <4>4 DEF TableStep
    <3>. QED  BY <3>0, <3>1, <3>2
  <2>. QED  BY <2>2, <2>3, <2>4
<1>9. ASSUME NEW name \in Files, ALT_STAT(name) PROVE TableStep /\ ret' \in Int
  <2>1. stage' = stage
    BY <1>9 DEF ALT_STAT, Running
  <2>2. PICK d \in Drivers \cup {NONE} :
          \/ \E e \in {ENODEV, EMFILE} : NotAllocated(d, e) /\ ret' = -EBADFD
          \/ \E i \in Fds, s \in {0, -ENOENT, -EACCES} :
               /\ alt_max_fd' = MaxFd(i) /\ UNCHANGED alt_fd_list
               /\ ret' \in IF s < 0 THEN {-EBADFD} ELSE Answer("fstat", d, 0)
    BY <1>9 DEF ALT_STAT
  <2>3. ret' \in Int
    BY <2>2 DEF Answer, EBADFD, EIO
  <2>4. Kept
    BY <2>1, <2>2, <1>1, <1>2 DEF Kept, NotAllocated
  <2>. QED  BY <2>3, <2>4 DEF TableStep
<1>10. ASSUME NEW i \in Open, ALT_CLOSE(i) PROVE TableStep /\ ret' \in Int
  <2>1. stage' = stage /\ alt_max_fd' = alt_max_fd /\ ret' \in {0, -EIO}
    BY <1>10 DEF ALT_CLOSE, Running, Answer
  <2>2. CASE i \in Std
    BY <2>1, <2>2, <1>4, <1>10 DEF ALT_CLOSE, alt_release_fd, EIO
  <2>3. CASE i \notin Std
    <3>1. Freed(i)
      BY <2>1, <2>3, <1>10 DEF ALT_CLOSE, alt_release_fd, Freed
    <3>. QED  BY <3>1, <2>1, <2>3 DEF TableStep, EIO
  <2>. QED  BY <2>2, <2>3
<1>11. ASSUME NEW i \in Open, Exclusive(i) PROVE TableStep /\ ret' \in Int
  <2>1. stage' = stage /\ stage = Len(stdio) /\ alt_max_fd' = alt_max_fd
    BY <1>11 DEF Exclusive, Running
  <2>2. CASE alt_fd_lock(i)
    BY <2>1, <2>2, <1>4, <1>11 DEF Exclusive, EACCES
  <2>3. CASE ~alt_fd_lock(i)
    <3>1. Locks(i) /\ ret' = 0
      BY <2>1, <2>3, <1>11 DEF Exclusive, Flagged, Locks
    <3>. QED  BY <3>1 DEF TableStep
  <2>. QED  BY <2>2, <2>3
<1>12. ASSUME NEW i \in Open, alt_fd_unlock(i) PROVE TableStep /\ ret' \in Int
  <2>1. Unlocks(i) /\ ret' = 0
    BY <1>12 DEF alt_fd_unlock, Flagged, Running, Unlocks
  <2>. QED  BY <2>1 DEF TableStep
<1>13. ASSUME NEW i \in Open, NEW flags \in OpenFlags, F_SETFL(i, flags)
       PROVE  TableStep /\ ret' \in Int
  <2>1. Sets(i, flags) /\ ret' = 0 /\ flags \in SUBSET Flags
    BY <1>13, <1>1 DEF F_SETFL, Flagged, Running, Sets
  <2>. QED  BY <2>1 DEF TableStep
<1>14. ASSUME NEW i \in Open,
              \/ ALT_IOCTL(i) \/ F_GETFL(i) \/ ALT_READ(i) \/ ALT_WRITE(i)
              \/ ALT_LSEEK(i) \/ ALT_FSTAT(i) \/ ALT_ISATTY(i)
       PROVE  TableStep /\ ret' \in Int
  <2>1. UNCHANGED tableVars /\ stage' = stage
    BY <1>14 DEF ALT_IOCTL, F_GETFL, ALT_READ, ALT_WRITE, ALT_LSEEK, ALT_FSTAT, ALT_ISATTY, Running
  <2>2. ret' \in {0, 1, -EIO, -ENOTTY, -EACCES, -ENOTSUP}
    BY <1>14 DEF ALT_IOCTL, F_GETFL, ALT_READ, ALT_WRITE, ALT_LSEEK, ALT_FSTAT, ALT_ISATTY, Answer
  <2>. QED  BY <2>1, <2>2, <1>4 DEF EIO, ENOTTY, EACCES, ENOTSUP
<1>15. CASE BadDescriptor
  BY <1>4, <1>15 DEF BadDescriptor, Running, EBADFD
<1>16. CASE UNCHANGED vars
  BY <1>1, <1>4, <1>16 DEF vars
<1>. QED  BY <1>5, <1>6, <1>7, <1>8, <1>9, <1>10, <1>11, <1>12, <1>13, <1>14, <1>15, <1>16
          DEF Next

-----------------------------------------------------------------------------
\* What each of these does to one entry.

LEMMA EntryType ==
  ASSUME NEW d \in Drivers, NEW flags \in SUBSET Flags
  PROVE  /\ Entry(d, flags) \in Entries /\ Entry(d, flags).dev = d
         /\ "EXCL" \notin Entry(d, flags).fd_flags
         /\ "DEV" \in Entry(d, flags).fd_flags => d \in Devices
         /\ d # NONE
  BY FdConstants DEF Entry, Entries, Drivers, Devices, ALT_FD_FLAGS_MASK, Flags

LEMMA ReleasedType == Released \in Entries /\ Released.dev = NONE /\ Released.fd_flags = {}
  BY DEF Released, Entries

\* The entry i is the only one that changes, to e.
Only(i, e) == alt_fd_list' = [alt_fd_list EXCEPT ![i] = e]

LEMMA OnlyOne ==
  ASSUME alt_fd_list \in [Fds -> Entries], NEW i \in Fds, NEW e \in Entries, Only(i, e)
  PROVE  /\ alt_fd_list' \in [Fds -> Entries] /\ alt_fd_list'[i] = e
         /\ \A j \in Fds : j # i => alt_fd_list'[j] = alt_fd_list[j]
  BY DEF Only

LEMMA FlaggedIsOnly ==
  ASSUME alt_fd_list \in [Fds -> Entries], NEW i \in Fds, NEW f \in SUBSET Flags, Flagged(i, f)
  PROVE  /\ Only(i, [dev |-> alt_fd_list[i].dev, fd_flags |-> f])
         /\ [dev |-> alt_fd_list[i].dev, fd_flags |-> f] \in Entries
<1>1. alt_fd_list[i] \in Entries
  OBVIOUS
<1>2. [alt_fd_list[i] EXCEPT !.fd_flags = f] = [dev |-> alt_fd_list[i].dev, fd_flags |-> f]
  BY <1>1 DEF Entries
<1>3. alt_fd_list' = [alt_fd_list EXCEPT ![i] = [alt_fd_list[i] EXCEPT !.fd_flags = f]]
  BY DEF Flagged
<1>. QED  BY <1>1, <1>2, <1>3 DEF Only, Entries

\* An entry that is free is beyond the standard streams.
LEMMA FreeIsBeyond ==
  ASSUME TypeOK, TableOK, NEW i \in Fds, Takes(i)
  PROVE  /\ i \notin Open /\ i > 2 /\ MaxFd(i) \in Fds /\ MaxFd(i) >= i
         /\ alt_max_fd <= MaxFd(i)
<1>. USE FdConstants
<1>1. i \notin Open
  BY DEF Takes, Open
<1>2. i \notin Std
  BY <1>1 DEF TableOK, Open
<1>. QED  BY <1>1, <1>2 DEF TypeOK, MaxFd, Fds, Std

-----------------------------------------------------------------------------
\* The invariant is inductive.

\* The part of TableOK about one entry.
EntryOK(list, max, st, i) ==
  /\ i \in Std => list[i].dev # NONE
  /\ list[i].dev = NONE => list[i].fd_flags = {}
  /\ "DEV" \in list[i].fd_flags => list[i].dev \in Devices
  /\ "EXCL" \in list[i].fd_flags => "DEV" \in list[i].fd_flags /\ st = Len(stdio)
  /\ "DEV" \in list[i].fd_flags \/ (list[i].dev # NONE /\ i \notin Std) => i <= max

LEMMA EntryByEntry ==
  ASSUME MAX_FD \in Nat, MAX_FD > 3
  PROVE  TableOK <=> \A i \in Fds : EntryOK(alt_fd_list, alt_max_fd, stage, i)
<1>1. Std \subseteq Fds
  BY DEF Std, Fds
<1>. QED  BY <1>1 DEF TableOK, EntryOK, Open, Locked

LEMMA TableStepTypes ==
  ASSUME TypeOK, TableOK, TableStep
  PROVE  /\ alt_fd_list' \in [Fds -> Entries] /\ alt_max_fd' \in {-1} \cup Fds
         /\ stage' \in 0..Len(stdio) /\ alt_max_fd <= alt_max_fd'
<1>. USE FdConstants
<1>1. /\ alt_fd_list \in [Fds -> Entries] /\ alt_max_fd \in {-1} \cup Fds
      /\ stage \in 0..Len(stdio) /\ Open \subseteq Fds /\ Std \subseteq Fds
      /\ alt_max_fd \in Int /\ Len(stdio) \in Nat
  BY DEF TypeOK, Entries, Open, Std, Fds
<1>2. CASE Kept
  BY <1>1, <1>2 DEF Kept
<1>3. ASSUME NEW i \in Fds, NEW d \in Drivers, NEW flags \in SUBSET Flags, Given(i, d, flags)
      PROVE  /\ alt_fd_list' \in [Fds -> Entries] /\ alt_max_fd' \in {-1} \cup Fds
             /\ stage' \in 0..Len(stdio) /\ alt_max_fd <= alt_max_fd'
  <2>1. alt_fd_list' \in [Fds -> Entries]
    BY <1>1, <1>3, EntryType DEF Given
  <2>2. alt_max_fd' = MaxFd(i) /\ stage' = stage /\ Takes(i)
    BY <1>3 DEF Given
  <2>. QED  BY <1>1, <2>1, <2>2, FreeIsBeyond
<1>4. ASSUME NEW i \in Fds, NEW s \in Std, NEW d \in Drivers, NEW flags \in SUBSET Flags,
             Moved(s, i, d, flags)
      PROVE  /\ alt_fd_list' \in [Fds -> Entries] /\ alt_max_fd' \in {-1} \cup Fds
             /\ stage' \in 0..Len(stdio) /\ alt_max_fd <= alt_max_fd'
  <2>1. alt_fd_list' \in [Fds -> Entries]
    BY <1>1, <1>4, EntryType DEF Moved
  <2>2. alt_max_fd' = MaxFd(i) /\ stage' = stage + 1 /\ stage < Len(stdio) /\ Takes(i)
    BY <1>4 DEF Moved
  <2>. QED  BY <1>1, <2>1, <2>2, FreeIsBeyond
<1>5. ASSUME NEW i \in Open, Freed(i)
      PROVE  /\ alt_fd_list' \in [Fds -> Entries] /\ alt_max_fd' = alt_max_fd /\ stage' = stage
  BY <1>1, <1>5, ReleasedType DEF Freed
<1>6. ASSUME NEW i \in Open, NEW f \in SUBSET Flags, Flagged(i, f)
      PROVE  /\ alt_fd_list' \in [Fds -> Entries] /\ alt_max_fd' = alt_max_fd /\ stage' = stage
  BY <1>1, <1>6, FlaggedIsOnly, OnlyOne DEF Flagged
<1>7. \A i \in Open : alt_fd_list[i].fd_flags \in SUBSET Flags
  BY <1>1 DEF Entries
<1>8. ASSUME NEW i \in Open, Locks(i) \/ Unlocks(i)
      PROVE  \E f \in SUBSET Flags : Flagged(i, f)
  <2>1. /\ alt_fd_list[i].fd_flags \cup {"EXCL"} \in SUBSET Flags
        /\ alt_fd_list[i].fd_flags \ {"EXCL"} \in SUBSET Flags
    BY <1>7 DEF Flags, ALT_FD_FLAGS_MASK
  <2>. QED  BY <1>8, <2>1 DEF Locks, Unlocks
<1>9. ASSUME NEW i \in Open, NEW flags \in SUBSET Flags, Sets(i, flags)
      PROVE  \E f \in SUBSET Flags : Flagged(i, f)
  <2>1. (alt_fd_list[i].fd_flags \ ALT_FCNTL_FLAGS_MASK) \cup (flags \cap ALT_FCNTL_FLAGS_MASK) \in SUBSET Flags
    BY <1>7
  <2>. QED  BY <1>9, <2>1 DEF Sets
<1>. QED  BY <1>1, <1>2, <1>3, <1>4, <1>5, <1>6, <1>8, <1>9 DEF TableStep

\* What a change of flags does to an entry.
LEMMA FlagsChange ==
  ASSUME TypeOK, NEW i \in Open, NEW flags \in SUBSET Flags,
         Locks(i) \/ Unlocks(i) \/ Sets(i, flags)
  PROVE  /\ \A j \in Fds : alt_fd_list'[j].dev = alt_fd_list[j].dev
         /\ \A j \in Fds : j # i => alt_fd_list'[j] = alt_fd_list[j]
         /\ "DEV" \in alt_fd_list'[i].fd_flags <=> "DEV" \in alt_fd_list[i].fd_flags
         /\ Locks(i) \/ ("EXCL" \in alt_fd_list'[i].fd_flags => "EXCL" \in alt_fd_list[i].fd_flags)
         /\ alt_max_fd' = alt_max_fd /\ stage' = stage
<1>1. alt_fd_list \in [Fds -> Entries] /\ i \in Fds
  BY DEF TypeOK, Entries, Open
<1>2. alt_fd_list[i].fd_flags \in SUBSET Flags
  BY <1>1 DEF Entries
<1>. DEFINE old == alt_fd_list[i].fd_flags
<1>3. PICK f \in SUBSET Flags :
        /\ Flagged(i, f)
        /\ "DEV" \in f <=> "DEV" \in old
        /\ Locks(i) \/ ("EXCL" \in f => "EXCL" \in old)
  <2>1. CASE Locks(i)
    <3>1. old \cup {"EXCL"} \in SUBSET Flags
      BY <1>2 DEF Flags, ALT_FD_FLAGS_MASK
    <3>. QED  BY <2>1, <3>1 DEF Locks
  <2>2. CASE Unlocks(i)
    <3>1. old \ {"EXCL"} \in SUBSET Flags
      BY <1>2
    <3>. QED  BY <2>2, <3>1 DEF Unlocks
  <2>3. CASE Sets(i, flags)
    <3>. DEFINE f == (old \ ALT_FCNTL_FLAGS_MASK) \cup (flags \cap ALT_FCNTL_FLAGS_MASK)
    <3>1. f \in SUBSET Flags
      BY <1>2
    <3>2. ("DEV" \in f <=> "DEV" \in old) /\ ("EXCL" \in f <=> "EXCL" \in old)
      BY DEF ALT_FCNTL_FLAGS_MASK
    <3>3. Flagged(i, f)
      BY <2>3 DEF Sets
    <3>. QED  BY <3>1, <3>2, <3>3
  <2>. QED  BY <2>1, <2>2, <2>3
<1>. DEFINE e == [dev |-> alt_fd_list[i].dev, fd_flags |-> f]
<1>4. Only(i, e) /\ e \in Entries
  BY <1>1, <1>3, FlaggedIsOnly
<1>5. alt_fd_list'[i] = e /\ \A j \in Fds : j # i => alt_fd_list'[j] = alt_fd_list[j]
  BY <1>1, <1>4, OnlyOne
<1>. QED  BY <1>3, <1>5 DEF Flagged

LEMMA TableStepKeeps ==
  ASSUME TypeOK, TableOK, TableStep
  PROVE  TableOK'
<1>. USE FdConstants
<1>1. /\ alt_fd_list \in [Fds -> Entries] /\ alt_max_fd \in Int
      /\ stage \in Int /\ Len(stdio) \in Int /\ Open \subseteq Fds /\ Std \subseteq Fds
      /\ Fds \subseteq Int
  BY DEF TypeOK, Entries, Open, Std, Fds
<1>2. \A j \in Fds : EntryOK(alt_fd_list, alt_max_fd, stage, j)
  BY EntryByEntry
<1>. DEFINE After(j) == EntryOK(alt_fd_list', alt_max_fd', stage', j)
<1>3. ASSUME Kept, NEW j \in Fds
      PROVE  After(j)
  <2>1. /\ alt_fd_list' = alt_fd_list /\ alt_max_fd <= alt_max_fd' /\ alt_max_fd' \in Int
        /\ stage = Len(stdio) => stage' = stage
    BY <1>1, <1>3 DEF Kept
  <2>. QED  BY <1>1, <1>2, <2>1 DEF EntryOK
<1>4. ASSUME NEW i \in Fds, NEW d \in Drivers, NEW flags \in SUBSET Flags, Given(i, d, flags),
             NEW j \in Fds
      PROVE  After(j)
  <2>1. /\ alt_fd_list'[i] = Entry(d, flags)
        /\ \A k \in Fds : k # i => alt_fd_list'[k] = alt_fd_list[k]
    BY <1>1, <1>4, EntryType DEF Given
  <2>2. i <= alt_max_fd' /\ alt_max_fd <= alt_max_fd' /\ stage' = stage /\ alt_max_fd' \in Int
    BY <1>1, <1>4, FreeIsBeyond DEF Given
  <2>3. CASE j = i
    BY <2>1, <2>2, <2>3, EntryType DEF EntryOK
  <2>4. CASE j # i
    BY <1>1, <1>2, <2>1, <2>2, <2>4 DEF EntryOK
  <2>. QED  BY <2>3, <2>4
<1>5. ASSUME NEW i \in Fds, NEW s \in Std, NEW d \in Drivers, NEW flags \in SUBSET Flags,
             Moved(s, i, d, flags), NEW j \in Fds
      PROVE  After(j)
  <2>1. /\ alt_fd_list'[s] = Entry(d, flags)
        /\ \A k \in Fds : k # s => alt_fd_list'[k] = alt_fd_list[k]
    BY <1>1, <1>5, EntryType DEF Moved
  <2>2. /\ s <= alt_max_fd' /\ alt_max_fd <= alt_max_fd' /\ alt_max_fd' \in Int
        /\ stage < Len(stdio)
    BY <1>1, <1>5, FreeIsBeyond DEF Moved, Std, Fds
  <2>3. CASE j = s
    BY <2>1, <2>2, <2>3, EntryType DEF EntryOK
  <2>4. CASE j # s
    BY <1>1, <1>2, <2>1, <2>2, <2>4 DEF EntryOK
  <2>. QED  BY <2>3, <2>4
<1>6. ASSUME NEW i \in Open \ Std, Freed(i), NEW j \in Fds
      PROVE  After(j)
  <2>1. /\ alt_fd_list'[i] = Released
        /\ \A k \in Fds : k # i => alt_fd_list'[k] = alt_fd_list[k]
    BY <1>1, <1>6, ReleasedType DEF Freed
  <2>2. alt_max_fd' = alt_max_fd /\ stage' = stage
    BY <1>6 DEF Freed
  <2>3. CASE j = i
    BY <1>6, <2>1, <2>3, ReleasedType DEF EntryOK
  <2>4. CASE j # i
    BY <1>2, <2>1, <2>2, <2>4 DEF EntryOK
  <2>. QED  BY <2>3, <2>4
<1>7. ASSUME NEW i \in Open, NEW flags \in SUBSET Flags,
             Locks(i) \/ Unlocks(i) \/ Sets(i, flags), NEW j \in Fds
      PROVE  After(j)
  <2>1. CASE j = i
    <3>1. /\ alt_fd_list'[i].dev = alt_fd_list[i].dev
          /\ "DEV" \in alt_fd_list'[i].fd_flags <=> "DEV" \in alt_fd_list[i].fd_flags
          /\ Locks(i) \/ ("EXCL" \in alt_fd_list'[i].fd_flags => "EXCL" \in alt_fd_list[i].fd_flags)
          /\ alt_max_fd' = alt_max_fd /\ stage' = stage
      BY <1>1, <1>7, FlagsChange
    <3>2. Locks(i) => stage = Len(stdio) /\ "DEV" \in alt_fd_list[i].fd_flags
      BY DEF Locks
    <3>3. alt_fd_list[i].dev # NONE
      BY DEF Open
    <3>. QED  BY <1>1, <1>2, <2>1, <3>1, <3>2, <3>3 DEF EntryOK
  <2>2. CASE j # i
    BY <1>2, <1>7, <2>2, FlagsChange DEF EntryOK
  <2>. QED  BY <2>1, <2>2
<1>8. \A j \in Fds : After(j)
  <2>. HIDE DEF After
  <2>1. ASSUME NEW i \in Open, Locks(i) \/ Unlocks(i), NEW j \in Fds PROVE After(j)
    <3>1. {} \in SUBSET Flags
      OBVIOUS
    <3>. QED  BY <1>7, <2>1, <3>1
  <2>. QED  BY <1>3, <1>4, <1>5, <1>6, <1>7, <2>1 DEF TableStep
<1>9. (\A i \in Fds : EntryOK(alt_fd_list, alt_max_fd, stage, i))' => TableOK'
  BY <1>1 DEF TableOK, EntryOK, Open, Locked
<1>. QED  BY <1>8, <1>9

\* LockLowest, of a table.
Lowest(list) ==
  \A i, j \in Fds : /\ list[i].dev # NONE /\ list[j].dev = list[i].dev
                    /\ "EXCL" \in list[i].fd_flags /\ j # i
                    => i < j

LEMMA LockStepKeeps ==
  ASSUME TypeOK, TableOK, LockLowest, TableStep
  PROVE  LockLowest'
<1>. USE FdConstants
<1>1. /\ alt_fd_list \in [Fds -> Entries] /\ alt_max_fd \in Int
      /\ Open \subseteq Fds /\ Std \subseteq Fds /\ Fds \subseteq Int
      /\ stage \in Int /\ Len(stdio) \in Int
  BY DEF TypeOK, Entries, Open, Std, Fds
<1>2. \A j \in Fds : EntryOK(alt_fd_list, alt_max_fd, stage, j)
  BY EntryByEntry
<1>3. Lowest(alt_fd_list)
  BY DEF LockLowest, Lowest, Open, Locked
<1>4. Lowest(alt_fd_list') => LockLowest'
  BY DEF LockLowest, Lowest, Open, Locked
<1>5. ASSUME Kept PROVE Lowest(alt_fd_list')
  <2>1. alt_fd_list' = alt_fd_list
    BY <1>5 DEF Kept
  <2>. QED  BY <1>3, <2>1 DEF Lowest
<1>6. ASSUME NEW i \in Fds, NEW d \in Drivers, NEW flags \in SUBSET Flags, Given(i, d, flags)
      PROVE  Lowest(alt_fd_list')
  <2>1. /\ alt_fd_list'[i] = Entry(d, flags)
        /\ \A k \in Fds : k # i => alt_fd_list'[k] = alt_fd_list[k]
    BY <1>1, <1>6, EntryType DEF Given
  <2>2. alt_max_fd <= MaxFd(i) /\ MaxFd(i) \in Fds
    BY <1>6, FreeIsBeyond DEF Given
  <2>3. ASSUME NEW a \in Fds, a # i, alt_fd_list[a].dev = d, "EXCL" \in alt_fd_list[a].fd_flags
        PROVE  FALSE
    <3>1. a <= alt_max_fd /\ d \in Devices
      BY <1>2, <2>3 DEF EntryOK
    <3>2. a \in 0..MaxFd(i)
      BY <1>1, <2>2, <3>1 DEF Fds
    <3>. QED  BY <1>6, <2>3, <3>1, <3>2 DEF Given, alt_file_locked
  <2>4. Entry(d, flags).dev = d /\ "EXCL" \notin Entry(d, flags).fd_flags
    BY EntryType
  <2>. QED  BY <1>3, <2>1, <2>3, <2>4 DEF Lowest
<1>7. ASSUME NEW i \in Fds, NEW s \in Std, NEW d \in Drivers, NEW flags \in SUBSET Flags,
             Moved(s, i, d, flags)
      PROVE  Lowest(alt_fd_list')
  <2>1. /\ alt_fd_list'[s] = Entry(d, flags)
        /\ \A k \in Fds : k # s => alt_fd_list'[k] = alt_fd_list[k]
    BY <1>1, <1>7, EntryType DEF Moved
  <2>2. stage < Len(stdio)
    BY <1>7 DEF Moved
  <2>3. \A k \in Fds : "EXCL" \notin alt_fd_list[k].fd_flags
    BY <1>1, <1>2, <2>2 DEF EntryOK
  <2>. QED  BY <2>1, <2>3, EntryType DEF Lowest
<1>8. ASSUME NEW i \in Open \ Std, Freed(i)
      PROVE  Lowest(alt_fd_list')
  <2>1. /\ alt_fd_list'[i] = Released
        /\ \A k \in Fds : k # i => alt_fd_list'[k] = alt_fd_list[k]
    BY <1>1, <1>8, ReleasedType DEF Freed
  <2>. QED  BY <1>3, <2>1, ReleasedType DEF Lowest
<1>9. ASSUME NEW i \in Open, NEW flags \in SUBSET Flags, Locks(i) \/ Unlocks(i) \/ Sets(i, flags)
      PROVE  Lowest(alt_fd_list')
  <2>1. /\ \A j \in Fds : alt_fd_list'[j].dev = alt_fd_list[j].dev
        /\ \A j \in Fds : j # i => alt_fd_list'[j] = alt_fd_list[j]
        /\ Locks(i) \/ ("EXCL" \in alt_fd_list'[i].fd_flags => "EXCL" \in alt_fd_list[i].fd_flags)
    BY <1>9, FlagsChange
  <2>2. CASE Locks(i)
    <3>1. ASSUME NEW j \in Fds, j # i, alt_fd_list[j].dev = alt_fd_list[i].dev
          PROVE  i < j
      <4>1. i <= alt_max_fd /\ ~alt_fd_lock(i)
        BY <1>1, <1>2, <2>2 DEF Locks, EntryOK
      <4>2. ~(j \in 0..(alt_max_fd - 1))
        BY <3>1, <4>1 DEF alt_fd_lock
      <4>. QED  BY <1>1, <3>1, <4>1, <4>2 DEF Fds
    <3>. QED  BY <1>3, <2>1, <3>1 DEF Lowest
  <2>3. CASE ~Locks(i)
    BY <1>3, <2>1, <2>3 DEF Lowest
  <2>. QED  BY <2>2, <2>3
<1>10. ASSUME NEW i \in Open, Locks(i) \/ Unlocks(i) PROVE Lowest(alt_fd_list')
  <2>1. {} \in SUBSET Flags
    OBVIOUS
  <2>. QED  BY <1>9, <1>10, <2>1
<1>. QED  BY <1>4, <1>5, <1>6, <1>7, <1>8, <1>9, <1>10 DEF TableStep

\* What is registered.
LEMMA ListsKeep ==
  ASSUME TypeOK, [Next]_vars
  PROVE  alt_dev_list' \in Seq(Devices) /\ alt_fs_list' \in Seq(FSs)
<1>1. alt_dev_list \in Seq(Devices) /\ alt_fs_list \in Seq(FSs)
  BY DEF TypeOK
<1>2. ASSUME NEW d \in Devs, Register(d) PROVE alt_dev_list' \in Seq(Devices) /\ alt_fs_list' = alt_fs_list
  <2>1. <<d>> \o alt_dev_list \in Seq(Devices)
    BY <1>1 DEF Devices
  <2>. QED  BY <1>1, <1>2, <2>1 DEF Register
<1>3. ASSUME NEW d \in FSs, alt_fs_reg(d) PROVE alt_dev_list' = alt_dev_list /\ alt_fs_list' \in Seq(FSs)
  <2>1. <<d>> \o alt_fs_list \in Seq(FSs)
    BY <1>1
  <2>. QED  BY <1>1, <1>3, <2>1 DEF alt_fs_reg
<1>4. (\E d \in Devs : Register(d)) \/ (\E d \in FSs : alt_fs_reg(d)) \/ UNCHANGED listVars
  BY DEF Next, vars, Redirect, ALT_STAT, ALT_OPEN, ALT_CLOSE, Exclusive, alt_fd_unlock, ALT_IOCTL,
         F_GETFL, F_SETFL, ALT_READ, ALT_WRITE, ALT_LSEEK, ALT_FSTAT, ALT_ISATTY, BadDescriptor, Running
<1>. QED  BY <1>1, <1>2, <1>3, <1>4 DEF listVars

LEMMA InitTable == Init => IInv
<1>. SUFFICES ASSUME Init PROVE IInv
  OBVIOUS
<1>. USE FdConstants
<1>1. TypeOK
  <2>1. <<alt_dev_null>> \in Seq(Devices) /\ <<>> \in Seq(FSs)
    BY DEF Devices
  <2>2. alt_fd_list \in [Fds -> [dev : Drivers \cup {NONE}, fd_flags : SUBSET Flags]]
    BY DEF Init, Drivers, Devices
  <2>3. stage \in 0..Len(stdio) /\ ret \in Int /\ alt_max_fd \in {-1} \cup Fds
    BY DEF Init
  <2>. QED  BY <2>1, <2>2, <2>3 DEF Init, TypeOK
<1>2. \A i \in Fds : alt_fd_list[i].fd_flags = {} /\ (alt_fd_list[i].dev # NONE <=> i \in Std)
  BY DEF Init, Drivers, Devices
<1>3. TableOK /\ LockLowest
  BY <1>2 DEF TableOK, LockLowest, Open, Locked, Std, Fds
<1>. QED  BY <1>1, <1>3 DEF IInv

LEMMA NextTable == IInv /\ [Next]_vars => IInv'
<1>. SUFFICES ASSUME IInv, [Next]_vars PROVE IInv'
  OBVIOUS
<1>1. TypeOK /\ TableOK /\ LockLowest
  BY DEF IInv
<1>2. TableStep /\ ret' \in Int
  BY <1>1, Calls
<1>3. TypeOK'
  BY <1>1, <1>2, ListsKeep, TableStepTypes DEF TypeOK, Entries
<1>4. TableOK' /\ LockLowest'
  BY <1>1, <1>2, TableStepKeeps, LockStepKeeps
<1>. QED  BY <1>3, <1>4 DEF IInv

\* IInv holds in every state: the standard streams are never without a device, what is
\* released keeps no flag, no open descriptor is beyond the mark up to which
\* alt_file_locked and alt_fd_lock look, and a device is never locked by two of its
\* descriptors.
THEOREM TableInvariant == Spec => []IInv
  BY InitTable, NextTable, PTL DEF Spec

-----------------------------------------------------------------------------
\* The calls implement Handles.

HeldDevices == {alt_fd_list[i].dev : i \in Holders}

\* Every device that is locked has one owner, the descriptor that is locked.
OwnerOK == /\ Owner \in [HeldDevices -> Holders]
           /\ \A i \in Holders : Owner[alt_fd_list[i].dev] = i
           /\ \A d \in HeldDevices : alt_fd_list[Owner[d]].dev = d

LEMMA OneOwner == IInv => OwnerOK
<1>. SUFFICES ASSUME IInv PROVE OwnerOK
  OBVIOUS
<1>1. ASSUME NEW i \in Holders, NEW j \in Holders, alt_fd_list[i].dev = alt_fd_list[j].dev
      PROVE  i = j
  <2>1. i \in Int /\ j \in Int
    BY FdConstants DEF Holders, Open, Fds
  <2>2. i # j => i < j /\ j < i
    BY <1>1 DEF IInv, LockLowest, Holders
  <2>. QED  BY <2>1, <2>2
<1>2. ASSUME NEW i \in Holders
      PROVE  Owner[alt_fd_list[i].dev] = i
  <2>1. Owner[alt_fd_list[i].dev] = CHOOSE j \in Holders : alt_fd_list[j].dev = alt_fd_list[i].dev
    BY DEF Owner
  <2>. QED  BY <1>1, <2>1
<1>3. DOMAIN Owner = HeldDevices /\ Owner = [d \in HeldDevices |-> Owner[d]]
  BY DEF Owner, HeldDevices
<1>4. \A d \in HeldDevices : \E i \in Holders : d = alt_fd_list[i].dev
  BY DEF HeldDevices
<1>. QED  BY <1>2, <1>3, <1>4 DEF OwnerOK

LEMMA OneOwnerNext == IInv' => OwnerOK'
  BY OneOwner, PTL

LEMMA InitPromised == Init => Promised!Init
<1>. SUFFICES ASSUME Init PROVE Promised!Init
  OBVIOUS
<1>. USE FdConstants
<1>2. \A i \in Fds : /\ i \in Std => alt_fd_list[i].dev = alt_dev_null
                     /\ i \notin Std => alt_fd_list[i].dev = NONE
                     /\ alt_fd_list[i].fd_flags = {}
  BY DEF Init
<1>1. Std \subseteq Fds /\ alt_dev_null # NONE
  BY DEF Std, Fds, Drivers, Devices
<1>3. Open = Std
  BY <1>1, <1>2 DEF Open
<1>4. Refers = [i \in Std |-> alt_dev_null]
  <2>1. \A i \in Std : alt_fd_list[i].dev = alt_dev_null
    BY <1>1, <1>2
  <2>. QED  BY <1>3, <2>1 DEF Refers
<1>5. Holders = {}
  <2>1. \A i \in Open : "EXCL" \notin alt_fd_list[i].fd_flags
    BY <1>2 DEF Open
  <2>. QED  BY <2>1 DEF Holders, Locked
<1>6. Owner = [d \in {} |-> alt_dev_null]
  BY <1>5 DEF Owner
<1>7. ret = 0
  BY DEF Init
<1>. QED  BY <1>4, <1>6, <1>7 DEF Promised!Init

\* If the locks and the devices of the locked descriptors stay, so do the owners.
LEMMA SameOwner ==
  ASSUME OwnerOK, OwnerOK', Holders' = Holders,
         \A j \in Holders : alt_fd_list'[j].dev = alt_fd_list[j].dev
  PROVE  Owner' = Owner
<1>1. HeldDevices' = HeldDevices
  BY DEF HeldDevices
<1>2. ASSUME NEW d \in HeldDevices PROVE Owner'[d] = Owner[d]
  <2>1. PICK i \in Holders : d = alt_fd_list[i].dev
    BY DEF HeldDevices
  <2>. QED  BY <2>1 DEF OwnerOK
<1>. QED  BY <1>1, <1>2 DEF OwnerOK

\* If neither the devices of the descriptors nor the locks change, the caller sees only
\* the answer.
LEMMA SameTable ==
  ASSUME OwnerOK, OwnerOK',
         \A j \in Fds : /\ alt_fd_list'[j].dev = alt_fd_list[j].dev
                        /\ Locked(j)' <=> Locked(j)
  PROVE  Refers' = Refers /\ Owner' = Owner
<1>1. Open' = Open /\ Open \subseteq Fds
  BY DEF Open
<1>2. Holders' = Holders /\ Holders \subseteq Fds
  BY <1>1 DEF Holders
<1>3. Refers' = Refers
  BY <1>1 DEF Refers
<1>. QED  BY <1>2, <1>3, SameOwner

\* A change of flags, seen by the caller.
LEMMA NewFlags ==
  ASSUME TypeOK, NEW i \in Open, NEW f \in SUBSET Flags, Flagged(i, f)
  PROVE  /\ \A j \in Fds : alt_fd_list'[j].dev = alt_fd_list[j].dev
         /\ \A j \in Fds : j # i => (Locked(j)' <=> Locked(j))
         /\ Locked(i)' <=> "EXCL" \in f
         /\ Open' = Open /\ Refers' = Refers
<1>1. alt_fd_list \in [Fds -> Entries] /\ i \in Fds
  BY DEF TypeOK, Entries, Open
<1>2. /\ alt_fd_list'[i] = [dev |-> alt_fd_list[i].dev, fd_flags |-> f]
      /\ \A j \in Fds : j # i => alt_fd_list'[j] = alt_fd_list[j]
  BY <1>1, FlaggedIsOnly, OnlyOne
<1>3. \A j \in Fds : alt_fd_list'[j].dev = alt_fd_list[j].dev
  BY <1>2
<1>4. Open' = Open /\ Open \subseteq Fds
  BY <1>3 DEF Open
<1>5. Refers' = Refers
  BY <1>3, <1>4 DEF Refers
<1>. QED  BY <1>2, <1>3, <1>4, <1>5 DEF Locked

\* A descriptor that gives up its lock.
LEMMA OneLess ==
  ASSUME OwnerOK, OwnerOK', NEW i, Holders' = Holders \ {i},
         \A j \in Holders \ {i} : alt_fd_list'[j].dev = alt_fd_list[j].dev
  PROVE  Owner' = Promised!Without(Owner, Promised!Owned(i))
<1>1. DOMAIN Owner = HeldDevices /\ DOMAIN Owner' = HeldDevices'
  BY DEF OwnerOK
<1>2. HeldDevices' = HeldDevices \ Promised!Owned(i)
  <2>1. ASSUME NEW d \in HeldDevices' PROVE d \in HeldDevices /\ Owner[d] # i
    <3>1. PICK j \in Holders \ {i} : d = alt_fd_list[j].dev
      BY <2>1 DEF HeldDevices
    <3>. QED  BY <3>1 DEF HeldDevices, OwnerOK
  <2>2. ASSUME NEW d \in HeldDevices, Owner[d] # i PROVE d \in HeldDevices'
    <3>1. Owner[d] \in Holders \ {i} /\ alt_fd_list[Owner[d]].dev = d
      BY <2>2 DEF OwnerOK
    <3>2. alt_fd_list'[Owner[d]].dev = d
      BY <3>1
    <3>. QED  BY <3>1, <3>2 DEF HeldDevices
  <2>. QED  BY <1>1, <2>1, <2>2 DEF Promised!Owned
<1>3. ASSUME NEW d \in HeldDevices' PROVE Owner'[d] = Owner[d]
  <2>1. PICK j \in Holders \ {i} : d = alt_fd_list[j].dev /\ d = alt_fd_list'[j].dev
    BY <1>3 DEF HeldDevices
  <2>. QED  BY <2>1 DEF OwnerOK
<1>. QED  BY <1>1, <1>2, <1>3 DEF OwnerOK, Promised!Without

LEMMA NextPromised == IInv /\ IInv' /\ [Next]_vars => [Promised!Next]_(Promised!vars)
<1>. SUFFICES ASSUME IInv, IInv', [Next]_vars PROVE Promised!Next
  BY DEF Promised!Next
<1>1. /\ TypeOK /\ TableOK /\ LockLowest /\ TableStep /\ ret' \in Int
      /\ alt_fd_list \in [Fds -> Entries] /\ Open \subseteq Fds /\ Std \subseteq Fds
      /\ OwnerOK /\ OwnerOK'
  <2>1. Std \subseteq Fds
    BY FdConstants DEF Std, Fds
  <2>. QED  BY <2>1, Calls, OneOwner, OneOwnerNext DEF IInv, TypeOK, Entries, Open
<1>2. \A j \in Fds : EntryOK(alt_fd_list, alt_max_fd, stage, j)
  BY <1>1, FdConstants, EntryByEntry
<1>3. Refers' = Refers /\ Owner' = Owner => Promised!Next
  BY <1>1 DEF Promised!Next, Promised!Answer
<1>4. CASE Kept
  <2>1. alt_fd_list' = alt_fd_list
    BY <1>4 DEF Kept
  <2>. QED  BY <1>1, <1>3, <2>1, SameTable DEF Locked
<1>5. ASSUME NEW i \in Open, NEW flags \in SUBSET Flags, Sets(i, flags)
      PROVE  Promised!Next
  <2>. DEFINE old == alt_fd_list[i].fd_flags
              f == (old \ ALT_FCNTL_FLAGS_MASK) \cup (flags \cap ALT_FCNTL_FLAGS_MASK)
  <2>1. f \in SUBSET Flags /\ ("EXCL" \in f <=> "EXCL" \in old)
    BY <1>1 DEF Entries, ALT_FCNTL_FLAGS_MASK
  <2>2. Flagged(i, f)
    BY <1>5 DEF Sets
  <2>. HIDE DEF f
  <2>3. \A j \in Fds : alt_fd_list'[j].dev = alt_fd_list[j].dev /\ (Locked(j)' <=> Locked(j))
    BY <1>1, <2>1, <2>2, NewFlags DEF Locked
  <2>. QED  BY <1>1, <1>3, <2>3, SameTable
<1>6. ASSUME NEW i \in Fds, NEW d \in Drivers, NEW flags \in SUBSET Flags, Given(i, d, flags), ret' = i
      PROVE  Promised!Next
  <2>1. /\ alt_fd_list'[i] = Entry(d, flags) /\ i \notin Open
        /\ \A k \in Fds : k # i => alt_fd_list'[k] = alt_fd_list[k]
    BY <1>1, <1>6, EntryType, FreeIsBeyond DEF Given
  <2>2. Entry(d, flags).dev = d /\ "EXCL" \notin Entry(d, flags).fd_flags /\ d # NONE
    BY EntryType
  <2>3. Holders' = Holders /\ i \notin Holders
    BY <2>1, <2>2 DEF Holders, Open, Locked
  <2>4. Owner' = Owner
    BY <1>1, <2>1, <2>3, SameOwner DEF Holders
  <2>5. d \notin HeldDevices
    <3>1. SUFFICES ASSUME NEW a \in Holders, alt_fd_list[a].dev = d PROVE FALSE
      BY DEF HeldDevices
    <3>2. a \in Fds /\ a # i /\ "EXCL" \in alt_fd_list[a].fd_flags
      BY <2>3 DEF Holders, Locked, Open
    <3>3. a <= alt_max_fd /\ d \in Devices
      BY <1>2, <3>1, <3>2 DEF EntryOK
    <3>4. alt_max_fd <= MaxFd(i) /\ MaxFd(i) \in Fds /\ alt_max_fd \in Int
      BY <1>1, <1>6, FdConstants, FreeIsBeyond DEF Given, TypeOK, Fds
    <3>5. a \in 0..MaxFd(i)
      BY <3>2, <3>3, <3>4, FdConstants DEF Fds
    <3>. QED  BY <1>6, <3>1, <3>2, <3>3, <3>5 DEF Given, alt_file_locked
  <2>6. Open' = Open \cup {i}
    BY <1>1, <2>1, <2>2 DEF Open
  <2>7. Refers' = Promised!With(Refers, i, d)
    BY <1>1, <2>1, <2>2, <2>6 DEF Refers, Promised!With
  <2>8. Promised!Open(i, d)
    BY <1>1, <1>6, <2>1, <2>4, <2>5, <2>7 DEF Promised!Open, Refers, OwnerOK
  <2>. QED  BY <2>8 DEF Promised!Next
<1>7. ASSUME NEW i \in Fds, NEW s \in Std, NEW d \in Drivers, NEW flags \in SUBSET Flags,
             Moved(s, i, d, flags), ret' = ret
      PROVE  Promised!Next
  <2>1. /\ alt_fd_list'[s] = Entry(d, flags) /\ s \in Open
        /\ \A k \in Fds : k # s => alt_fd_list'[k] = alt_fd_list[k]
    BY <1>1, <1>7, EntryType DEF Moved, TableOK, Open
  <2>2. Entry(d, flags).dev = d /\ "EXCL" \notin Entry(d, flags).fd_flags /\ d # NONE
    BY EntryType
  <2>3. Holders = {}
    <3>1. stage < Len(stdio) /\ stage \in Int /\ Len(stdio) \in Int
      BY <1>1, <1>7, FdConstants DEF Moved, TypeOK
    <3>. QED  BY <1>2, <3>1 DEF Holders, Open, Locked, EntryOK
  <2>4. Holders' = {}
    BY <2>1, <2>2, <2>3 DEF Holders, Open, Locked
  <2>5. Owner' = Owner
    BY <1>1, <2>3, <2>4, SameOwner
  <2>6. Open' = Open
    BY <1>1, <2>1, <2>2 DEF Open
  <2>7. Refers' = Promised!With(Refers, s, d)
    BY <1>1, <2>1, <2>2, <2>6 DEF Refers, Promised!With
  <2>8. DOMAIN Owner = {}
    BY <1>1, <2>3 DEF OwnerOK, HeldDevices
  <2>9. Promised!Redirect(s, d)
    BY <1>7, <2>5, <2>7, <2>8 DEF Promised!Redirect, Promised!Owned
  <2>. QED  BY <1>1, <2>9 DEF Promised!Next
<1>8. ASSUME NEW i \in Open \ Std, Freed(i)
      PROVE  Promised!Next
  <2>1. /\ alt_fd_list'[i] = Released
        /\ \A k \in Fds : k # i => alt_fd_list'[k] = alt_fd_list[k]
    BY <1>1, <1>8, ReleasedType DEF Freed
  <2>2. Open' = Open \ {i}
    BY <1>1, <2>1, ReleasedType DEF Open
  <2>3. Holders' = Holders \ {i}
    BY <1>1, <2>1, <2>2 DEF Holders, Locked
  <2>4. Owner' = Promised!Without(Owner, Promised!Owned(i))
    BY <1>1, <2>1, <2>3, OneLess DEF Holders
  <2>5. Refers' = Promised!Without(Refers, {i})
    BY <1>1, <2>1, <2>2 DEF Refers, Promised!Without
  <2>6. Promised!Close(i)
    BY <1>1, <2>4, <2>5 DEF Promised!Close, Refers
  <2>. QED  BY <1>1, <2>6 DEF Promised!Next
<1>9. ASSUME NEW i \in Open, Locks(i)
      PROVE  Promised!Next
  <2>. DEFINE d == alt_fd_list[i].dev
              f == alt_fd_list[i].fd_flags \cup {"EXCL"}
  <2>1. /\ Flagged(i, f) /\ ret' = 0 /\ ~alt_fd_lock(i) /\ i <= alt_max_fd
        /\ f \in SUBSET Flags /\ "EXCL" \in f
    BY <1>1, <1>2, <1>9 DEF Locks, EntryOK, Entries, Flags, ALT_FD_FLAGS_MASK
  <2>. HIDE DEF f
  <2>2. /\ \A j \in Fds : alt_fd_list'[j].dev = alt_fd_list[j].dev
        /\ \A j \in Fds : j # i => (Locked(j)' <=> Locked(j))
        /\ Locked(i)' /\ Open' = Open /\ Refers' = Refers
    BY <1>1, <2>1, NewFlags
  <2>3. Holders' = Holders \cup {i}
    BY <1>1, <2>2 DEF Holders
  <2>4. d \notin DOMAIN Owner \ Promised!Owned(i)
    <3>1. SUFFICES ASSUME d \in HeldDevices, Owner[d] # i PROVE FALSE
      BY <1>1 DEF OwnerOK, Promised!Owned
    <3>2. PICK a \in Holders : Owner[d] = a /\ alt_fd_list[a].dev = d
      BY <1>1, <3>1 DEF OwnerOK
    <3>3. a \in Open /\ a < i /\ a \in 0..(MAX_FD - 1) /\ i \in 0..(MAX_FD - 1)
      BY <1>1, <3>1, <3>2 DEF LockLowest, Holders, Fds
    <3>4. a \in 0..(alt_max_fd - 1)
      BY <1>1, <2>1, <3>3, FdConstants DEF TypeOK, Fds
    <3>. QED  BY <2>1, <3>2, <3>3, <3>4 DEF alt_fd_lock
  <2>5. HeldDevices' = HeldDevices \cup {d}
    BY <1>1, <2>2, <2>3 DEF HeldDevices, Holders
  <2>6. ASSUME NEW e \in HeldDevices, e # d PROVE Owner'[e] = Owner[e]
    <3>1. PICK j \in Holders : e = alt_fd_list[j].dev /\ j \in Fds
      BY <1>1 DEF HeldDevices, Holders
    <3>2. j \in Holders' /\ e = alt_fd_list'[j].dev
      BY <2>2, <2>3, <3>1
    <3>3. \A k \in Holders' : Owner'[alt_fd_list'[k].dev] = k
      BY <1>1 DEF OwnerOK
    <3>4. \A k \in Holders : Owner[alt_fd_list[k].dev] = k
      BY <1>1 DEF OwnerOK
    <3>5. Owner'[e] = j
      BY <3>2, <3>3
    <3>6. Owner[e] = j
      BY <3>1, <3>4
    <3>. QED  BY <3>5, <3>6
  <2>7. Owner'[d] = i
    BY <1>1, <2>2, <2>3 DEF OwnerOK
  <2>8. Owner' = Promised!With(Owner, d, i)
    BY <1>1, <2>5, <2>6, <2>7 DEF OwnerOK, Promised!With
  <2>9. Promised!Lock(i)
    BY <2>1, <2>2, <2>4, <2>8 DEF Promised!Lock, Refers
  <2>. QED  BY <1>1, <2>9 DEF Promised!Next
<1>10. ASSUME NEW i \in Open, Unlocks(i)
       PROVE  Promised!Next
  <2>. DEFINE f == alt_fd_list[i].fd_flags \ {"EXCL"}
  <2>1. Flagged(i, f) /\ ret' = 0 /\ f \in SUBSET Flags /\ "EXCL" \notin f
    BY <1>1, <1>10 DEF Unlocks, Entries
  <2>. HIDE DEF f
  <2>2. /\ \A j \in Fds : alt_fd_list'[j].dev = alt_fd_list[j].dev
        /\ \A j \in Fds : j # i => (Locked(j)' <=> Locked(j))
        /\ ~Locked(i)' /\ Open' = Open /\ Refers' = Refers
    BY <1>1, <2>1, NewFlags
  <2>3. Holders' = Holders \ {i}
    BY <1>1, <2>2 DEF Holders
  <2>4. Owner' = Promised!Without(Owner, Promised!Owned(i))
    BY <1>1, <2>2, <2>3, OneLess DEF Holders
  <2>5. Promised!Unlock(i)
    BY <2>1, <2>2, <2>4 DEF Promised!Unlock, Refers
  <2>. QED  BY <1>1, <2>5 DEF Promised!Next
<1>. QED  BY <1>1, <1>4, <1>5, <1>6, <1>7, <1>8, <1>9, <1>10 DEF TableStep

\* The calls keep what Handles promises to their callers.
THEOREM KeepsPromises == Spec => Implements
<1>1. Init => Promised!Init
  BY InitPromised
<1>2. IInv /\ IInv' /\ [Next]_vars => [Promised!Next]_(Promised!vars)
  BY NextPromised
<1>. QED  BY <1>1, <1>2, TableInvariant, PTL DEF Spec, Implements, Promised!Spec
=============================================================================
