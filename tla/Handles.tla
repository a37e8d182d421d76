------------------------------ MODULE Handles ------------------------------
(***************************************************************************)
(* What the file calls of the HAL promise their callers: handles, each of  *)
(* which refers to one device or file system from the moment it is given   *)
(* out until it is closed, and exclusive access: while a handle owns its   *)
(* device, nobody else gets a handle of it.  A call that fails changes     *)
(* nothing, but for close, which gives the handle up whatever it answers.  *)
(***************************************************************************)
EXTENDS Integers

CONSTANTS
  Devices,    \* what handles refer to
  Standard,   \* the handles of the standard streams, always given out
  Handle,     \* all handles
  nowhere     \* the device of the standard streams before they are redirected

VARIABLES
  refers,     \* the device of every handle that is given out
  owner,      \* the handle that owns a device
  answer      \* of the last call, negative if it failed

vars == <<refers, owner, answer>>

Without(f, S) == [x \in DOMAIN f \ S |-> f[x]]
With(f, x, y) == [z \in DOMAIN f \cup {x} |-> IF z = x THEN y ELSE f[z]]
Owned(h) == {d \in DOMAIN owner : owner[d] = h}

Init == /\ refers = [h \in Standard |-> nowhere]
        /\ owner = [d \in {} |-> nowhere] /\ answer = 0

Open(h, d) == /\ h \notin DOMAIN refers /\ d \notin DOMAIN owner
              /\ refers' = With(refers, h, d) /\ answer' = h
              /\ UNCHANGED owner

\* At start-up a standard stream is turned to another device.
Redirect(h, d) == /\ h \in Standard /\ Owned(h) = {} /\ d \notin DOMAIN owner
                  /\ refers' = With(refers, h, d)
                  /\ UNCHANGED <<owner, answer>>

Close(h) == /\ h \in DOMAIN refers \ Standard
            /\ refers' = Without(refers, {h}) /\ owner' = Without(owner, Owned(h))
            /\ answer' \in Int

Lock(h) == /\ h \in DOMAIN refers /\ refers[h] \notin DOMAIN owner \ Owned(h)
           /\ owner' = With(owner, refers[h], h) /\ answer' = 0
           /\ UNCHANGED refers

Unlock(h) == /\ h \in DOMAIN refers
             /\ owner' = Without(owner, Owned(h)) /\ answer' = 0
             /\ UNCHANGED refers

\* Any other call, and any call that fails.
Answer == answer' \in Int /\ UNCHANGED <<refers, owner>>

Next == \/ Answer
        \/ \E h \in Handle : \/ Close(h) \/ Lock(h) \/ Unlock(h)
                              \/ \E d \in Devices : Open(h, d) \/ Redirect(h, d)

Spec == Init /\ [][Next]_vars
=============================================================================
