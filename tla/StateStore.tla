------------------------------ MODULE StateStore ------------------------------
(***************************************************************************)
(* What persistence promises to the controller, without the lock, the      *)
(* temporary file and the names and order of the backups.                  *)
(*                                                                         *)
(* There is a front copy, which a restart looks at first, and there are    *)
(* further ones.  A save puts in front a state that the controller was in  *)
(* during that save.  Copies are set aside and thinned out, but never the  *)
(* one that was set aside last.  A restart continues with the front copy,  *)
(* or with a sound older one if that is damaged; if none is in front it    *)
(* may start empty.  It never continues with what was not saved.           *)
(*                                                                         *)
(* Code: the doc comments of Save, Load, tryLoadBackups and rotateBackups  *)
(* in internal/state/persistence.go.                                       *)
(***************************************************************************)
EXTENDS Integers

CONSTANTS Clients,    \* who saves
          ReadsBack   \* a restart looks where saves go

Empty == 0
None  == -1
Bad   == -2

VARIABLES state,   \* version of the state in memory
          newest,  \* the last version made
          taken,   \* client -> version it is saving, or None
          front,   \* version in front, or None, or Bad
          aside,   \* version set aside last, or None, or Bad
          copies   \* versions of all copies, the front one included

vars == <<state, newest, taken, front, aside, copies>>

Init ==
  /\ state = Empty /\ newest = Empty
  /\ taken = [c \in Clients |-> None] 
  /\ front = None /\ aside = None /\ copies = {}

Change ==
  /\ newest' = newest + 1 /\ state' = newest'
  /\ UNCHANGED <<taken, front, aside, copies>>

\* A save takes the state of the moment ...
Take(c) ==
  /\ taken[c] = None
  /\ taken' = [taken EXCEPT ![c] = state]
  /\ UNCHANGED <<state, newest, front, aside, copies>>

\* The copy set aside last is never the one that is lost.
AsideIsKept == aside' # None => aside' \in copies'

\* ... sets the front copy aside, perhaps over an older one, ...
SetAside ==
  /\ \E c \in Clients : taken[c] # None
  /\ front # None /\ front' = None /\ aside' = front
  /\ copies' \subseteq copies /\ AsideIsKept
  /\ UNCHANGED <<state, newest, taken>>

\* ... drops older ones ...
Thin ==
  /\ \E c \in Clients : taken[c] # None
  /\ front = None
  /\ copies' \subseteq copies /\ AsideIsKept
  /\ UNCHANGED <<state, newest, taken, front, aside>>

\* ... and puts what it took in front, over the front copy if that is still there.
Commit(c) ==
  /\ taken[c] # None
  /\ front' = taken[c]
  /\ copies' \in {copies \cup {taken[c]}, (copies \ {front}) \cup {taken[c]}} /\ AsideIsKept
  /\ taken' = [taken EXCEPT ![c] = None]
  /\ UNCHANGED <<state, newest, aside>>

\* It may fail instead.
Abandon(c) ==
  /\ taken[c] # None
  /\ taken' = [taken EXCEPT ![c] = None]
  /\ UNCHANGED <<state, newest, front, aside, copies>>

\* The front copy is damaged from outside.
Damage ==
  /\ front \notin {None, Bad} /\ front' = Bad
  /\ copies' \in {copies \cup {Bad}, (copies \ {front}) \cup {Bad}} /\ AsideIsKept
  /\ UNCHANGED <<state, newest, taken, aside>>

\* What a restart may continue with.
Recovered ==
  IF ~ReadsBack THEN {Empty}
  ELSE IF front = None THEN {Empty} \cup (copies \ {Bad})
  ELSE IF front # Bad THEN {front}
  ELSE IF copies \subseteq {Bad} THEN {Empty}
  ELSE copies \ {Bad}

Restart ==
  /\ state' \in Recovered
  /\ taken' = [c \in Clients |-> None]
  /\ UNCHANGED <<newest, front, aside, copies>>

Next ==
  \/ Change \/ SetAside \/ Thin \/ Damage \/ Restart
  \/ \E c \in Clients : Take(c) \/ Commit(c) \/ Abandon(c)

Spec == Init /\ [][Next]_vars
=============================================================================
