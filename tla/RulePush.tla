------------------------------- MODULE RulePush -------------------------------
(***************************************************************************)
(* What the sync worker promises to the rest of the controller, without    *)
(* its channel, debounce timer, held flushers and error slot.              *)
(*                                                                         *)
(* The ingress rules get newer; now and then the rules of some moment      *)
(* become the live ones, and never older ones than before.  A caller of    *)
(* FlushSync is told "ok" only when the rules of its call, or newer ones,  *)
(* are live; a stopped worker may tell it anything.                        *)
(*                                                                         *)
(* Code: the doc comments of TriggerSync and FlushSync and the use that    *)
(* compensation.go and CleanupResources make of the result.                *)
(***************************************************************************)
EXTENDS Naturals

CONSTANT Callers  \* who calls FlushSync

VARIABLES version,  \* of the ingress rules
          live,     \* version on Cloudflare
          call,     \* caller -> "idle", "busy", "ok" or "failed"
          asked,    \* caller -> version when it called
          stopped   \* the worker has ended

vars == <<version, live, call, asked, stopped>>

Init ==
  /\ version = 1 /\ live = 0
  /\ call = [c \in Callers |-> "idle"] /\ asked = [c \in Callers |-> 0]
  /\ stopped = FALSE

\* A handler changes the rules.
Change ==
  /\ version' = version + 1
  /\ UNCHANGED <<live, call, asked, stopped>>

\* Newer rules go live.
Publish ==
  /\ ~stopped
  /\ live' \in (live + 1)..version
  /\ UNCHANGED <<version, call, asked, stopped>>

\* FlushSync is called, by the clean-up together with a last change.
Call(c) ==
  /\ call[c] = "idle"
  /\ version' \in {version, version + 1}
  /\ call' = [call EXCEPT ![c] = "busy"]
  /\ asked' = [asked EXCEPT ![c] = version']
  /\ UNCHANGED <<live, stopped>>

\* It returns.
Return(c) ==
  /\ call[c] = "busy"
  /\ \/ call' = [call EXCEPT ![c] = "failed"]
     \/ /\ live >= asked[c] \/ stopped
        /\ call' = [call EXCEPT ![c] = "ok"]
  /\ UNCHANGED <<version, live, asked, stopped>>

\* The caller has acted on the result.
Done(c) ==
  /\ call[c] \in {"ok", "failed"}
  /\ call' = [call EXCEPT ![c] = "idle"]
  /\ UNCHANGED <<version, live, asked, stopped>>

\* The root context is cancelled and the worker ends.
Stop ==
  /\ stopped' = TRUE
  /\ UNCHANGED <<version, live, call, asked>>

Next == Change \/ Publish \/ Stop \/ \E c \in Callers : Call(c) \/ Return(c) \/ Done(c)

Spec == Init /\ [][Next]_vars
=============================================================================
