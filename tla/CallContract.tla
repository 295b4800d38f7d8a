---------------------------- MODULE CallContract ----------------------------
(***************************************************************************)
(* What one call of Client.Do promises its caller and the service, without *)
(* breaker, hooks, waits, bodies or counters: a round of at most Tries     *)
(* sends, one more round when the first ended with a refusal of the        *)
(* credentials, and one answer.  ClientDo implements it.                   *)
(***************************************************************************)
EXTENDS Integers

CONSTANTS Caller,
          Status,    \* what the service may answer
          Nothing,   \* no response
          Denied,    \* the status that asks for fresh credentials
          Tries      \* sends of a round, at least 1

VARIABLES phase,     \* "idle", "working" or "answered", for each caller
          left,      \* sends the round may still make
          renewed,   \* callers whose call is in its second round
          held       \* the response the call holds

callContractVars == <<phase, left, renewed, held>>

Init ==
    /\ phase = [c \in Caller |-> "idle"]
    /\ left = [c \in Caller |-> Tries]
    /\ renewed = {}
    /\ held = [c \in Caller |-> Nothing]

\* A call may be refused at once.
Call(c) ==
    /\ phase[c] = "idle"
    /\ \E p \in {"working", "answered"} : phase' = [phase EXCEPT ![c] = p]
    /\ UNCHANGED <<left, renewed, held>>

\* A request goes out only when nothing of the one before is held.
Send(c) ==
    /\ phase[c] = "working" /\ held[c] = Nothing /\ left[c] > 0
    /\ left' = [left EXCEPT ![c] = @ - 1]
    /\ \E r \in Status \cup {Nothing} : held' = [held EXCEPT ![c] = r]
    /\ UNCHANGED <<phase, renewed>>

\* A response that will not be handed over.
Drop(c) ==
    /\ phase[c] = "working"
    /\ held' = [held EXCEPT ![c] = Nothing]
    /\ UNCHANGED <<phase, left, renewed>>

\* The single retry with fresh credentials.
Renew(c) ==
    /\ phase[c] = "working" /\ held[c] = Denied /\ c \notin renewed
    /\ renewed' = renewed \cup {c}
    /\ left' = [left EXCEPT ![c] = Tries]
    /\ held' = [held EXCEPT ![c] = Nothing]
    /\ UNCHANGED phase

\* The caller gets the response held, or only an error.
Answer(c) ==
    /\ phase[c] = "working"
    /\ phase' = [phase EXCEPT ![c] = "answered"]
    /\ \E r \in {held[c], Nothing} : held' = [held EXCEPT ![c] = r]
    /\ UNCHANGED <<left, renewed>>

Finish(c) ==
    /\ phase[c] = "answered"
    /\ phase' = [phase EXCEPT ![c] = "idle"]
    /\ left' = [left EXCEPT ![c] = Tries]
    /\ renewed' = renewed \ {c}
    /\ held' = [held EXCEPT ![c] = Nothing]

Next ==
    \E c \in Caller : \/ Call(c) \/ Send(c) \/ Drop(c)
                      \/ Renew(c) \/ Answer(c) \/ Finish(c)

Spec == Init /\ [][Next]_callContractVars
=============================================================================
