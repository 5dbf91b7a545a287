---------------------------- MODULE StateRegister ----------------------------
(***************************************************************************)
(* What the state file promises its users: an atomic register.  A save     *)
(* that is answered "ok" took effect at one moment, one that is answered   *)
(* "error" took none, and a load returns what the register held at a       *)
(* moment while it was under way.                                          *)
(***************************************************************************)
CONSTANTS Proc, Value,
          NoState   \* what is loaded before the first save

VARIABLES
  reg,     \* the value of the register
  call,    \* "save" or "load" while under way, then "done" or "failed", else "none"
  value,   \* the value being saved, or the value loaded
  answer   \* the answer to the last call of each process

Init ==
  /\ reg = NoState
  /\ call = [p \in Proc |-> "none"]
  /\ value = [p \in Proc |-> NoState]
  /\ answer = [p \in Proc |-> "none"]

Invoke(p, op, v) ==
  /\ call[p] = "none"
  /\ call' = [call EXCEPT ![p] = op]
  /\ value' = [value EXCEPT ![p] = v]
  /\ answer' = [answer EXCEPT ![p] = "none"]
  /\ UNCHANGED reg

\* The one moment at which a save takes effect.
TakeEffect(p) ==
  /\ call[p] = "save"
  /\ call' = [call EXCEPT ![p] = "done"]
  /\ reg' = value[p]
  /\ UNCHANGED <<value, answer>>

\* The one moment at which a load looks.
Observe(p) ==
  /\ call[p] = "load"
  /\ call' = [call EXCEPT ![p] = "done"]
  /\ value' = [value EXCEPT ![p] = reg]
  /\ UNCHANGED <<reg, answer>>

GiveUp(p) ==
  /\ call[p] \in {"save", "load"}
  /\ call' = [call EXCEPT ![p] = "failed"]
  /\ UNCHANGED <<reg, value, answer>>

Answer(p) ==
  /\ call[p] # "none"
  /\ call' = [call EXCEPT ![p] = "none"]
  /\ answer' = [answer EXCEPT ![p] =
                  IF call[p] = "done" THEN "ok" ELSE "error"]
  /\ UNCHANGED <<reg, value>>

\* A process that dies gets no answer.
Die(p) ==
  /\ call[p] # "none"
  /\ call' = [call EXCEPT ![p] = "none"]
  /\ UNCHANGED <<reg, value, answer>>

Next == \E p \in Proc :
  \/ \E v \in Value : Invoke(p, "save", v)
  \/ Invoke(p, "load", NoState)
  \/ TakeEffect(p) \/ Observe(p) \/ GiveUp(p) \/ Answer(p) \/ Die(p)

Spec == Init /\ [][Next]_<<reg, call, value, answer>>
=============================================================================
