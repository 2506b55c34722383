--------------------------- MODULE OrderedDelivery ---------------------------
(***************************************************************************)
(* What the queue of IRC jobs promises the match: its commands enter the   *)
(* channels in the order of the match, and a channel hears of a command,   *)
(* and is done with it, only when it is done with all the earlier ones it  *)
(* was given.  A command may be sent more than once and may be given up,   *)
(* but counts as acknowledged only if it was sent.                         *)
(***************************************************************************)
CONSTANTS
  Jobs,
  Order,     \* the pairs of jobs of which the first comes earlier
  Channels,
  NoChannel

VARIABLES
  lane,     \* the channel each job was queued for
  sent,     \* the jobs that were sent
  outcome   \* how each job ended

orderedVars == <<lane, sent, outcome>>

Queue(j, c) ==
  /\ lane[j] = NoChannel
  /\ \A i \in Jobs : <<j, i>> \in Order => lane[i] = NoChannel
  /\ lane' = [lane EXCEPT ![j] = c]
  /\ UNCHANGED <<sent, outcome>>

(* The channel is done with all it was given before. *)
ItsTurn(j) ==
  /\ lane[j] # NoChannel
  /\ \A i \in Jobs : <<i, j>> \in Order /\ lane[i] = lane[j] => outcome[i] # "OPEN"

SendCommand(j) ==
  /\ ItsTurn(j)
  /\ sent' = sent \cup {j}
  /\ UNCHANGED <<lane, outcome>>

Settle(j, end) ==
  /\ ItsTurn(j) /\ outcome[j] = "OPEN"
  /\ end = "ACKNOWLEDGED" => j \in sent
  /\ outcome' = [outcome EXCEPT ![j] = end]
  /\ UNCHANGED <<lane, sent>>

OrderedInit ==
  /\ lane \in [Jobs -> Channels \cup {NoChannel}]
  /\ sent = {}
  /\ outcome = [j \in Jobs |-> "OPEN"]

OrderedNext ==
  \E j \in Jobs :
    \/ \E c \in Channels : Queue(j, c)
    \/ SendCommand(j)
    \/ \E end \in {"ACKNOWLEDGED", "CANCELLED"} : Settle(j, end)

OrderedSpec == OrderedInit /\ [][OrderedNext]_orderedVars
=============================================================================
