------------------------- MODULE SingleUseCapability -------------------------
(***************************************************************************)
(* What a single-use capability promises to the clients that present it    *)
(* concurrently: a presentation is honoured only if it began before the    *)
(* capability was burned, and the capability is burned before any          *)
(* presentation is honoured.  Presentations that overlap may all be        *)
(* honoured; one that begins after another was honoured never is.          *)
(*                                                                         *)
(* This is the contract QRVerification implements (VerifyToken).           *)
(***************************************************************************)

CONSTANTS Scanners, Tokens

VARIABLES burned,  \* the capabilities that have been burned
          scan,    \* scan[s]: the presentation scanner s has under way, or Idle
          granted  \* the <<scanner, capability>> pairs honoured so far

svars == <<burned, scan, granted>>

Idle == [busy |-> FALSE]

Pending(t, eligible) == [busy |-> TRUE, token |-> t, eligible |-> eligible]

Init ==
    /\ burned = {}
    /\ scan = [s \in Scanners |-> Idle]
    /\ granted = {}

\* A scanner presents t; it can be honoured only if t is not burned yet.
Begin(s, t) ==
    /\ ~scan[s].busy
    /\ scan' = [scan EXCEPT ![s] = Pending(t, t \notin burned)]
    /\ UNCHANGED <<burned, granted>>

\* An eligible presentation burns its capability.
Burn(s) ==
    /\ scan[s].busy /\ scan[s].eligible
    /\ burned' = burned \cup {scan[s].token}
    /\ UNCHANGED <<scan, granted>>

\* A presentation is honoured: it was eligible, and the capability is burned.
Grant(s) ==
    /\ scan[s].busy /\ scan[s].eligible
    /\ scan[s].token \in burned
    /\ granted' = granted \cup {<<s, scan[s].token>>}
    /\ scan' = [scan EXCEPT ![s] = Idle]
    /\ UNCHANGED burned

\* Any presentation may be refused.
Refuse(s) ==
    /\ scan[s].busy
    /\ scan' = [scan EXCEPT ![s] = Idle]
    /\ UNCHANGED <<burned, granted>>

Next ==
    \E s \in Scanners :
        \/ \E t \in Tokens : Begin(s, t)
        \/ Burn(s)
        \/ Grant(s)
        \/ Refuse(s)

Spec == Init /\ [][Next]_svars
=============================================================================
