------------------------------ MODULE Metering ------------------------------
(***************************************************************************)
(* What traffic accounting promises, whatever is lost, refused or repeated *)
(* between an agent and the panel: of the bytes forwarded under a key some *)
(* are taken for billing, of these some are billed. Bytes may be taken and *)
(* given back; what was forwarded or billed stays so.                      *)
(***************************************************************************)
EXTENDS Naturals

CONSTANT Keys

VARIABLES forwarded, taken, billed

AtMost(f, g) == \A k \in Keys : f[k] <= g[k]

Init ==
  /\ forwarded = [k \in Keys |-> 0]
  /\ taken = forwarded
  /\ billed = forwarded

Forward ==
  /\ AtMost(forwarded, forwarded')
  /\ UNCHANGED <<taken, billed>>

Take ==
  /\ AtMost(taken', forwarded) /\ AtMost(billed, taken')
  /\ UNCHANGED <<forwarded, billed>>

Bill ==
  /\ AtMost(billed, billed') /\ AtMost(billed', taken)
  /\ UNCHANGED <<forwarded, taken>>

Next == Forward \/ Take \/ Bill

Spec == Init /\ [][Next]_<<forwarded, taken, billed>>
=============================================================================
