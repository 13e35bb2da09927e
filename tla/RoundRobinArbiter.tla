------------------------- MODULE RoundRobinArbiter --------------------------
(***************************************************************************)
(* The Verilog module round_robin_arbiter that printArbiterModule of       *)
(* VerilogWriter.cpp prints: N requesters share the ports of the memory    *)
(* controller.  The grant is combinational; the registers remember the     *)
(* last grant and, as a mask, the requesters after it, which have          *)
(* precedence.  Bit vectors are sets of ports.  waitrequest is tied to     *)
(* zero, as generatePthreadArbiter does in a pure hardware design.         *)
(*                                                                         *)
(* A definition whose name continues that of the one after it is a         *)
(* plausible slip in the same code; the runs name it as a mutant and no    *)
(* action uses it.                                                         *)
(***************************************************************************)
EXTENDS Integers

CONSTANT N           \* how many requesters: the instances and the main thread

\* "note: N must be at least 2"
ASSUME PortsAssumption == N \in Nat /\ N >= 2

Port == 0 .. N-1

VARIABLES
  rotate_ptr,  \* the requesters that have precedence
  grant        \* the requester granted in the clock before, unless it also
               \* was in the clock before that

arbiterVars == <<rotate_ptr, grant>>

ArbiterInit ==
  /\ rotate_ptr = Port
  /\ grant = {}

Lowest(ports) == {p \in ports : \A q \in ports : p <= q}

mask_grant(req) == Lowest(req \cap rotate_ptr)

nomask_grant(req) == Lowest(req)

no_mask_req(req) == req \cap rotate_ptr = {}

\* no_mask_req is missing: the lowest requester is granted as well
grant_combWithoutMask(req) == mask_grant(req) \cup nomask_grant(req)

grant_comb(req) ==
  mask_grant(req) \cup {p \in nomask_grant(req) : no_mask_req(req)}

\* no requester ever loses its precedence, so that the lowest always wins
AfterGrantNever == Port

\* the ports after the one that was granted; after the last one, all
AfterGrant ==
  {p \in Port : N-1 \in grant \/ \E q \in grant : q < p}

\* One edge of the clock, with the requests req.
ArbiterClock(req) ==
  /\ rotate_ptr' = IF grant = {} THEN rotate_ptr ELSE AfterGrant
  /\ grant' = grant_comb(req) \ grant

=============================================================================
