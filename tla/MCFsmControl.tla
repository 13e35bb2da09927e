---------------------------- MODULE MCFsmControl ----------------------------
(* FsmControl on a few functions that between them have every kind of      *)
(* terminator, loops of one block and of several, an empty first block,    *)
(* blocks of one state, and instructions that outlast the schedule.        *)
EXTENDS FsmControl

LOCAL To(v, b) == [value |-> v, dest |-> b]
LOCAL Ret == [kind |-> "ret", cases |-> << >>, default |-> 1]
LOCAL Br(b) == [kind |-> "br", cases |-> << >>, default |-> b]
LOCAL CondBr(b, c) == [kind |-> "condbr", cases |-> <<To(1, b)>>, default |-> c]
LOCAL Switch(cs, b) == [kind |-> "switch", cases |-> cs, default |-> b]
LOCAL BB(n, is, t) == [states |-> n, insts |-> is, term |-> t]
LOCAL Inst(o, l) == [order |-> o, latency |-> l]

\* a loop of one block with a load in its last scheduled state; no stores
Loop == [mem |-> TRUE,
         blocks |-> <<BB(0, {Inst(0, 0)}, Br(2)),
                      BB(1, {Inst(0, 1), Inst(1, 2)}, CondBr(2, 3)),
                      BB(0, {}, Ret)>>]

\* registers only; the first block is empty and the loop has two blocks
Registers == [mem |-> FALSE,
              blocks |-> <<BB(0, {}, Br(2)),
                           BB(0, {Inst(0, 0)}, CondBr(3, 4)),
                           BB(1, {Inst(0, 1)}, CondBr(2, 3)),
                           BB(0, {}, Ret)>>]

\* a switch with two cases, one of them its own block; an endless loop
Choice == [mem |-> FALSE,
           blocks |-> <<BB(0, {Inst(0, 0)}, Switch(<<To(0, 3), To(2, 2)>>, 4)),
                        BB(0, {Inst(0, 0)}, Switch(<<To(1, 2), To(2, 3)>>, 4)),
                        BB(0, {}, Br(3)),
                        BB(1, {Inst(0, 0)}, CondBr(2, 2))>>]

MCFunctions == {Loop, Registers, Choice}

=============================================================================
