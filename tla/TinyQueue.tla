------------------------------ MODULE TinyQueue ------------------------------
(***************************************************************************)
(* The binary min-heap of the tinyqueue package, bundled in dist/main.js   *)
(* (lines 667-745), as pure operators on its data array. A JS array is a   *)
(* sequence and a JS index p is position p + 1; this.length is always      *)
(* data.length. Each while loop of _up and _down is a RECURSIVE operator   *)
(* that carries the loop's pos, with the item held aside as in the code.   *)
(***************************************************************************)
EXTENDS Integers, Sequences

CONSTANT Undefined  \* what pop() returns on an empty queue

At(d, p) == d[p + 1]
Put(d, p, v) == [d EXCEPT ![p + 1] = v]

(* defaultCompare, lines 743-745 *)
Compare(a, b) == IF a < b THEN -1 ELSE IF a > b THEN 1 ELSE 0

(* Mutant form: the parent index computed as pos >> 1. *)
ParentHalf(pos) == pos \div 2

(* (pos - 1) >> 1, line 708; pos > 0 so the shift is a floor division. *)
Parent(pos) == (pos - 1) \div 2

(* The loop of _up, lines 707-713: move parents down while item is smaller. *)
RECURSIVE UpFrom(_, _, _)
UpFrom(d, pos, item) ==
    IF pos > 0 /\ Compare(item, At(d, Parent(pos))) < 0
    THEN UpFrom(Put(d, pos, At(d, Parent(pos))), Parent(pos), item)
    ELSE Put(d, pos, item)

(* _up(pos), lines 703-716 *)
Up(d, pos) == UpFrom(d, pos, At(d, pos))

(* The smaller child of pos, lines 724-731: the right one only when it     *)
(* exists and is strictly smaller.                                         *)
BestChild(d, pos) ==
    LET left == 2 * pos + 1
    IN  IF left + 1 < Len(d) /\ Compare(At(d, left + 1), At(d, left)) < 0
        THEN left + 1 ELSE left

(* The loop of _down, lines 723-736: move the smaller child up while it is *)
(* smaller than item, for pos below halfLength = length >> 1.              *)
RECURSIVE DownFrom(_, _, _)
DownFrom(d, pos, item) ==
    LET best == BestChild(d, pos)
    IN  IF pos < Len(d) \div 2 /\ Compare(At(d, best), item) < 0
        THEN DownFrom(Put(d, pos, At(d, best)), best, item)
        ELSE Put(d, pos, item)

(* _down(pos), lines 718-739 *)
Down(d, pos) == DownFrom(d, pos, At(d, pos))

(* Mutant form: heapify starts one node too low. *)
HeapifyFromBelow(d) ==
    LET RECURSIVE Loop(_, _)
        Loop(a, i) == IF i < 0 THEN a ELSE Loop(Down(a, i), i - 1)
    IN  Loop(d, (Len(d) \div 2) - 2)

(* The constructor, lines 668-676: _down from (length >> 1) - 1 to 0. *)
Heapify(d) ==
    LET RECURSIVE Loop(_, _)
        Loop(a, i) == IF i < 0 THEN a ELSE Loop(Down(a, i), i - 1)
    IN  Loop(d, (Len(d) \div 2) - 1)

(* push(item), lines 678-682 *)
Push(d, item) == Up(Append(d, item), Len(d))

(* pop(), lines 684-697: the top, and the array after the bottom element   *)
(* moved to the root and sifted down.                                      *)
Pop(d) ==
    IF Len(d) = 0 THEN [data |-> d, top |-> Undefined]
    ELSE LET rest == SubSeq(d, 1, Len(d) - 1)
         IN  [data |-> IF Len(rest) > 0 THEN Down(Put(rest, 0, d[Len(d)]), 0)
                                         ELSE rest,
              top  |-> d[1]]

(* peek(), lines 699-701 *)
Peek(d) == IF Len(d) = 0 THEN Undefined ELSE d[1]

=============================================================================
