-------------------------- MODULE PtfRunnerProofs --------------------------
(***************************************************************************)
(* What PtfRunner promises for every set of tests whose programs are       *)
(* nested as Python's blocks are: the types, that no finally block is left *)
(* out or run twice, whatever raises, and that no sequence of calls leaves *)
(* an object that names one that is gone.                                  *)
(***************************************************************************)
EXTENDS PtfRunner, TLAPS

-----------------------------------------------------------------------------
(***************************************************************************)
(* The stack of finally blocks.  TypeOK says nothing of what blocks holds; *)
(* the invariant is that it holds the ends of the try blocks that are open *)
(* at pc, innermost first.                                                 *)
(***************************************************************************)
OpenEnds(p, i) == {EndOf(p, k) : k \in Open(p, i)}

Ascending(s) == \A i, j \in DOMAIN s : i < j => s[i] < s[j]

Elements(s) == {s[i] : i \in DOMAIN s}

StackOK == /\ test \in Tests
           /\ pc \in 1 .. Len(prog) + 1
           /\ blocks \in Seq(1 .. Len(prog))
           /\ Ascending(blocks)
           /\ Elements(blocks) = OpenEnds(prog, pc)

IInv == StackOK /\ raised \in BOOLEAN /\ failed \in BOOLEAN /\ escaped \in BOOLEAN

(* The program under way is well nested. *)
LEMMA ProgramNested ==
  ASSUME test \in Tests
  PROVE  /\ DOMAIN prog = 1 .. Len(prog) /\ Len(prog) \in Nat
         /\ WellNested(prog)
BY ScriptAssumption DEF prog

(* An end lies behind its try, within the program. *)
LEMMA EndsInside ==
  ASSUME NEW p, NEW i \in Nat, Len(p) \in Nat, DOMAIN p = 1 .. Len(p), WellNested(p),
         NEW k \in Open(p, i)
  PROVE  /\ k \in 1 .. Len(p) /\ EndOf(p, k) \in 1 .. Len(p)
         /\ p[k].op = "try" /\ k < i /\ i <= EndOf(p, k) /\ k < EndOf(p, k)
         /\ p[EndOf(p, k)].op = "finally"
<1>1. k \in Tries(p) /\ k < i /\ i <= EndOf(p, k)
  BY DEF Open
<1>2. k \in 1 .. Len(p) /\ p[k].op = "try"
  BY <1>1 DEF Tries
<1>3. p[k].len \in Nat /\ EndOf(p, k) \in DOMAIN p /\ p[EndOf(p, k)].op = "finally"
  BY <1>1 DEF WellNested
<1>4. k < EndOf(p, k)
  BY <1>2, <1>3 DEF EndOf
<1> QED
  BY <1>1, <1>2, <1>3, <1>4

(* A step that is no try and no finally leaves the same blocks open. *)
LEMMA SameOpen ==
  ASSUME NEW p, Len(p) \in Nat, DOMAIN p = 1 .. Len(p), WellNested(p),
         NEW i \in 1 .. Len(p), p[i].op \notin {"try", "finally"}
  PROVE  Open(p, i + 1) = Open(p, i)
<1>1. ASSUME NEW k \in Open(p, i)
      PROVE  k \in Open(p, i + 1)
  <2>1. k \in 1 .. Len(p) /\ EndOf(p, k) \in 1 .. Len(p) /\ k < i /\ i <= EndOf(p, k)
        /\ p[EndOf(p, k)].op = "finally"
    BY <1>1, EndsInside
  <2>2. EndOf(p, k) # i
    BY <2>1
  <2> QED
    BY <1>1, <2>1, <2>2 DEF Open
<1>2. ASSUME NEW k \in Open(p, i + 1)
      PROVE  k \in Open(p, i)
  <2>1. k \in 1 .. Len(p) /\ EndOf(p, k) \in 1 .. Len(p) /\ k < i + 1 /\ i + 1 <= EndOf(p, k)
        /\ p[k].op = "try"
    BY <1>2, EndsInside
  <2>2. k # i
    BY <2>1
  <2> QED
    BY <1>2, <2>1, <2>2 DEF Open
<1> QED
  BY <1>1, <1>2

(* An if that jumps over a branch ends in the blocks it starts in. *)
LEMMA JumpOpen ==
  ASSUME NEW p, Len(p) \in Nat, DOMAIN p = 1 .. Len(p), WellNested(p),
         NEW i \in 1 .. Len(p), p[i].op \in Jumps
  PROVE  /\ i + p[i].len + 1 \in 1 .. Len(p) + 1 /\ i + p[i].len + 1 > i
         /\ Open(p, i + p[i].len + 1) = Open(p, i)
<1>1. p[i].len \in Nat /\ EndOf(p, i) <= Len(p) + 1 /\ Open(p, EndOf(p, i)) = Open(p, i)
  BY DEF WellNested
<1> QED
  BY <1>1 DEF EndOf

(* After the last step no block is open. *)
LEMMA NoneOpenAtEnd ==
  ASSUME NEW p, Len(p) \in Nat, DOMAIN p = 1 .. Len(p), WellNested(p)
  PROVE  Open(p, Len(p) + 1) = {}
<1>1. ASSUME NEW k \in Open(p, Len(p) + 1)
      PROVE  FALSE
  BY <1>1, EndsInside
<1> QED
  BY <1>1

(* The finally an exception goes to is open in the blocks around it. *)
LEMMA OpenAtHandler ==
  ASSUME NEW p, Len(p) \in Nat, DOMAIN p = 1 .. Len(p), WellNested(p),
         NEW i \in 1 .. Len(p), NEW k \in Open(p, i),
         \A l \in Open(p, i) : EndOf(p, k) <= EndOf(p, l)
  PROVE  Open(p, EndOf(p, k)) = Open(p, i)
<1>1. k \in 1 .. Len(p) /\ EndOf(p, k) \in 1 .. Len(p) /\ k < i /\ i <= EndOf(p, k)
  BY EndsInside
<1>2. ASSUME NEW l \in Open(p, i)
      PROVE  l \in Open(p, EndOf(p, k))
  <2>1. l \in 1 .. Len(p) /\ l < i /\ EndOf(p, l) \in 1 .. Len(p)
    BY <1>2, EndsInside
  <2> QED
    BY <1>1, <1>2, <2>1 DEF Open
<1>3. ASSUME NEW l \in Open(p, EndOf(p, k))
      PROVE  l \in Open(p, i)
  <2>1. l \in 1 .. Len(p) /\ l < EndOf(p, k) /\ EndOf(p, k) <= EndOf(p, l)
        /\ EndOf(p, l) \in 1 .. Len(p)
    BY <1>1, <1>3, EndsInside
  <2>2. l \in Tries(p) /\ k \in Tries(p)
    BY <1>3 DEF Open
  <2>3. ~ (k < l)
    BY <1>1, <2>1, <2>2 DEF WellNested
  <2>4. l < i /\ i <= EndOf(p, l)
    BY <1>1, <2>1, <2>3
  <2> QED
    BY <2>2, <2>4 DEF Open
<1> QED
  BY <1>2, <1>3

(* The top of the stack is the nearest end there is. *)
LEMMA TopIsNearest ==
  ASSUME IInv, blocks # << >>
  PROVE  \E k \in Open(prog, pc) :
           /\ Head(blocks) = EndOf(prog, k)
           /\ \A l \in Open(prog, pc) : EndOf(prog, k) <= EndOf(prog, l)
<1>1. 1 \in DOMAIN blocks /\ Head(blocks) = blocks[1] /\ DOMAIN blocks = 1 .. Len(blocks)
      /\ Len(blocks) \in Nat
  BY DEF IInv, StackOK
<1>2. blocks[1] \in OpenEnds(prog, pc)
  BY <1>1 DEF IInv, StackOK, Elements
<1>3. PICK k \in Open(prog, pc) : blocks[1] = EndOf(prog, k)
  BY <1>2 DEF OpenEnds
<1>4. ASSUME NEW l \in Open(prog, pc)
      PROVE  EndOf(prog, k) <= EndOf(prog, l)
  <2>1. EndOf(prog, l) \in Elements(blocks)
    BY <1>4 DEF IInv, StackOK, OpenEnds
  <2>2. PICK j \in DOMAIN blocks : blocks[j] = EndOf(prog, l)
    BY <2>1 DEF Elements
  <2>3. blocks[1] \in Int /\ blocks[j] \in Int
    BY <1>1, <2>2 DEF IInv, StackOK
  <2>4. CASE j = 1
    BY <1>3, <2>2, <2>3, <2>4
  <2>5. CASE j # 1
    <3>1. 1 < j
      BY <1>1, <2>2, <2>5
    <3>2. blocks[1] < blocks[j]
      BY <1>1, <2>2, <3>1 DEF IInv, StackOK, Ascending
    <3> QED
      BY <1>3, <2>2, <2>3, <3>2
  <2> QED
    BY <2>4, <2>5
<1> QED
  BY <1>1, <1>3, <1>4

-----------------------------------------------------------------------------
(***************************************************************************)
(* How the steps move over the stack: past one step, to the handler, over  *)
(* a branch, into a try and into its finally.                              *)
(***************************************************************************)
LEMMA Steps ==
  ASSUME IInv, ~ Over
  PROVE  /\ pc \in 1 .. Len(prog) /\ Len(prog) \in Nat /\ DOMAIN prog = 1 .. Len(prog)
         /\ WellNested(prog) /\ test \in Tests
<1>1. test \in Tests /\ pc \in 1 .. Len(prog) + 1
  BY DEF IInv, StackOK
<1>2. Len(prog) \in Nat
  BY <1>1, ProgramNested
<1> QED
  BY <1>1, <1>2, ProgramNested DEF Over

LEMMA Advances ==
  ASSUME IInv, ~ Over, step.op \notin {"try", "finally"},
         pc' = pc + 1, UNCHANGED <<test, blocks>>
  PROVE  StackOK' /\ pc' > pc
<1>1. Open(prog, pc + 1) = Open(prog, pc)
  BY Steps, SameOpen DEF step
<1>2. prog' = prog
  BY DEF prog
<1>3. OpenEnds(prog', pc') = OpenEnds(prog, pc)
  BY <1>1, <1>2 DEF OpenEnds
<1> QED
  BY <1>2, <1>3, Steps DEF IInv, StackOK, Ascending, Elements

LEMMA Unwinds ==
  ASSUME IInv, ~ Over, step.op # "finally",
         pc' = Handler, UNCHANGED <<test, blocks>>
  PROVE  StackOK' /\ pc' > pc
<1>1. prog' = prog
  BY DEF prog
<1>2. CASE blocks = << >>
  <2>1. pc' = Len(prog) + 1
    BY <1>2 DEF Handler
  <2>2. OpenEnds(prog, pc') = {}
    BY <2>1, Steps, NoneOpenAtEnd DEF OpenEnds
  <2>3. Elements(blocks) = {}
    BY <1>2 DEF Elements
  <2> QED
    BY <1>1, <2>1, <2>2, <2>3, Steps DEF IInv, StackOK, Ascending, Elements
<1>3. CASE blocks # << >>
  <2>1. PICK k \in Open(prog, pc) :
           /\ Head(blocks) = EndOf(prog, k)
           /\ \A l \in Open(prog, pc) : EndOf(prog, k) <= EndOf(prog, l)
    BY <1>3, TopIsNearest
  <2>2. pc' = EndOf(prog, k)
    BY <1>3, <2>1 DEF Handler
  <2>3. Open(prog, pc') = Open(prog, pc)
    BY <2>1, <2>2, Steps, OpenAtHandler
  <2>4. EndOf(prog, k) \in 1 .. Len(prog) /\ pc <= EndOf(prog, k)
        /\ prog[EndOf(prog, k)].op = "finally"
    BY <2>1, Steps, EndsInside
  <2>5. EndOf(prog, k) # pc
    BY <2>4 DEF step
  <2>6. OpenEnds(prog', pc') = OpenEnds(prog, pc)
    BY <1>1, <2>3 DEF OpenEnds
  <2> QED
    BY <1>1, <2>2, <2>4, <2>5, <2>6, Steps DEF IInv, StackOK, Ascending, Elements
<1> QED
  BY <1>2, <1>3

LEMMA JumpsOver ==
  ASSUME IInv, ~ Over, step.op \in Jumps,
         pc' = pc + step.len + 1, UNCHANGED <<test, blocks>>
  PROVE  StackOK' /\ pc' > pc
<1>1. /\ pc' \in 1 .. Len(prog) + 1 /\ pc' > pc
      /\ Open(prog, pc') = Open(prog, pc)
  BY Steps, JumpOpen DEF step
<1>2. prog' = prog
  BY DEF prog
<1>3. OpenEnds(prog', pc') = OpenEnds(prog, pc)
  BY <1>1, <1>2 DEF OpenEnds
<1> QED
  BY <1>1, <1>2, <1>3, Steps DEF IInv, StackOK, Ascending, Elements

LEMMA Enters ==
  ASSUME IInv, Enter
  PROVE  StackOK' /\ pc' > pc
<1> DEFINE e == EndOf(prog, pc)
<1>1. ~ Over /\ prog[pc].op = "try" /\ pc' = pc + 1 /\ test' = test /\ prog' = prog
  BY DEF Enter, At, step, prog
<1>2. /\ pc \in 1 .. Len(prog) /\ Len(prog) \in Nat /\ DOMAIN prog = 1 .. Len(prog)
      /\ WellNested(prog) /\ test \in Tests
  BY <1>1, Steps
<1>3. pc \in Tries(prog)
  BY <1>1, <1>2 DEF Tries
<1>4. prog[pc].len \in Nat /\ e \in 1 .. Len(prog) /\ pc < e
  BY <1>2, <1>3 DEF WellNested, EndOf
<1>5. blocks' = <<e>> \o blocks
  BY DEF Enter, step, EndOf
<1>6. Open(prog, pc + 1) = Open(prog, pc) \cup {pc}
  <2>1. ASSUME NEW k \in Open(prog, pc)
        PROVE  k \in Open(prog, pc + 1)
    <3>1. k \in 1 .. Len(prog) /\ EndOf(prog, k) \in 1 .. Len(prog) /\ k < pc
          /\ pc <= EndOf(prog, k) /\ prog[EndOf(prog, k)].op = "finally"
      BY <1>2, EndsInside
    <3>2. EndOf(prog, k) # pc
      BY <1>1, <3>1
    <3> QED
      BY <1>2, <3>1, <3>2 DEF Open
  <2>2. ASSUME NEW k \in Open(prog, pc + 1), k # pc
        PROVE  k \in Open(prog, pc)
    <3>1. k \in 1 .. Len(prog) /\ EndOf(prog, k) \in 1 .. Len(prog) /\ k < pc + 1
          /\ pc + 1 <= EndOf(prog, k)
      BY <1>2, <2>2, EndsInside
    <3> QED
      BY <1>2, <2>2, <3>1 DEF Open
  <2>3. pc \in Open(prog, pc + 1)
    BY <1>2, <1>3, <1>4 DEF Open
  <2> QED
    BY <2>1, <2>2, <2>3
<1>7. blocks \in Seq(1 .. Len(prog)) /\ Ascending(blocks) /\ Elements(blocks) = OpenEnds(prog, pc)
  BY DEF IInv, StackOK
<1>8. /\ blocks' \in Seq(1 .. Len(prog)) /\ DOMAIN blocks' = 1 .. Len(blocks) + 1
      /\ DOMAIN blocks = 1 .. Len(blocks) /\ Len(blocks) \in Nat
      /\ blocks'[1] = e
      /\ \A i \in 1 .. Len(blocks) : blocks'[i + 1] = blocks[i]
  BY <1>4, <1>5, <1>7
<1>9. \A i \in DOMAIN blocks : e < blocks[i]
  <2> TAKE i \in DOMAIN blocks
  <2>1. blocks[i] \in OpenEnds(prog, pc)
    BY <1>7 DEF Elements
  <2>2. PICK k \in Open(prog, pc) : blocks[i] = EndOf(prog, k)
    BY <2>1 DEF OpenEnds
  <2>3. k < pc /\ pc <= EndOf(prog, k) /\ k \in Tries(prog)
    BY <1>2, <2>2, EndsInside DEF Open
  <2> QED
    BY <1>2, <1>3, <2>2, <2>3 DEF WellNested
<1>10. Ascending(blocks')
  <2> SUFFICES ASSUME NEW i \in DOMAIN blocks', NEW j \in DOMAIN blocks', i < j
               PROVE  blocks'[i] < blocks'[j]
    BY DEF Ascending
  <2>1. j - 1 \in DOMAIN blocks /\ blocks'[j] = blocks[j - 1]
    BY <1>8
  <2>2. CASE i = 1
    BY <1>8, <1>9, <2>1, <2>2
  <2>3. CASE i # 1
    <3>1. i - 1 \in DOMAIN blocks /\ blocks'[i] = blocks[i - 1] /\ i - 1 < j - 1
      BY <1>8, <2>3
    <3> QED
      BY <1>7, <2>1, <3>1 DEF Ascending
  <2> QED
    BY <2>2, <2>3
<1>11. Elements(blocks') = Elements(blocks) \cup {e}
  <2>1. ASSUME NEW i \in DOMAIN blocks'
        PROVE  blocks'[i] \in Elements(blocks) \cup {e}
    <3>1. CASE i = 1
      BY <1>8, <3>1
    <3>2. CASE i # 1
      <4>1. i - 1 \in DOMAIN blocks /\ blocks'[i] = blocks[i - 1]
        BY <1>8, <3>2
      <4> QED
        BY <4>1 DEF Elements
    <3> QED
      BY <3>1, <3>2
  <2>2. ASSUME NEW i \in DOMAIN blocks
        PROVE  blocks[i] \in Elements(blocks')
    <3>1. i + 1 \in DOMAIN blocks' /\ blocks'[i + 1] = blocks[i]
      BY <1>8
    <3> QED
      BY <3>1 DEF Elements
  <2>3. e \in Elements(blocks')
    <3>1. 1 \in DOMAIN blocks' /\ blocks'[1] = e
      BY <1>8
    <3> QED
      BY <3>1 DEF Elements
  <2>4. Elements(blocks') \subseteq Elements(blocks) \cup {e}
    BY <2>1 DEF Elements
  <2>5. Elements(blocks) \subseteq Elements(blocks')
    BY <2>2 DEF Elements
  <2> QED
    BY <2>3, <2>4, <2>5
<1>12. OpenEnds(prog, pc + 1) = OpenEnds(prog, pc) \cup {e}
  BY <1>6 DEF OpenEnds
<1> QED
  BY <1>1, <1>2, <1>7, <1>8, <1>10, <1>11, <1>12 DEF StackOK

(* A finally that is reached is the one on top of the stack. *)
LEMMA FinallyIsTop ==
  ASSUME IInv, At("finally")
  PROVE  blocks # << >> /\ Head(blocks) = pc
<1>1. ~ Over /\ step.op = "finally"
  BY DEF At
<1>2. /\ pc \in 1 .. Len(prog) /\ Len(prog) \in Nat /\ DOMAIN prog = 1 .. Len(prog)
      /\ WellNested(prog)
  BY <1>1, Steps
<1>3. PICK k \in Tries(prog) : EndOf(prog, k) = pc
  BY <1>1, <1>2 DEF WellNested, step
<1>4. k \in Open(prog, pc)
  BY <1>2, <1>3 DEF Open, EndOf, Tries, WellNested
<1>5. pc \in Elements(blocks)
  BY <1>3, <1>4 DEF IInv, StackOK, OpenEnds
<1>6. blocks # << >>
  BY <1>5 DEF Elements
<1>7. PICK l \in Open(prog, pc) : /\ Head(blocks) = EndOf(prog, l)
                                  /\ EndOf(prog, l) <= EndOf(prog, k)
  BY <1>4, <1>6, TopIsNearest
<1> QED
  BY <1>2, <1>3, <1>6, <1>7, EndsInside

LEMMA Pops ==
  ASSUME IInv, Finally
  PROVE  StackOK' /\ pc' > pc /\ blocks # << >> /\ Head(blocks) = pc
<1>1. ~ Over /\ prog[pc].op = "finally" /\ pc' = pc + 1 /\ test' = test /\ prog' = prog
      /\ blocks' = Tail(blocks)
  BY DEF Finally, At, step, prog
<1>2. /\ pc \in 1 .. Len(prog) /\ Len(prog) \in Nat /\ DOMAIN prog = 1 .. Len(prog)
      /\ WellNested(prog) /\ test \in Tests
  BY <1>1, Steps
<1>3. blocks \in Seq(1 .. Len(prog)) /\ Ascending(blocks) /\ Elements(blocks) = OpenEnds(prog, pc)
  BY DEF IInv, StackOK
<1>4. blocks # << >>
  BY FinallyIsTop DEF Finally
<1>5. Head(blocks) = pc
  BY FinallyIsTop DEF Finally
<1>6. /\ DOMAIN blocks = 1 .. Len(blocks) /\ Len(blocks) \in Nat \ {0} /\ blocks[1] = pc
      /\ DOMAIN blocks' = 1 .. Len(blocks) - 1
      /\ \A i \in 1 .. Len(blocks) - 1 : blocks'[i] = blocks[i + 1]
      /\ blocks' \in Seq(1 .. Len(prog))
  BY <1>1, <1>3, <1>4, <1>5
<1>7. Ascending(blocks')
  <2> SUFFICES ASSUME NEW i \in DOMAIN blocks', NEW j \in DOMAIN blocks', i < j
               PROVE  blocks'[i] < blocks'[j]
    BY DEF Ascending
  <2>1. i + 1 \in DOMAIN blocks /\ j + 1 \in DOMAIN blocks /\ i + 1 < j + 1
        /\ blocks'[i] = blocks[i + 1] /\ blocks'[j] = blocks[j + 1]
    BY <1>6
  <2> QED
    BY <1>3, <2>1 DEF Ascending
<1>8. Elements(blocks') = Elements(blocks) \ {pc}
  <2>1. ASSUME NEW i \in DOMAIN blocks'
        PROVE  blocks'[i] \in Elements(blocks) \ {pc}
    <3>1. /\ i + 1 \in DOMAIN blocks /\ 1 \in DOMAIN blocks /\ 1 < i + 1
          /\ blocks'[i] = blocks[i + 1]
      BY <1>6
    <3>2. blocks[1] < blocks[i + 1]
      BY <1>3, <3>1 DEF Ascending
    <3> QED
      BY <1>2, <1>6, <3>1, <3>2 DEF Elements
  <2>2. ASSUME NEW i \in DOMAIN blocks, blocks[i] # pc
        PROVE  blocks[i] \in Elements(blocks')
    <3>1. i - 1 \in DOMAIN blocks' /\ blocks'[i - 1] = blocks[i]
      BY <1>6, <2>2
    <3> QED
      BY <3>1 DEF Elements
  <2>3. Elements(blocks') \subseteq Elements(blocks) \ {pc}
    BY <2>1 DEF Elements
  <2>4. Elements(blocks) \ {pc} \subseteq Elements(blocks')
    BY <2>2 DEF Elements
  <2> QED
    BY <2>3, <2>4
<1>9. OpenEnds(prog, pc + 1) = OpenEnds(prog, pc) \ {pc}
  <2>1. ASSUME NEW m \in Open(prog, pc), EndOf(prog, m) # pc
        PROVE  m \in Open(prog, pc + 1)
    <3>1. m \in 1 .. Len(prog) /\ EndOf(prog, m) \in 1 .. Len(prog) /\ m < pc
          /\ pc <= EndOf(prog, m)
      BY <1>2, EndsInside
    <3> QED
      BY <1>2, <2>1, <3>1 DEF Open
  <2>2. ASSUME NEW m \in Open(prog, pc + 1)
        PROVE  m \in Open(prog, pc) /\ EndOf(prog, m) # pc
    <3>1. m \in 1 .. Len(prog) /\ EndOf(prog, m) \in 1 .. Len(prog) /\ m < pc + 1
          /\ pc + 1 <= EndOf(prog, m) /\ prog[m].op = "try"
      BY <1>2, EndsInside
    <3>2. m # pc
      BY <1>1, <3>1
    <3> QED
      BY <1>2, <3>1, <3>2 DEF Open
  <2> QED
    BY <2>1, <2>2 DEF OpenEnds
<1>10. Elements(blocks') = OpenEnds(prog', pc')
  BY <1>1, <1>3, <1>8, <1>9
<1>11. test' = test /\ prog' = prog /\ pc' = pc + 1
  BY <1>1
<1>12. test' \in Tests /\ pc' \in 1 .. Len(prog') + 1
  BY <1>2, <1>11
<1>13. blocks' \in Seq(1 .. Len(prog'))
  BY <1>6, <1>11
<1>14. StackOK'
  BY <1>7, <1>10, <1>12, <1>13, Zenon DEF StackOK
<1> QED
  BY <1>2, <1>4, <1>5, <1>11, <1>14

-----------------------------------------------------------------------------
(***************************************************************************)
(* Every step keeps the stack, and is a step ahead.                        *)
(***************************************************************************)
LEMMA Raising ==
  ASSUME IInv, ~ Over, step.op # "finally", Raises, UNCHANGED test
  PROVE  IInv' /\ pc' > pc
<1>1. StackOK' /\ pc' > pc
  BY Unwinds DEF Raises
<1> QED
  BY <1>1 DEF IInv, Raises

LEMMA Going ==
  ASSUME IInv, ~ Over, step.op \notin {"try", "finally"}, Goes, UNCHANGED test
  PROVE  IInv' /\ pc' > pc
<1>1. StackOK' /\ pc' > pc
  BY Advances DEF Goes
<1> QED
  BY <1>1 DEF IInv, Goes

LEMMA Jumping ==
  ASSUME IInv, ~ Over, step.op \in Jumps,
         pc' \in {pc + 1, pc + step.len + 1},
         UNCHANGED <<test, blocks, raised, failed, escaped>>
  PROVE  IInv' /\ pc' > pc
<1>1. StackOK' /\ pc' > pc
  BY Advances, JumpsOver DEF Jumps
<1> QED
  BY <1>1 DEF IInv

LEMMA StepForward ==
  ASSUME IInv, Next
  PROVE  IInv' /\ (pc' > pc \/ UNCHANGED vars)
<1>1. CASE Create
  BY <1>1, Going DEF Create, At
<1>2. CASE Demand
  BY <1>2, Going, Raising DEF Demand, At
<1>3. CASE Refuse
  <2>1. StackOK' /\ pc' > pc
    BY <1>3, Advances DEF Refuse, At
  <2> QED
    BY <1>3, <2>1 DEF IInv, Refuse
<1>4. CASE Made
  BY <1>4, Going, Raising DEF Made, At
<1>5. CASE Remove
  BY <1>5, Going DEF Remove, At
<1>6. CASE SetAttr
  BY <1>6, Going DEF SetAttr, At
<1>7. CASE Unbound
  BY <1>7, Raising DEF Unbound, At
<1>8. CASE Passes
  BY <1>8, Going DEF Passes, At
<1>9. CASE Fails
  BY <1>9, Raising DEF Fails, At
<1>10. CASE Call
  BY <1>10, Going DEF Call, At
<1>11. CASE When
  BY <1>11, Jumping DEF When, At, Jumps
<1>12. CASE Rescue
  BY <1>12, Jumping DEF Rescue, At, Jumps
<1>13. CASE Either
  BY <1>13, Jumping DEF Either, At, Jumps
<1>14. CASE Skip
  BY <1>14, Jumping DEF Skip, At, Jumps
<1>15. CASE Learn
  BY <1>15, Going DEF Learn, At
<1>16. CASE Flush
  BY <1>16, Going DEF Flush, At
<1>17. CASE Enter
  BY <1>17, Enters DEF Enter, IInv
<1>18. CASE Finally
  BY <1>18, Pops DEF Finally, IInv
<1>19. CASE EndFinally
  <2>1. StackOK' /\ pc' > pc
    BY <1>19, Advances, Unwinds DEF EndFinally, At
  <2> QED
    BY <1>19, <2>1 DEF IInv, EndFinally
<1>20. CASE Done
  BY <1>20 DEF Done, vars, IInv, StackOK, prog
<1>21. CASE Deny
  BY <1>21, Going, Raising DEF Deny, At
<1> QED
  BY <1>1, <1>2, <1>3, <1>4, <1>5, <1>6, <1>7, <1>8, <1>9, <1>10, <1>11, <1>12, <1>13, <1>14,
     <1>15, <1>16, <1>17, <1>18, <1>19, <1>20, <1>21 DEF Next

(* At the first step nothing is open. *)
LEMMA InitStack == Init => IInv
<1> SUFFICES ASSUME Init
             PROVE  IInv
  OBVIOUS
<1>1. test \in Tests /\ pc = 1 /\ blocks = << >>
  BY DEF Init
<1>2. Len(prog) \in Nat /\ DOMAIN prog = 1 .. Len(prog) /\ WellNested(prog)
  BY <1>1, ProgramNested
<1>3. Open(prog, 1) = {}
  <2>1. ASSUME NEW k \in Open(prog, 1)
        PROVE  FALSE
    BY <1>2, <2>1, EndsInside
  <2> QED
    BY <2>1
<1>4. OpenEnds(prog, pc) = {} /\ Elements(blocks) = {}
  BY <1>1, <1>3 DEF OpenEnds, Elements
<1>5. blocks \in Seq(1 .. Len(prog)) /\ Ascending(blocks)
  BY <1>1 DEF Ascending
<1>6. pc \in 1 .. Len(prog) + 1
  BY <1>1, <1>2
<1> QED
  BY <1>1, <1>4, <1>5, <1>6 DEF Init, IInv, StackOK

(* The stack of finally blocks is that of the try blocks the test is in. *)
THEOREM StackIsOpenBlocks == Spec => []IInv
<1>1. IInv /\ [Next]_vars => IInv'
  <2>1. ASSUME IInv, Next
        PROVE  IInv'
    BY <2>1, StepForward
  <2>2. ASSUME IInv, UNCHANGED vars
        PROVE  IInv'
    BY <2>2 DEF vars, IInv, StackOK, prog
  <2> QED
    BY <2>1, <2>2
<1> QED
  BY <1>1, InitStack, PTL DEF Spec

(* The types, whatever the tests are: a step is never read past the end of *)
(* a program.                                                              *)
THEOREM TypeCorrect == Spec => []TypeOK
<1>1. IInv => TypeOK
  BY DEF IInv, StackOK, TypeOK
<1> QED
  BY <1>1, StackIsOpenBlocks, PTL

(* A finally block starts only as the one of the innermost try block under *)
(* way, and at the end of a test no finally is left to run: whatever       *)
(* raised, in a body, in a finally block or in a setUp.                    *)
THEOREM FinallyAlwaysRuns == Spec => []FinallyRuns
<1>1. IInv => FinallyRuns
  <2> SUFFICES ASSUME IInv
               PROVE  FinallyRuns
    OBVIOUS
  <2>1. At("finally") => blocks # << >> /\ Head(blocks) = pc
    BY FinallyIsTop
  <2>2. ASSUME Over
        PROVE  blocks = << >>
    <3>1. /\ test \in Tests /\ pc \in 1 .. Len(prog) + 1 /\ blocks \in Seq(1 .. Len(prog))
          /\ Elements(blocks) = OpenEnds(prog, pc)
      BY DEF IInv, StackOK
    <3>2. Len(prog) \in Nat /\ DOMAIN prog = 1 .. Len(prog) /\ WellNested(prog)
      BY <3>1, ProgramNested
    <3>3. pc = Len(prog) + 1
      BY <2>2, <3>1, <3>2 DEF Over
    <3>4. Elements(blocks) = {}
      BY <3>1, <3>2, <3>3, NoneOpenAtEnd DEF OpenEnds
    <3>5. DOMAIN blocks = {}
      BY <3>4 DEF Elements
    <3> QED
      BY <3>1, <3>5
  <2> QED
    BY <2>1, <2>2 DEF FinallyRuns
<1> QED
  BY <1>1, StackIsOpenBlocks, PTL

(* Every step takes a test further down its program, so that it ends after *)
(* at most as many steps as the program has.                               *)
THEOREM AlwaysForward == Spec => NeverBack
<1>1. IInv /\ [Next]_vars => [pc' > pc]_vars
  BY StepForward
<1> QED
  BY <1>1, StackIsOpenBlocks, PTL DEF Spec, NeverBack

-----------------------------------------------------------------------------
(***************************************************************************)
(* The store.  Creating, removing and setting, as the calls of SaiStore    *)
(* accept them, keep an object from naming one that is not there.          *)
(***************************************************************************)
LEMMA CreateKeepsRefs ==
  ASSUME NEW st, NEW n, NEW o, NoneDangling(st), Creatable(st, n, o), "kind" \in DOMAIN o
  PROVE  NoneDangling(With(st, n, o))
<1> DEFINE w == With(st, n, o)
<1>1. DOMAIN w = DOMAIN st \cup {n} /\ w[n] = o /\ n \notin DOMAIN st
      /\ \A m \in DOMAIN st : w[m] = st[m]
  BY DEF With, Creatable
<1>2. Handles(st) \subseteq Handles(w)
  BY <1>1 DEF Handles
<1>3. Refs(o) \subseteq Handles(st)
  BY DEF Creatable
<1>4. \A m \in DOMAIN w : "kind" \in DOMAIN w[m] /\ Refs(w[m]) \subseteq Handles(w)
  BY <1>1, <1>2, <1>3 DEF NoneDangling
<1> QED
  BY <1>4 DEF NoneDangling

LEMMA WithoutKeepsRefs ==
  ASSUME NEW st, NEW n, NoneDangling(st),
         \A m \in DOMAIN st : n \notin Refs(st[m])
  PROVE  NoneDangling(Without(st, n))
<1> DEFINE w == Without(st, n)
<1>1. DOMAIN w = DOMAIN st \ {n} /\ \A m \in DOMAIN w : w[m] = st[m]
  BY DEF Without, Restrict
<1>2. Handles(w) = Handles(st) \ {n}
  BY <1>1 DEF Handles
<1>3. \A m \in DOMAIN w : "kind" \in DOMAIN w[m] /\ Refs(w[m]) \subseteq Handles(w)
  BY <1>1, <1>2 DEF NoneDangling
<1> QED
  BY <1>3 DEF NoneDangling

(* An object refers to nothing new but what the attribute is set to. *)
LEMMA RefsOfChanged ==
  ASSUME NEW o, NEW f, NEW v, f # "kind"
  PROVE  /\ Refs(Changed(o, f, v)) \subseteq Refs(o) \cup Refs(Changed(Unset, f, v))
         /\ "kind" \in DOMAIN o <=> "kind" \in DOMAIN Changed(o, f, v)
         /\ "kind" \in DOMAIN o => Changed(o, f, v).kind = o.kind
<1> DEFINE c == Changed(o, f, v)
           u == Changed(Unset, f, v)
<1>1. CASE v = << >>
  <2>1. DOMAIN c = DOMAIN o \ {f} /\ \A g \in DOMAIN c : c[g] = o[g]
    BY <1>1 DEF Changed, Restrict
  <2>2. Refs(c) \subseteq Refs(o)
    BY <2>1 DEF Refs
  <2> QED
    BY <2>1, <2>2
<1>2. CASE v # << >>
  <2>1. /\ DOMAIN c = DOMAIN o \cup {f} /\ c[f] = v[1]
        /\ \A g \in DOMAIN c : g # f => c[g] = o[g]
    BY <1>2 DEF Changed
  <2>2. f \in DOMAIN u /\ u[f] = v[1]
    BY <1>2 DEF Changed
  <2>3. ASSUME NEW x \in Refs(c)
        PROVE  x \in Refs(o) \cup Refs(u)
    <3>1. CASE \E g \in DOMAIN c \cap RefFields : x = c[g]
      <4>1. PICK g \in DOMAIN c \cap RefFields : x = c[g]
        BY <3>1
      <4>2. CASE g = f
        BY <2>1, <2>2, <2>3, <4>1, <4>2 DEF Refs
      <4>3. CASE g # f
        <5>1. g \in DOMAIN o \cap RefFields /\ x = o[g]
          BY <2>1, <4>1, <4>3
        <5> QED
          BY <2>3, <5>1 DEF Refs
      <4> QED
        BY <4>2, <4>3
    <3>2. CASE \E g \in DOMAIN c \cap SetFields : x \in c[g]
      <4>1. PICK g \in DOMAIN c \cap SetFields : x \in c[g]
        BY <3>2
      <4>2. CASE g = f
        BY <2>1, <2>2, <2>3, <4>1, <4>2 DEF Refs
      <4>3. CASE g # f
        <5>1. g \in DOMAIN o \cap SetFields /\ x \in o[g]
          BY <2>1, <4>1, <4>3
        <5> QED
          BY <2>3, <5>1 DEF Refs
      <4> QED
        BY <4>2, <4>3
    <3> QED
      BY <2>3, <3>1, <3>2 DEF Refs
  <2> QED
    BY <2>1, <2>3
<1> QED
  BY <1>1, <1>2

LEMMA SetKeepsRefs ==
  ASSUME NEW st, NEW n, NEW f, NEW v, NoneDangling(st), Settable(st, n, f, v), f # "kind"
  PROVE  NoneDangling(SetIn(st, n, f, v))
<1> DEFINE o == Changed(Now(st, n), f, v)
           w == With(st, n, o)
<1>1. "kind" \in DOMAIN Now(st, n) /\ Refs(Now(st, n)) \subseteq Handles(st)
  <2>1. CASE n \in DOMAIN st
    BY <2>1 DEF Now, NoneDangling
  <2>2. CASE n \notin DOMAIN st
    <3>1. Now(st, n) = Unset
      BY <2>2 DEF Now
    <3>2. DOMAIN Unset = {"kind"}
      BY DEF Unset
    <3>3. Refs(Unset) = {}
      BY <3>2 DEF Refs, RefFields, SetFields
    <3> QED
      BY <3>1, <3>2, <3>3
  <2> QED
    BY <2>1, <2>2
<1>2. /\ Refs(o) \subseteq Handles(st) /\ "kind" \in DOMAIN o /\ o.kind = Now(st, n).kind
  BY <1>1, RefsOfChanged DEF Settable
<1>3. CASE o = Unset
  <2>1. Now(st, n).kind = "fixed"
    BY <1>2, <1>3 DEF Unset
  <2>2. n \notin Handles(st)
    BY <2>1 DEF Handles, Now
  <2>3. \A m \in DOMAIN st : n \notin Refs(st[m])
    BY <2>2 DEF NoneDangling
  <2> QED
    BY <1>3, <2>3, WithoutKeepsRefs DEF SetIn
<1>4. CASE o # Unset
  <2>1. DOMAIN w = DOMAIN st \cup {n} /\ w[n] = o
        /\ \A m \in DOMAIN st \ {n} : w[m] = st[m]
    BY DEF With
  <2>2. Handles(st) \subseteq Handles(w)
    BY <1>2, <2>1 DEF Handles, Now
  <2>3. \A m \in DOMAIN w : "kind" \in DOMAIN w[m] /\ Refs(w[m]) \subseteq Handles(w)
    BY <1>2, <2>1, <2>2 DEF NoneDangling
  <2>4. SetIn(st, n, f, v) = w
    BY <1>4 DEF SetIn
  <2> QED
    BY <2>3, <2>4 DEF NoneDangling
<1> QED
  BY <1>3, <1>4

LEMMA FlushKeepsRefs ==
  ASSUME NEW st, NoneDangling(st)
  PROVE  NoneDangling(Restrict(st, {n \in DOMAIN st : st[n].kind # "fdb"}))
<1> DEFINE w == Restrict(st, {n \in DOMAIN st : st[n].kind # "fdb"})
<1>1. /\ DOMAIN w = {n \in DOMAIN st : st[n].kind # "fdb"}
      /\ \A m \in DOMAIN w : w[m] = st[m]
  BY DEF Restrict
<1>2. Handles(w) = Handles(st)
  BY <1>1 DEF Handles
<1>3. \A m \in DOMAIN w : "kind" \in DOMAIN w[m] /\ Refs(w[m]) \subseteq Handles(w)
  BY <1>1, <1>2 DEF NoneDangling
<1> QED
  BY <1>3 DEF NoneDangling

StoreInv == IInv /\ RefsExist

(* What a step makes or sets is as the programs are assumed to be. *)
LEMMA StepAssumed ==
  ASSUME IInv, ~ Over
  PROVE  /\ step.op = "set" => step.f # "kind"
         /\ step.op \in {"create", "must", "deny", "learn"} => "kind" \in DOMAIN step.o
<1>1. pc \in DOMAIN prog /\ test \in Tests
  BY Steps
<1> QED
  BY <1>1, ScriptAssumption DEF step, prog

LEMMA StepKeepsRefs ==
  ASSUME StoreInv, Next
  PROVE  RefsExist'
<1> USE DEF RefsExist
<1>1. IInv /\ NoneDangling(store)
  BY DEF StoreInv
<1>2. CASE Create \/ Learn
  <2>1. "kind" \in DOMAIN step.o
    BY <1>1, <1>2, StepAssumed DEF Create, Learn, At
  <2> QED
    BY <1>1, <1>2, <2>1, CreateKeepsRefs DEF Create, Learn
<1>3. CASE Demand
  <2>1. "kind" \in DOMAIN step.o
    BY <1>1, <1>3, StepAssumed DEF Demand, At
  <2> QED
    BY <1>1, <1>3, <2>1, CreateKeepsRefs DEF Demand
<1>8. CASE Deny
  <2>1. "kind" \in DOMAIN step.o
    BY <1>1, <1>8, StepAssumed DEF Deny, At
  <2> QED
    BY <1>1, <1>8, <2>1, CreateKeepsRefs DEF Deny
<1>4. CASE Remove
  BY <1>1, <1>4, WithoutKeepsRefs DEF Remove, Removable
<1>5. CASE SetAttr
  <2>1. step.f # "kind"
    BY <1>1, <1>5, StepAssumed DEF SetAttr, At
  <2> QED
    BY <1>1, <1>5, <2>1, SetKeepsRefs DEF SetAttr
<1>6. CASE Flush
  BY <1>1, <1>6, FlushKeepsRefs DEF Flush
<1>7. CASE Refuse \/ Made \/ Unbound \/ Passes \/ Fails \/ Call \/ When \/ Rescue
           \/ Either \/ Skip \/ Enter \/ Finally \/ EndFinally \/ Done
  BY <1>1, <1>7 DEF Refuse, Made, Unbound, Passes, Fails, Call, When, Rescue, Either, Skip,
     Enter, Finally, EndFinally, Done, vars
<1> QED
  BY <1>2, <1>3, <1>4, <1>5, <1>6, <1>7, <1>8 DEF Next

(* No sequence of calls, refused or not, in whatever order an exception     *)
(* leaves them, makes an object name one that is gone.                      *)
THEOREM RefsAlwaysExist == Spec => []RefsExist
<1>1. Init => StoreInv
  <2>1. ASSUME Init
        PROVE  RefsExist
    BY <2>1, BaseAssumption DEF Init, RefsExist
  <2> QED
    BY <2>1, InitStack DEF StoreInv
<1>2. StoreInv /\ [Next]_vars => StoreInv'
  <2>1. ASSUME StoreInv, Next
        PROVE  StoreInv'
    BY <2>1, StepForward, StepKeepsRefs DEF StoreInv
  <2>2. ASSUME StoreInv, UNCHANGED vars
        PROVE  StoreInv'
    BY <2>2 DEF StoreInv, vars, IInv, StackOK, prog, RefsExist
  <2> QED
    BY <2>1, <2>2
<1>3. StoreInv => RefsExist
  BY DEF StoreInv
<1> QED
  BY <1>1, <1>2, <1>3, PTL DEF Spec

(* What is created and then removed is as if it had not been: until some   *)
(* other object is given the new handle the remove is accepted, and it     *)
(* leaves the store that the create found.  That is why the tests remove   *)
(* in the reverse order of their creates.                                  *)
THEOREM CreateUndone ==
  ASSUME NEW st, st = [m \in DOMAIN st |-> st[m]], NoneDangling(st),
         NEW n, NEW o, Creatable(st, n, o)
  PROVE  Removable(With(st, n, o), n) /\ Without(With(st, n, o), n) = st
<1> DEFINE w == With(st, n, o)
<1>1. DOMAIN w = DOMAIN st \cup {n} /\ w[n] = o /\ n \notin DOMAIN st
      /\ \A m \in DOMAIN st : w[m] = st[m]
  BY DEF With, Creatable
<1>2. n \notin Handles(st) /\ Refs(o) \subseteq Handles(st)
  BY <1>1 DEF Handles, Creatable
<1>3. \A m \in DOMAIN w : n \notin Refs(w[m])
  BY <1>1, <1>2 DEF NoneDangling
<1>4. Without(w, n) = [m \in DOMAIN st |-> w[m]]
  <2>1. DOMAIN w \ {n} = DOMAIN st
    BY <1>1
  <2> QED
    BY <2>1 DEF Without, Restrict
<1>5. [m \in DOMAIN st |-> w[m]] = st
  BY <1>1
<1> QED
  BY <1>1, <1>3, <1>4, <1>5 DEF Removable

-----------------------------------------------------------------------------
(***************************************************************************)
(* Definite assignment.  What NamesAssumption reads off a program is true  *)
(* of the names bound at each step: those assigned before it, those an if  *)
(* vouches for, and those assigned along with one that has been created.   *)
(***************************************************************************)
There == DOMAIN Base[test]

BoundBefore == \A n : AssignedBefore(prog, Outline(prog), n, pc) => n \in bound

BoundInBranch == \A n : GuardedRead(prog, Outline(prog), There, n, pc) => n \in bound

(* between the create of m and the assignment of n *)
InTransit(m, n, d) == \E l, a \in Outline(prog).sets :
    /\ d < l /\ l < pc /\ pc <= a
    /\ prog[l].n = m /\ prog[a].n = n /\ Straight(prog, l, a)

BoundAlong ==
    \A m, n : \A d \in Outline(prog).calls :
       Along(prog, Outline(prog), m, n, d, pc) /\ m \in bound \cap DOMAIN store =>
          n \in bound \/ InTransit(m, n, d)

BoundOK == ~Over => BoundBefore /\ BoundInBranch /\ BoundAlong

NamesInv == IInv /\ (test \notin ReadUnassigned => BoundOK)

(* A step of a program that raises only where it may. *)
Edge(p, a, b) == \/ b = a + 1
                 \/ p[a].op \in Jumps /\ b = EndOf(p, a)
                 \/ p[a].op \in MayRaise /\ \E k \in Open(p, a) : b = EndOf(p, k)

(* A step that no other leads past on the way to b is not led past on the  *)
(* way to a, which comes before b.                                         *)
LEMMA EdgeReaches ==
  ASSUME NEW p, Len(p) \in Nat, DOMAIN p = 1 .. Len(p), WellNested(p),
         NEW a \in 1 .. Len(p), NEW b \in 1 .. Len(p), a < b, Edge(p, a, b),
         NEW j \in 1 .. Len(p), j < b, j # a, ~PassedOver(p, Outline(p), j, b)
  PROVE  j < a /\ ~PassedOver(p, Outline(p), j, a)
<1> DEFINE o == Outline(p)
<1>1. \A k \in o.forks : k \in 1 .. Len(p) /\ EndOf(p, k) \in Int
  BY DEF Outline, Jumps, Tries, EndOf, WellNested
<1>2. ~PassedOver(p, o, j, a)
  BY <1>1 DEF PassedOver
<1>3. CASE b = a + 1
  BY <1>2, <1>3
<1>4. CASE p[a].op \in Jumps /\ b = EndOf(p, a)
  <2>1. a \in o.forks /\ p[a].op # "try"
    BY <1>4 DEF Outline, Jumps
  <2> QED
    BY <1>2, <1>4, <2>1 DEF PassedOver
<1>5. CASE p[a].op \in MayRaise /\ \E k \in Open(p, a) : b = EndOf(p, k)
  <2>1. PICK k \in Open(p, a) : b = EndOf(p, k)
    BY <1>5
  <2>2. k \in 1 .. Len(p) /\ k < a /\ p[k].op = "try"
    BY EndsInside
  <2>3. k \in o.forks
    BY <2>2 DEF Outline
  <2>4. ASSUME a < j
        PROVE  FALSE
    <3>1. a \in k + 1 .. j - 1
      BY <2>2, <2>4
    <3>2. PassedOver(p, o, j, b)
      BY <1>5, <2>1, <2>2, <2>3, <2>4, <3>1 DEF PassedOver
    <3> QED
      BY <3>2
  <2> QED
    BY <1>2, <2>4
<1> QED
  BY <1>3, <1>4, <1>5 DEF Edge

(* What a step does to the names that are bound and to those in the store. *)
Effect ==
    /\ step.op \in Assigning => step.n \in bound'
    /\ \A n \in bound : n \in bound' \/ (step.op = "call" /\ n \in step.locals)
    /\ step.op = "call" => \A n \in step.locals : n \notin bound'
    /\ \A n \in bound' : n \in bound \/ (step.op \in Assigning /\ n = step.n)
    /\ \A n \in DOMAIN store' :
          \/ n \in DOMAIN store
          \/ step.op \in Assigning \cup {"learn", "set"} /\ n = step.n
    /\ step.op = "create" => pc' = pc + 1
    /\ step.op = "made" /\ step.n \in DOMAIN store => pc' = pc + 1
    /\ step.op = "when" => \/ pc' = EndOf(prog, pc)
                           \/ step.n \in DOMAIN store \cap (bound \cup There)

LEMMA StoreDomains ==
  ASSUME NEW st, NEW n
  PROVE  /\ \A o : DOMAIN With(st, n, o) = DOMAIN st \cup {n}
         /\ DOMAIN Without(st, n) \subseteq DOMAIN st
         /\ \A f, v : DOMAIN SetIn(st, n, f, v) \subseteq DOMAIN st \cup {n}
<1>1. \A o : DOMAIN With(st, n, o) = DOMAIN st \cup {n}
  BY DEF With
<1>2. DOMAIN Without(st, n) \subseteq DOMAIN st
  BY DEF Without, Restrict
<1> QED
  BY <1>1, <1>2 DEF SetIn

LEMMA StepEffect ==
  ASSUME IInv, ~Over, Next
  PROVE  Effect
<1> DEFINE w == With(store, step.n, step.o)
           c == SetIn(store, step.n, step.f, step.v)
<1>0. DOMAIN w = DOMAIN store \cup {step.n} /\ DOMAIN c \subseteq DOMAIN store \cup {step.n}
  BY StoreDomains
<1>1. CASE Create \/ Refuse
  <2>1. step.op = "create" /\ bound' = bound \cup {step.n} /\ pc' = pc + 1
    BY <1>1 DEF Create, Refuse, Goes, At
  <2>2. DOMAIN store' \subseteq DOMAIN store \cup {step.n}
    <3>1. store' = store \/ store' = w
      BY <1>1 DEF Create, Refuse
    <3> QED
      BY <1>0, <3>1
  <2> QED
    BY <2>1, <2>2 DEF Effect, Assigning
<1>2. CASE Demand \/ Deny
  <2>1. step.op \in {"must", "deny"} /\ bound' = bound \cup {step.n}
    BY <1>2 DEF Demand, Deny, At
  <2>2. DOMAIN store' \subseteq DOMAIN store \cup {step.n}
    <3>1. store' = store \/ store' = w
      BY <1>2 DEF Demand, Deny
    <3> QED
      BY <1>0, <3>1
  <2> QED
    BY <2>1, <2>2 DEF Effect, Assigning
<1>3. CASE Made
  <2>1. step.op = "made" /\ bound' = bound /\ store' = store
        /\ (step.n \in DOMAIN store => pc' = pc + 1)
    BY <1>3 DEF Made, Goes, At
  <2> QED
    BY <2>1 DEF Effect, Assigning
<1>4. CASE Remove \/ Flush
  <2>1. step.op \in {"remove", "flush"} /\ bound' = bound
    BY <1>4 DEF Remove, Flush, At
  <2>2. DOMAIN store' \subseteq DOMAIN store
    <3>1. \A S \in SUBSET DOMAIN store : DOMAIN Restrict(store, S) \subseteq DOMAIN store
      BY DEF Restrict
    <3> QED
      BY <1>4, <3>1, StoreDomains DEF Remove, Flush
  <2> QED
    BY <2>1, <2>2 DEF Effect, Assigning
<1>5. CASE SetAttr \/ Learn
  <2>1. step.op \in {"learn", "set"} /\ bound' = bound
    BY <1>5 DEF SetAttr, Learn, At
  <2>2. DOMAIN store' \subseteq DOMAIN store \cup {step.n}
    <3>1. store' = store \/ store' = w \/ store' = c
      BY <1>5 DEF SetAttr, Learn
    <3> QED
      BY <1>0, <3>1
  <2> QED
    BY <2>1, <2>2 DEF Effect, Assigning
<1>6. CASE Unbound \/ Passes \/ Fails \/ Rescue \/ Either \/ Skip \/ Enter \/ Finally \/ EndFinally
  <2>1. step.op \in {"remove", "set", "check", "raise", "except", "either", "skip",
                     "try", "finally", "end"}
    BY <1>6 DEF Unbound, Passes, Fails, Rescue, Either, Skip, Enter, Finally, EndFinally, At
  <2>2. bound' = bound /\ store' = store
    BY <1>6 DEF Unbound, Passes, Fails, Rescue, Either, Skip, Enter, Finally, EndFinally
  <2> QED
    BY <2>1, <2>2 DEF Effect, Assigning
<1>7. CASE Call
  <2>1. step.op = "call" /\ bound' = bound \ step.locals /\ store' = store
    BY <1>7 DEF Call, At
  <2> QED
    BY <2>1 DEF Effect, Assigning
<1>8. CASE When
  <2>1. step.op = "when" /\ bound' = bound /\ store' = store
    BY <1>8 DEF When, At
  <2>2. pc' = EndOf(prog, pc) \/ step.n \in DOMAIN store \cap (bound \cup There)
    BY <1>8 DEF When, EndOf, There, step
  <2> QED
    BY <2>1, <2>2 DEF Effect, Assigning
<1>9. CASE Done
  BY <1>9 DEF Done
<1> QED
  BY <1>1, <1>2, <1>3, <1>4, <1>5, <1>6, <1>7, <1>8, <1>9 DEF Next

(* A step that raises is one that may: a read finds its name assigned. *)
LEMMA ReadsFind ==
  ASSUME NamesInv, test \notin ReadUnassigned, ~Over
  PROVE  step.op # "raise" /\ ~Unassigned
<1> DEFINE o == Outline(prog)
<1>1. pc \in DOMAIN prog /\ test \in Tests \ ReadUnassigned
  BY Steps DEF NamesInv
<1>2. ReadsAssigned(prog, There)
  BY <1>1, NamesAssumption DEF prog, There
<1>3. /\ step.op # "raise"
      /\ step.op = "remove" => \/ step.n \in There
                               \/ AssignedBefore(prog, o, step.n, pc)
                               \/ GuardedRead(prog, o, There, step.n, pc)
      /\ step.op = "set" => \/ step.n \in There \cup Fixed
                            \/ AssignedBefore(prog, o, step.n, pc)
                            \/ GuardedRead(prog, o, There, step.n, pc)
  BY <1>1, <1>2 DEF ReadsAssigned, step
<1>4. \A n : AssignedBefore(prog, o, n, pc) \/ GuardedRead(prog, o, There, n, pc) => n \in bound
  BY DEF NamesInv, BoundOK, BoundBefore, BoundInBranch
<1>5. At("remove") => step.n \in bound \cup There
  BY <1>3, <1>4 DEF At
<1>6. At("set") => step.n \in bound \cup There \cup Fixed
  BY <1>3, <1>4 DEF At
<1> QED
  BY <1>3, <1>5, <1>6 DEF Unassigned, There

(* Where a step that raises goes, unless it leaves the test. *)
LEMMA RaiseIsEdge ==
  ASSUME IInv, ~Over, step.op \in MayRaise, pc' = Handler, pc' <= Len(prog)
  PROVE  Edge(prog, pc, pc')
<1>1. blocks # << >>
  BY Steps DEF Handler
<1>2. PICK k \in Open(prog, pc) : Head(blocks) = EndOf(prog, k)
  BY <1>1, TopIsNearest
<1> QED
  BY <1>1, <1>2 DEF Edge, Handler, step

LEMMA StepIsEdge ==
  ASSUME NamesInv, test \notin ReadUnassigned, ~Over, Next, pc' <= Len(prog)
  PROVE  Edge(prog, pc, pc')
<1>0. IInv /\ step.op # "raise" /\ ~Unassigned
  BY ReadsFind DEF NamesInv
<1>1. CASE pc' = pc + 1
  BY <1>1 DEF Edge
<1>2. CASE pc' = Handler /\ step.op \in MayRaise
  BY <1>0, <1>2, RaiseIsEdge
<1>3. CASE pc' = EndOf(prog, pc) /\ step.op \in Jumps
  BY <1>3 DEF Edge, step
<1>4. CASE Create \/ Refuse \/ Remove \/ SetAttr \/ Passes \/ Call \/ Learn \/ Flush \/ Enter \/ Finally
  BY <1>1, <1>4 DEF Create, Refuse, Remove, SetAttr, Passes, Call, Learn, Flush, Enter, Finally, Goes
<1>5. CASE Demand \/ Deny \/ Made \/ Fails \/ EndFinally
  <2>1. step.op \in MayRaise
    BY <1>0, <1>5 DEF Demand, Deny, Made, Fails, EndFinally, At, MayRaise
  <2>2. pc' = pc + 1 \/ pc' = Handler
    BY <1>5 DEF Demand, Deny, Made, Fails, EndFinally, Goes, Raises
  <2> QED
    BY <1>1, <1>2, <2>1, <2>2
<1>6. CASE When \/ Rescue \/ Either \/ Skip
  <2>1. step.op \in Jumps
    BY <1>6 DEF When, Rescue, Either, Skip, At, Jumps
  <2>2. pc' = pc + 1 \/ pc' = EndOf(prog, pc)
    BY <1>6 DEF When, Rescue, Either, Skip, EndOf, step
  <2> QED
    BY <1>1, <1>3, <2>1, <2>2
<1>7. CASE Unbound
  BY <1>0, <1>7 DEF Unbound, Unassigned
<1>8. CASE Done
  BY <1>8 DEF Done
<1> QED
  BY <1>4, <1>5, <1>6, <1>7, <1>8 DEF Next

-----------------------------------------------------------------------------
(* The names assigned before a step are bound at the step after it. *)
LEMMA KeepsBefore ==
  ASSUME NamesInv, test \notin ReadUnassigned, ~Over, Next, test' = test,
         pc' \in 1 .. Len(prog), pc < pc',
         NEW n, NEW j \in DOMAIN prog, Reaches(prog, Outline(prog), n, j, pc'), j # pc
  PROVE  /\ Reaches(prog, Outline(prog), n, j, pc)
         /\ n \in bound => n \in bound'
<1> DEFINE o == Outline(prog)
<1>1. IInv /\ Effect /\ Edge(prog, pc, pc')
  BY StepEffect, StepIsEdge, Steps DEF NamesInv
<1>2. /\ pc \in 1 .. Len(prog) /\ Len(prog) \in Nat /\ DOMAIN prog = 1 .. Len(prog)
      /\ WellNested(prog)
  BY <1>1, Steps
<1>3. j < pc' /\ ~PassedOver(prog, o, j, pc') /\ ~Dropped(prog, o, n, j, pc')
  BY DEF Reaches
<1>4. j < pc /\ ~PassedOver(prog, o, j, pc)
  BY <1>1, <1>2, <1>3, EdgeReaches
<1>5. ~Dropped(prog, o, n, j, pc)
  BY <1>2, <1>3 DEF Dropped, Outline
<1>6. ASSUME n \in bound, n \notin bound'
      PROVE  FALSE
  <2>1. step.op = "call" /\ n \in step.locals
    BY <1>1, <1>6 DEF Effect
  <2>2. pc \in o.calls /\ n \in prog[pc].locals
    BY <1>2, <2>1 DEF Outline, step
  <2> QED
    BY <1>3, <1>4, <2>2 DEF Dropped
<1> QED
  BY <1>4, <1>5, <1>6 DEF Reaches

LEMMA StepBefore ==
  ASSUME NamesInv, test \notin ReadUnassigned, ~Over, Next, test' = test,
         pc' \in 1 .. Len(prog), pc < pc'
  PROVE  BoundBefore'
<1> DEFINE o == Outline(prog)
<1>1. prog' = prog
  BY DEF prog
<1> SUFFICES ASSUME NEW n, AssignedBefore(prog, o, n, pc')
             PROVE  n \in bound'
  BY <1>1 DEF BoundBefore
<1>2. PICK j \in o.sets : prog[j].n = n /\ Reaches(prog, o, n, j, pc')
  BY DEF AssignedBefore
<1>3. j \in DOMAIN prog /\ prog[j].op \in Assigning
  BY DEF Outline
<1>4. CASE j = pc
  <2>1. step.op \in Assigning /\ step.n = n
    BY <1>2, <1>3, <1>4 DEF step
  <2> QED
    BY <2>1, StepEffect DEF Effect, NamesInv
<1>5. CASE j # pc
  <2>1. Reaches(prog, o, n, j, pc) /\ (n \in bound => n \in bound')
    BY <1>2, <1>3, <1>5, KeepsBefore
  <2>2. n \in bound
    BY <1>2, <2>1 DEF NamesInv, BoundOK, BoundBefore, AssignedBefore
  <2> QED
    BY <2>1, <2>2
<1> QED
  BY <1>4, <1>5

LEMMA StepInBranch ==
  ASSUME NamesInv, test \notin ReadUnassigned, ~Over, Next, test' = test,
         pc' \in 1 .. Len(prog), pc < pc'
  PROVE  BoundInBranch'
<1> DEFINE o == Outline(prog)
<1>1. prog' = prog /\ There' = There
  BY DEF prog, There
<1> SUFFICES ASSUME NEW n, GuardedRead(prog, o, There, n, pc')
             PROVE  n \in bound'
  BY <1>1 DEF BoundInBranch
<1>2. PICK k \in o.ifs : /\ pc' < EndOf(prog, k) /\ Reaches(prog, o, n, k, pc')
                         /\ prog[k].n \notin There
                         /\ prog[k].n = n \/ \E d \in o.calls : Along(prog, o, prog[k].n, n, d, k)
  BY DEF GuardedRead
<1>3. k \in DOMAIN prog /\ prog[k].op = "when"
  BY DEF Outline
<1>4. CASE k = pc
  <2>1. step.op = "when" /\ Effect
    BY <1>3, <1>4, StepEffect DEF step, NamesInv
  <2>2. step.n \in DOMAIN store \cap bound
    BY <1>2, <1>4, <2>1, Steps DEF Effect, step, NamesInv
  <2>3. n \in bound
    <3>1. CASE step.n = n
      BY <2>2, <3>1
    <3>2. CASE step.n # n
      <4>1. PICK d \in o.calls : Along(prog, o, step.n, n, d, pc)
        BY <1>2, <1>4, <3>2 DEF step
      <4>2. n \in bound \/ InTransit(step.n, n, d)
        BY <2>2, <4>1 DEF NamesInv, BoundOK, BoundAlong
      <4>3. ASSUME InTransit(step.n, n, d)
            PROVE  FALSE
        <5>1. PICK l \in o.sets, a \in o.sets : l < pc /\ pc <= a /\ Straight(prog, l, a)
          BY <4>3 DEF InTransit
        <5>2. pc # a
          BY <1>3, <1>4 DEF Outline, Assigning
        <5>3. l \in DOMAIN prog /\ a \in DOMAIN prog /\ pc \in DOMAIN prog
              /\ DOMAIN prog = 1 .. Len(prog) /\ Len(prog) \in Nat
          BY Steps DEF Outline, NamesInv
        <5>4. pc \in l + 1 .. a - 1
          BY <5>1, <5>2, <5>3
        <5> QED
          BY <1>3, <1>4, <5>1, <5>4 DEF Straight
      <4> QED
        BY <4>2, <4>3
    <3> QED
      BY <3>1, <3>2
  <2> QED
    BY <2>1, <2>3 DEF Effect
<1>5. CASE k # pc
  <2>1. Reaches(prog, o, n, k, pc) /\ (n \in bound => n \in bound')
    BY <1>2, <1>3, <1>5, KeepsBefore
  <2>2. pc < EndOf(prog, k)
    BY <1>2, <1>3, Steps DEF NamesInv, EndOf, WellNested, Jumps
  <2>3. GuardedRead(prog, o, There, n, pc)
    BY <1>2, <2>1, <2>2 DEF GuardedRead
  <2>4. n \in bound
    BY <2>3 DEF NamesInv, BoundOK, BoundInBranch
  <2> QED
    BY <2>1, <2>4
<1> QED
  BY <1>4, <1>5

(* While the object of m is there, n is bound or about to be. *)
LEMMA StepAlong ==
  ASSUME NamesInv, test \notin ReadUnassigned, ~Over, Next, test' = test,
         pc' \in 1 .. Len(prog), pc < pc'
  PROVE  BoundAlong'
<1> DEFINE o == Outline(prog)
<1>1. prog' = prog
  BY DEF prog
<1>2. /\ pc \in 1 .. Len(prog) /\ Len(prog) \in Nat /\ DOMAIN prog = 1 .. Len(prog)
      /\ WellNested(prog) /\ Effect /\ Edge(prog, pc, pc')
  BY Steps, StepEffect, StepIsEdge DEF NamesInv
<1> SUFFICES ASSUME NEW m, NEW n, NEW d \in o.calls, Along(prog, o, m, n, d, pc'),
                    m \in bound', m \in DOMAIN store', n \notin bound'
             PROVE  \E l, a \in o.sets : /\ d < l /\ l < pc' /\ pc' <= a
                                         /\ prog[l].n = m /\ prog[a].n = n /\ Straight(prog, l, a)
  BY <1>1 DEF BoundAlong, InTransit
<1>3. /\ d < pc' /\ m \in prog[d].locals /\ ~PassedOver(prog, o, d, pc')
      /\ d \in 1 .. Len(prog) /\ prog[d].op = "call"
  BY <1>2 DEF Along, Outline
<1>4. d # pc
  BY <1>2, <1>3 DEF Effect, step
<1>5. d < pc /\ ~PassedOver(prog, o, d, pc)
  BY <1>2, <1>3, <1>4, EdgeReaches
<1>6. /\ step.op = "call" => n \notin step.locals
      /\ step.op \in {"learn", "set"} => step.n # m
      /\ step.op \in Assigning /\ step.n = m =>
            \/ AssignedBefore(prog, o, n, pc)
            \/ \E a \in o.sets : prog[a].n = n /\ Straight(prog, pc, a)
  <2>1. pc \in d + 1 .. pc' - 1
    BY <1>2, <1>3, <1>5
  <2> QED
    BY <2>1 DEF Along, step
<1>7. Along(prog, o, m, n, d, pc)
  <2>1. d + 1 .. pc - 1 \subseteq d + 1 .. pc' - 1
    BY <1>2, <1>3
  <2> QED
    BY <1>3, <1>5, <2>1 DEF Along
<1>8. n \notin bound
  BY <1>2, <1>6 DEF Effect
<1>9. ~ (step.op \in Assigning /\ step.n = n)
  BY <1>2 DEF Effect
<1>10. CASE m \in bound /\ m \in DOMAIN store
  <2>1. PICK l \in o.sets, a \in o.sets : /\ d < l /\ l < pc /\ pc <= a
                                          /\ prog[l].n = m /\ prog[a].n = n /\ Straight(prog, l, a)
    BY <1>7, <1>8, <1>10 DEF NamesInv, BoundOK, BoundAlong, InTransit
  <2>2. l \in 1 .. Len(prog) /\ a \in 1 .. Len(prog) /\ prog[a].op \in Assigning
    BY <1>2 DEF Outline
  <2>3. pc # a
    BY <1>9, <2>1, <2>2 DEF step
  <2>4. pc \in l + 1 .. a - 1
    BY <1>2, <2>1, <2>2, <2>3
  <2>5. step.op = "create" \/ (step.op = "made" /\ step.n = m)
    BY <2>1, <2>4 DEF Straight, step
  <2>6. pc' = pc + 1
    BY <1>2, <1>10, <2>5 DEF Effect
  <2>7. l < pc' /\ pc' <= a
    BY <1>2, <2>2, <2>4, <2>6
  <2> QED
    BY <2>1, <2>7
<1>11. CASE ~ (m \in bound /\ m \in DOMAIN store)
  <2>1. step.op \in Assigning /\ step.n = m
    BY <1>2, <1>6, <1>11 DEF Effect
  <2>2. ~AssignedBefore(prog, o, n, pc)
    BY <1>8 DEF NamesInv, BoundOK, BoundBefore
  <2>3. PICK a \in o.sets : prog[a].n = n /\ Straight(prog, pc, a)
    BY <1>6, <2>1, <2>2
  <2>4. step.op = "create" /\ pc < a
    BY <2>3 DEF Straight, step
  <2>5. pc' = pc + 1
    BY <1>2, <2>4 DEF Effect
  <2>6. pc \in o.sets /\ a \in 1 .. Len(prog)
    BY <1>2, <2>1 DEF Outline, step
  <2>7. d < pc /\ pc < pc' /\ pc' <= a
    BY <1>2, <1>5, <2>4, <2>5, <2>6
  <2> QED
    BY <2>1, <2>3, <2>6, <2>7 DEF step
<1> QED
  BY <1>10, <1>11

(* At the first step nothing needs to have been assigned. *)
LEMMA InitNames == Init => NamesInv
<1> SUFFICES ASSUME Init
             PROVE  NamesInv
  OBVIOUS
<1>1. IInv /\ pc = 1
  BY InitStack DEF Init
<1>2. /\ Outline(prog).sets \subseteq Nat \ {0} /\ Outline(prog).ifs \subseteq Nat \ {0}
      /\ Outline(prog).calls \subseteq Nat \ {0}
  BY <1>1, ProgramNested DEF IInv, StackOK, Outline
<1>3. BoundBefore
  BY <1>1, <1>2 DEF BoundBefore, AssignedBefore, Reaches
<1>4. BoundInBranch
  BY <1>1, <1>2 DEF BoundInBranch, GuardedRead, Reaches
<1>5. BoundAlong
  BY <1>1, <1>2 DEF BoundAlong, Along
<1> QED
  BY <1>1, <1>3, <1>4, <1>5 DEF NamesInv, BoundOK

LEMMA StepNames ==
  ASSUME NamesInv, Next
  PROVE  NamesInv'
<1>1. IInv /\ IInv' /\ (pc' > pc \/ UNCHANGED vars)
  BY StepForward DEF NamesInv
<1>2. test' = test /\ prog' = prog
  BY DEF Next, Create, Demand, Deny, Refuse, Made, Remove, SetAttr, Unbound, Passes, Fails, Call,
     When, Rescue, Either, Skip, Learn, Flush, Enter, Finally, EndFinally, Done, vars, prog
<1> SUFFICES ASSUME test \notin ReadUnassigned, ~Over'
             PROVE  (BoundBefore /\ BoundInBranch /\ BoundAlong)'
  BY <1>1, <1>2 DEF NamesInv, BoundOK
<1>3. CASE UNCHANGED vars
  <2>1. BoundBefore /\ BoundInBranch /\ BoundAlong
    BY <1>3 DEF NamesInv, BoundOK, Over, vars, prog
  <2> QED
    BY <1>3, <2>1 DEF BoundBefore, BoundInBranch, BoundAlong, InTransit, vars, prog, There
<1>4. CASE pc' > pc
  <2>1. pc \in 1 .. Len(prog) + 1 /\ pc' \in 1 .. Len(prog) /\ Len(prog) \in Nat
    BY <1>1, <1>2, ProgramNested DEF IInv, StackOK, Over
  <2>2. ~Over
    BY <1>4, <2>1 DEF Over
  <2> QED
    BY <1>2, <1>4, <2>1, <2>2, StepBefore, StepInBranch, StepAlong
<1> QED
  BY <1>1, <1>3, <1>4

(* No test but those of ReadUnassigned ever reads a name it has not         *)
(* assigned, whatever the device accepts and wherever a check fails: not in *)
(* a finally block or a tearDown either.  That each program has a way to    *)
(* assign before each read is NamesAssumption; that a run comes to a read   *)
(* only that way is what is proved.                                         *)
THEOREM NamesAlwaysResolve == Spec => []NamesResolve
<1>1. NamesInv /\ [Next]_vars => NamesInv'
  <2>1. ASSUME NamesInv, UNCHANGED vars
        PROVE  NamesInv'
    BY <2>1 DEF vars, NamesInv, IInv, StackOK, prog, BoundOK, BoundBefore, BoundInBranch,
       BoundAlong, InTransit, Over, There
  <2> QED
    BY <2>1, StepNames
<1>2. NamesInv => NamesResolve
  <2>1. ASSUME NamesInv, test \notin ReadUnassigned, ~Over
        PROVE  ~(At("raise") \/ Unassigned)
    BY <2>1, ReadsFind DEF At
  <2> QED
    BY <2>1 DEF NamesResolve, At, Unassigned
<1> QED
  BY <1>1, <1>2, InitNames, PTL DEF Spec

=============================================================================
