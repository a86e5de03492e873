--------------------------- MODULE MoveCheck_proof ---------------------------
(***************************************************************************)
(* Proofs about MoveCheck for every value of its constants:                *)
(*   - type correctness;                                                   *)
(*   - for an execution along the edges that the checker merges states      *)
(*     over, the invariant Covered, by way of the inductive invariant IInv; *)
(*   - for builds, that the second pass of a loop silences only what the    *)
(*     first one reported and ends in a state that its own start covers, by *)
(*     way of the inductive invariant TwoPasses, which pairs the state of   *)
(*     the second pass with one that the first pass went through;           *)
(*   - and from both, that a build rejects every use after a move.          *)
(***************************************************************************)
EXTENDS MoveCheck, SequenceTheorems, TLAPS

\* Merging move states yields a move state.
LEMMA StateFacts ==
    /\ NoState \in State /\ NoState.some = FALSE /\ NoState.moved = {}
    /\ \A s \in SUBSET Path : Clone(s) \in State /\ Clone(s).some = TRUE /\ Clone(s).moved = s
    /\ \A s \in State : s.some \in BOOLEAN /\ s.moved \subseteq Path
<1>1. NoState \in State /\ NoState.some = FALSE /\ NoState.moved = {}
  BY Zenon DEF State, NoState
<1>2. ASSUME NEW s \in SUBSET Path
      PROVE  Clone(s) \in State /\ Clone(s).some = TRUE /\ Clone(s).moved = s
  BY DEF State, Clone
<1>3. ASSUME NEW s \in State
      PROVE  s.some \in BOOLEAN /\ s.moved \subseteq Path
  <2>1. CASE s = NoState
    BY <2>1, <1>1
  <2>2. CASE \E m \in SUBSET Path : s = Clone(m)
    BY <2>2, <1>2
  <2> QED  BY <2>1, <2>2 DEF State
<1> QED  BY <1>1, <1>2, <1>3

\* Merging into a state keeps what both had, and NULL only stays NULL without a source.
LEMMA MergeIntoFacts ==
    ASSUME NEW t \in State, NEW s \in State
    PROVE  /\ MergeInto(t, s) \in State
           /\ MergeInto(t, s).some = (t.some \/ s.some)
           /\ t.some => t.moved \subseteq MergeInto(t, s).moved
           /\ s.some => s.moved \subseteq MergeInto(t, s).moved
<1>1. CASE s.some
  <2>1. MergeInto(t, s) = Clone(t.moved \cup s.moved)  BY <1>1 DEF MergeInto
  <2>2. t.moved \cup s.moved \in SUBSET Path  BY StateFacts
  <2> QED  BY <1>1, <2>1, <2>2, StateFacts
<1>2. CASE ~s.some
  BY <1>2, StateFacts DEF MergeInto
<1> QED  BY <1>1, <1>2

\* Pushing, replacing and popping an activation record.
LEMMA StackFacts ==
    ASSUME TypeOK
    PROVE  /\ Depth \in Nat
           /\ Depth > 0 => Top \in Frame
           /\ \A f \in Frame : /\ Append(stack, f) \in Seq(Frame)
                               /\ Len(Append(stack, f)) = Depth + 1
                               /\ Append(stack, f)[Depth + 1] = f
                               /\ \A i \in 1..Depth : Append(stack, f)[i] = stack[i]
           /\ Depth > 0 => \A f \in Frame : /\ SetTop(f) \in Seq(Frame)
                                            /\ Len(SetTop(f)) = Depth
                                            /\ SetTop(f)[Depth] = f
                                            /\ \A i \in 1..Depth-1 : SetTop(f)[i] = stack[i]
           /\ Depth > 0 => /\ Below \in Seq(Frame)
                           /\ Len(Below) = Depth - 1
                           /\ \A i \in 1..Depth-1 : Below[i] = stack[i]
<1> USE DEF Depth, Top, SetTop, Below
<1>0. stack \in Seq(Frame)  BY DEF TypeOK
<1>1. Depth \in Nat  BY <1>0
<1>2. Depth > 0 => Top \in Frame  BY <1>0
<1>3. ASSUME NEW f \in Frame
      PROVE  /\ Append(stack, f) \in Seq(Frame)
             /\ Len(Append(stack, f)) = Depth + 1
             /\ Append(stack, f)[Depth + 1] = f
             /\ \A i \in 1..Depth : Append(stack, f)[i] = stack[i]
  BY <1>0, AppendProperties
<1>4. ASSUME Depth > 0, NEW f \in Frame
      PROVE  /\ SetTop(f) \in Seq(Frame)
             /\ Len(SetTop(f)) = Depth
             /\ SetTop(f)[Depth] = f
             /\ \A i \in 1..Depth-1 : SetTop(f)[i] = stack[i]
  BY <1>0, <1>4, ExceptSeq
<1>5. ASSUME Depth > 0
      PROVE  /\ Below \in Seq(Frame)
             /\ Len(Below) = Depth - 1
             /\ \A i \in 1..Depth-1 : Below[i] = stack[i]
  <2> DEFINE n == Depth - 1
             b == SubSeq(stack, 1, n)
  <2>1. n \in Nat /\ \A i \in 1..n : stack[i] \in Frame
    BY <1>0, <1>1, <1>5
  <2> HIDE DEF n
  <2>2. /\ b \in Seq(Frame)
        /\ Len(b) = IF 1 <= n THEN n-1+1 ELSE 0
        /\ \A i \in 1 .. n-1+1 : b[i] = stack[1+i-1]
    BY <2>1, SubSeqProperties
  <2> HIDE DEF b
  <2>3. /\ b \in Seq(Frame)
        /\ Len(b) = n
        /\ \A i \in 1..n : b[i] = stack[i]
    BY <2>1, <2>2
  <2> QED  BY <2>3 DEF b, n
<1> QED  BY <1>1, <1>2, <1>3, <1>4, <1>5

\* The program counter and the log keep their types.
LEMMA EventFacts ==
    /\ \A p \in Path : <<"use", p>> \in Event /\ <<"move", p>> \in Event
                       /\ <<"assign", p>> \in Event
    /\ \A t \in Nat : <<"break", t>> \in Event /\ <<"continue", t>> \in Event
    /\ \A d \in BOOLEAN : <<"match", d>> \in Event
    /\ \A e \in {"if", "else", "endif", "case", "endmatch", "loop", "while", "do",
                  "endloop", "return", "goto", "label", "fn", "test"} : <<e>> \in Event
BY DEF Event

\* Reading the next event leaves a well-formed program.
LEMMA StepFacts ==
    ASSUME TypeOK, NEW e \in Event
    PROVE  /\ Read(e) => size' \in Nat
           /\ Logged(e) \in Seq(Event)
           /\ Step(e) => log' \in Seq(Event) /\ pc' \in Nat \ {0} /\ size' \in Nat
<1>1. log \in Seq(Event) /\ pc \in Nat \ {0} /\ size \in Nat
  BY DEF TypeOK
<1>2. Logged(e) \in Seq(Event)
  BY <1>1, AppendProperties DEF Logged
<1>3. Read(e) => size' \in Nat
  BY <1>1 DEF Read
<1>4. Step(e) => pc' \in Nat \ {0}
  BY <1>1 DEF Step
<1> QED  BY <1>2, <1>3, <1>4 DEF Step

\* What NODE_IF, NODE_MATCH and the loops keep on the C stack.
LEMMA FrameFacts ==
    ASSUME TypeOK, NEW kind \in FrameKind, NEW init \in State, NEW pass \in 0..2,
           NEW open \in BOOLEAN, NEW from \in Nat \ {0}
    PROVE  NewFrame(kind, init, pass, open, from) \in Frame
BY StateFacts DEF TypeOK, NewFrame, Frame

\* The current state as the branches and jumps hand it over.
LEMMA CurrentFacts ==
    ASSUME TypeOK
    PROVE  /\ Current \in State /\ Current.some = TRUE /\ Current.moved = moved
           /\ Reachable \in State /\ Reachable.some = ~unreachable
           /\ ~unreachable => Reachable.moved = moved
BY StateFacts DEF TypeOK, Current, Reachable

SameButInit(f, g) ==
    /\ f.kind = g.kind /\ f.unreach = g.unreach /\ f.pass = g.pass /\ f.open = g.open
    /\ f.out = g.out /\ f.cont = g.cont /\ f.next = g.next
    /\ g.pass # 1 => f.init = g.init

\* Unshare only gives the loop around a statement its initial state.
LEMMA UnshareFacts ==
    ASSUME NEW s \in Seq(Frame), NEW v \in State
    PROVE  /\ Unshare(s, v) \in Seq(Frame)
           /\ Len(Unshare(s, v)) = Len(s)
           /\ \A i \in 1..Len(s) : SameButInit(Unshare(s, v)[i], s[i])
<1>1. CASE Len(s) > 0 /\ s[Len(s)].pass = 1 /\ ~s[Len(s)].init.some
  <2> DEFINE f == [s[Len(s)] EXCEPT !.init = v]
  <2>1. Len(s) \in 1..Len(s) /\ s[Len(s)] \in Frame
    BY <1>1
  <2>2. f \in Frame
    BY <2>1 DEF Frame
  <2>3. SameButInit(f, s[Len(s)])
    BY <1>1, <2>1 DEF Frame, SameButInit
  <2>4. Unshare(s, v) = [s EXCEPT ![Len(s)] = f]
    BY <1>1 DEF Unshare
  <2>5. /\ [s EXCEPT ![Len(s)] = f] \in Seq(Frame)
        /\ Len([s EXCEPT ![Len(s)] = f]) = Len(s)
        /\ \A j \in 1 .. Len(s) : [s EXCEPT ![Len(s)] = f][j] = IF j = Len(s) THEN f ELSE s[j]
    BY <2>1, <2>2, ExceptSeq
  <2>6. \A g : SameButInit(g, g)
    BY DEF SameButInit
  <2> HIDE DEF f
  <2> QED  BY <1>1, <2>3, <2>4, <2>5, <2>6
<1>2. CASE ~(Len(s) > 0 /\ s[Len(s)].pass = 1 /\ ~s[Len(s)].init.some)
  BY <1>2 DEF Unshare, SameButInit
<1> QED  BY <1>1, <1>2

Location == [slot : Slot, at : Nat]

\* The places an execution can be in.
LEMMA LocationFacts ==
    /\ Run \in Location /\ Off \in Location
    /\ \A slot \in Slot, i \in Nat : At(slot, i) \in Location
    /\ \A needed, l : Along(needed, l) \in {l, Off}
    /\ Resumed \in {loc, Run}
BY DEF Location, Slot, Run, Off, At, Along, Resumed

\* Every action leaves well-formed move states and activation records.
LEMMA TypeStep == TypeOK /\ [Next]_vars => TypeOK'
<1> SUFFICES ASSUME TypeOK, [Next]_vars  PROVE TypeOK'
  OBVIOUS
<1> USE StateFacts, CurrentFacts, StackFacts, LocationFacts
<1>t. /\ moved \subseteq Path /\ held \subseteq Path
      /\ unreachable \in BOOLEAN /\ movesOnly \in BOOLEAN /\ between \in BOOLEAN
      /\ reported \in BOOLEAN /\ swallowed \in BOOLEAN /\ usedMoved \in BOOLEAN
      /\ stack \in Seq(Frame)
      /\ unit \in {"fn", "test"}
      /\ log \in Seq(Event) /\ pc \in Nat \ {0} /\ size \in Nat
      /\ loc \in Location
  BY DEF TypeOK, Location
<1>s. ASSUME NEW e \in Event, Step(e)
      PROVE  log' \in Seq(Event) /\ pc' \in Nat \ {0} /\ size' \in Nat
  BY <1>s, StepFacts
<1>n. Depth \in Nat /\ MaxNest \in Nat /\ 1..MaxNest \subseteq Nat
  BY BoundAssumption
<1>1. ASSUME NEW p \in Path, Use(p)  PROVE TypeOK'
  <2>1. log' \in Seq(Event) /\ pc' \in Nat \ {0} /\ size' \in Nat
    BY <1>1, <1>s, EventFacts DEF Use
  <2> QED  BY <1>1, <1>t, <2>1 DEF Use, CheckUse, TypeOK, Location
<1>2. ASSUME NEW p \in Path, Move(p)  PROVE TypeOK'
  <2>1. log' \in Seq(Event) /\ pc' \in Nat \ {0} /\ size' \in Nat
    BY <1>2, <1>s, EventFacts DEF Move
  <2>2. loc' \in Location
    BY <1>2, <1>t DEF Move
  <2> QED  BY <1>2, <1>t, <2>1, <2>2 DEF Move, CheckUse, TypeOK, Location
<1>3. ASSUME NEW p \in Path, Assign(p)  PROVE TypeOK'
  <2>1. log' \in Seq(Event) /\ pc' \in Nat \ {0} /\ size' \in Nat
    BY <1>3, <1>s, EventFacts DEF Assign
  <2> QED  BY <1>3, <1>t, <2>1 DEF Assign, TypeOK, Location
<1>4. ASSUME If  PROVE TypeOK'
  <2>1. log' \in Seq(Event) /\ pc' \in Nat \ {0} /\ size' \in Nat
    BY <1>4, <1>s, EventFacts DEF If
  <2>2. NewFrame("then", Current, 0, FALSE, 1) \in Frame
    BY <1>t DEF NewFrame, Frame, FrameKind
  <2>3. stack' \in Seq(Frame)
    BY <1>4, <2>2 DEF If, Push
  <2>4. loc' \in Location
    BY <1>4, <1>t DEF If, Slot
  <2> QED  BY <1>4, <1>t, <2>1, <2>3, <2>4 DEF If, TypeOK, Location
<1>5. ASSUME Else  PROVE TypeOK'
  <2>1. log' \in Seq(Event) /\ pc' \in Nat \ {0} /\ size' \in Nat
    BY <1>5, <1>s, EventFacts DEF Else
  <2>2. Depth > 0 /\ Top \in Frame
    BY <1>5 DEF Else, TopIs
  <2>3. [Top EXCEPT !.kind = "else", !.out = Reachable] \in Frame
    BY <2>2 DEF Frame, FrameKind
  <2>4. stack' \in Seq(Frame)
    BY <1>5, <2>2, <2>3 DEF Else
  <2>5. loc' \in Location
    BY <1>5, <1>t DEF Else, Slot
  <2>6. moved' \subseteq Path /\ unreachable' \in BOOLEAN
    BY <1>5, <2>2 DEF Else, Frame
  <2> QED  BY <1>5, <1>t, <2>1, <2>4, <2>5, <2>6 DEF Else, TypeOK, Location
<1>6. ASSUME EndIf  PROVE TypeOK'
  <2>1. log' \in Seq(Event) /\ pc' \in Nat \ {0} /\ size' \in Nat
    BY <1>6, <1>s, EventFacts DEF EndIf
  <2>2. Depth > 0 /\ Top \in Frame
    BY <1>6 DEF EndIf, TopIs
  <2>3. Top.init \in State /\ AfterThen \in State /\ AfterElse \in State
    BY <2>2 DEF Frame, AfterThen, AfterElse
  <2>4. moved' \subseteq Path /\ unreachable' \in BOOLEAN
    BY <1>6, <2>3 DEF EndIf, Merge
  <2> QED  BY <1>6, <1>t, <2>1, <2>2, <2>4 DEF EndIf, TypeOK, Location
<1>m. ASSUME TopIs({"match", "case"})  PROVE Merged \in State
  BY <1>m, MergeIntoFacts DEF TopIs, Merged, Frame
<1>7. ASSUME NEW d \in BOOLEAN, Match(d)  PROVE TypeOK'
  <2>1. log' \in Seq(Event) /\ pc' \in Nat \ {0} /\ size' \in Nat
    BY <1>7, <1>s, EventFacts DEF Match
  <2>2. NewFrame("match", Current, 0, d, 1) \in Frame
    BY FrameFacts DEF FrameKind
  <2>3. stack' \in Seq(Frame)
    BY <1>7, <2>2 DEF Match, Push
  <2>4. loc' \in Location
    BY <1>7, <1>t DEF Match, Slot
  <2> QED  BY <1>7, <1>t, <2>1, <2>3, <2>4 DEF Match, TypeOK, Location
<1>8. ASSUME Case  PROVE TypeOK'
  <2>1. log' \in Seq(Event) /\ pc' \in Nat \ {0} /\ size' \in Nat
    BY <1>8, <1>s, EventFacts DEF Case
  <2>2. Depth > 0 /\ Top \in Frame /\ Merged \in State
    BY <1>8, <1>m DEF Case, TopIs
  <2>3. [Top EXCEPT !.kind = "case", !.out = Merged] \in Frame
    BY <2>2 DEF Frame, FrameKind
  <2>4. stack' \in Seq(Frame)
    BY <1>8, <2>2, <2>3 DEF Case
  <2>5. loc' \in Location
    BY <1>8, <1>t DEF Case, Slot
  <2>6. moved' \subseteq Path /\ unreachable' \in BOOLEAN
    BY <1>8, <2>2 DEF Case, Frame
  <2> QED  BY <1>8, <1>t, <2>1, <2>4, <2>5, <2>6 DEF Case, TypeOK, Location
<1>9. ASSUME EndMatch  PROVE TypeOK'
  <2>1. log' \in Seq(Event) /\ pc' \in Nat \ {0} /\ size' \in Nat
    BY <1>9, <1>s, EventFacts DEF EndMatch
  <2>2. Depth > 0 /\ Top \in Frame /\ Merged \in State /\ Top.init \in State
    BY <1>9, <1>m DEF EndMatch, TopIs, Frame
  <2> DEFINE merged == IF Top.open THEN MergeInto(Merged, Top.init) ELSE Merged
  <2>3. merged \in State
    BY <2>2, MergeIntoFacts
  <2>4. /\ moved' = IF merged.some THEN merged.moved ELSE Top.init.moved
        /\ unreachable' = ~merged.some
        /\ stack' = IF merged.some THEN Unshare(Below, Top.init) ELSE Below
    BY <1>9 DEF EndMatch
  <2> HIDE DEF merged
  <2>5. moved' \subseteq Path /\ unreachable' \in BOOLEAN
    BY <2>2, <2>3, <2>4
  <2>6. stack' \in Seq(Frame)
    BY <2>2, <2>4, UnshareFacts
  <2>7. loc' \in Location
    BY <1>9, <1>t DEF EndMatch
  <2> QED  BY <1>9, <1>t, <2>1, <2>5, <2>6, <2>7 DEF EndMatch, TypeOK, Location
<1>10. ASSUME Loop \/ While  PROVE TypeOK'
  <2>1. PICK e \in {"loop", "while"}, k \in {"body", "cond"} : EnterLoop(e, k)
    BY <1>10 DEF Loop, While
  <2>2. log' \in Seq(Event) /\ pc' \in Nat \ {0} /\ size' \in Nat
    BY <2>1, <1>s, EventFacts DEF EnterLoop
  <2>3. NewFrame(k, NoState, 1, e = "while", pc') \in Frame
    BY <1>t, <2>2 DEF NewFrame, Frame, FrameKind
  <2>4. stack' \in Seq(Frame)
    BY <2>1, <2>3 DEF EnterLoop, Push
  <2> QED  BY <2>1, <1>t, <2>2, <2>4 DEF EnterLoop, run, TypeOK, Location
<1>11. ASSUME Do  PROVE TypeOK'
  <2>1. log' \in Seq(Event) /\ pc' \in Nat \ {0} /\ size' \in Nat
    BY <1>11, <1>s, EventFacts DEF Do
  <2>2. Depth > 0 /\ Top \in Frame
    BY <1>11 DEF Do, TopIs
  <2>3. [Top EXCEPT !.kind = "body"] \in Frame
    BY <2>2 DEF Frame, FrameKind
  <2>4. stack' \in Seq(Frame)
    BY <1>11, <2>2, <2>3 DEF Do
  <2>5. loc' \in Location
    BY <1>11, <1>t DEF Do, Slot
  <2> QED  BY <1>11, <1>t, <2>1, <2>4, <2>5 DEF Do, TypeOK, Location
<1>12. ASSUME NEW t \in 1..MaxNest, Break(t)  PROVE TypeOK'
  <2>1. log' \in Seq(Event) /\ pc' \in Nat \ {0} /\ size' \in Nat
    BY <1>12, <1>n, <1>s, EventFacts DEF Break
  <2>2. t \in 1..Depth
    BY <1>12 DEF Break
  <2>3. PICK i \in 1..Depth : stack' = [j \in 1..Depth |-> BrokenFrame(j, i, t)]
    BY <1>12 DEF Break
  <2>4. ASSUME NEW j \in 1..Depth
        PROVE  BrokenFrame(j, i, t) \in Frame
    <3>0. stack[j] \in Frame
      BY <1>t DEF Depth
    <3>1. stack[j].out \in State
      BY <3>0 DEF Frame
    <3>2. MergeInto(stack[j].out, Current) \in State
      BY <3>1, MergeIntoFacts
    <3> QED  BY <3>0, <3>1, <3>2 DEF Frame, BrokenFrame
  <2>5. stack' \in Seq(Frame)
    <3>1. stack' \in [1..Depth -> Frame]
      BY ONLY <2>3, <2>4
    <3> QED  BY ONLY <3>1, <1>n, SeqDef
  <2>6. loc' \in Location
    <3>1. loc' = loc \/ \E needed : loc' = Along(needed, At("out", t))
      BY <1>12 DEF Break
    <3>2. t \in Nat /\ "out" \in Slot
      BY <2>2, <1>n DEF Slot
    <3> QED  BY ONLY <3>1, <3>2, <1>t, LocationFacts
  <2> QED  BY <1>12, <1>t, <2>1, <2>5, <2>6 DEF Break, TypeOK, Location
<1>13. ASSUME NEW t \in 1..MaxNest, Continue(t)  PROVE TypeOK'
  <2>1. log' \in Seq(Event) /\ pc' \in Nat \ {0} /\ size' \in Nat
    BY <1>13, <1>n, <1>s, EventFacts DEF Continue
  <2>2. t \in 1..Depth
    BY <1>13 DEF Continue
  <2>3. PICK i \in 1..Depth : stack' = [stack EXCEPT ![i].cont = MergeInto(@, Current)]
    BY <1>13 DEF Continue
  <2>0. stack[i] \in Frame
    BY <1>t DEF Depth
  <2>4. stack[i].cont \in State
    BY <2>0 DEF Frame
  <2>5. [stack[i] EXCEPT !.cont = MergeInto(@, Current)] \in Frame
    BY <2>0, <2>4, MergeIntoFacts DEF Frame
  <2>6. stack' \in Seq(Frame)
    BY <1>t, <2>3, <2>5, ExceptSeq DEF Depth
  <2>7. loc' \in Location
    <3>1. loc' = loc \/ \E needed : loc' = Along(needed, At("cont", t))
      BY <1>13 DEF Continue
    <3>2. t \in Nat /\ "cont" \in Slot
      BY <2>2, <1>n DEF Slot
    <3> QED  BY ONLY <3>1, <3>2, <1>t, LocationFacts
  <2> QED  BY <1>13, <1>t, <2>1, <2>6, <2>7 DEF Continue, TypeOK, Location
<1>e. <<"endloop">> \in Event
  BY EventFacts
<1>l. ASSUME TopIs({"body"})
      PROVE  /\ Depth > 0 /\ Top \in Frame
             /\ Top.init \in State /\ Top.out \in State /\ Top.cont \in State /\ Top.next \in State
             /\ NextIter \in State /\ InitialAtEnd \in State /\ FinalState \in State
  <2>1. /\ Depth > 0 /\ Top \in Frame
        /\ Top.init \in State /\ Top.out \in State /\ Top.cont \in State /\ Top.next \in State
    BY <1>l DEF TopIs, Frame
  <2> QED  BY <2>1, MergeIntoFacts DEF NextIter, InitialAtEnd, FinalState
<1>14. ASSUME SecondPass  PROVE TypeOK'
  <2>1. TopIs({"body"})
    BY <1>14 DEF SecondPass
  <2>2. log' \in Seq(Event) /\ size' \in Nat
    BY <1>14, <1>e, StepFacts DEF SecondPass
  <2>3. [Top EXCEPT !.kind = IF Top.open THEN "cond" ELSE "body",
                    !.pass = 2, !.next = NextIter, !.init = InitialAtEnd,
                    !.out = NoState, !.cont = NoState] \in Frame
    <3>1. /\ Top \in Frame /\ NextIter \in State /\ InitialAtEnd \in State
          /\ NoState \in State
      BY <2>1, <1>l
    <3>2. (IF Top.open THEN "cond" ELSE "body") \in FrameKind /\ 2 \in 0..2
      BY DEF FrameKind
    <3> QED  BY <3>1, <3>2 DEF Frame
  <2>4. stack' \in Seq(Frame)
    BY <1>14, <2>1, <2>3, <1>l DEF SecondPass
  <2>5. moved' \subseteq Path /\ unreachable' \in BOOLEAN
    BY <1>14, <2>1, <1>l DEF SecondPass
  <2>6. loc' \in Location
    BY <1>14, <1>t DEF SecondPass
  <2>7. pc' \in Nat \ {0}
    BY <1>14, <2>1, <1>l DEF SecondPass, Frame
  <2> QED  BY <1>14, <1>t, <2>2, <2>4, <2>5, <2>6, <2>7 DEF SecondPass, TypeOK, Location
<1>15. ASSUME EndLoop  PROVE TypeOK'
  <2>1. TopIs({"body"})
    BY <1>15 DEF EndLoop
  <2>2. log' \in Seq(Event) /\ pc' \in Nat \ {0} /\ size' \in Nat
    BY <1>15, <1>t, <1>e, StepFacts DEF EndLoop
  <2>3. moved' \subseteq Path
    BY <1>15, <2>1, <1>l DEF EndLoop
  <2>4. unreachable' \in BOOLEAN
    BY <1>15 DEF EndLoop
  <2>5. stack' \in Seq(Frame)
    BY <1>15, <2>1, <1>l, UnshareFacts DEF EndLoop
  <2>6. loc' \in Location
    BY <1>15, <1>t DEF EndLoop
  <2> QED  BY <1>15, <1>t, <2>2, <2>3, <2>4, <2>5, <2>6 DEF EndLoop, TypeOK, Location
<1>16. ASSUME Return \/ Goto \/ Label  PROVE TypeOK'
  <2>1. PICK e \in {"return", "goto", "label"} : Step(<<e>>)
    BY <1>16 DEF Return, Goto, Label
  <2>2. log' \in Seq(Event) /\ pc' \in Nat \ {0} /\ size' \in Nat
    BY <2>1, <1>s, EventFacts
  <2>3. loc' \in Location
    BY <1>16, <1>t DEF Return, Goto, Label, Slot
  <2> QED  BY <1>16, <1>t, <2>2, <2>3 DEF Return, Goto, Label, checker, TypeOK, Location
<1>17. ASSUME Function \/ Test  PROVE TypeOK'
  <2>1. PICK kind \in {"fn", "test"} : NextUnit(kind)
    BY <1>17 DEF Function, Test
  <2>2. log' \in Seq(Event) /\ pc' \in Nat \ {0} /\ size' \in Nat
    BY <2>1, <1>s, EventFacts DEF NextUnit
  <2>3. loc' \in Location
    BY <2>1 DEF NextUnit
  <2> QED  BY <2>1, <1>t, <2>2, <2>3 DEF NextUnit, TypeOK, Location
<1>18. ASSUME UNCHANGED vars  PROVE TypeOK'
  BY <1>18, <1>t DEF vars, checker, program, run, TypeOK, Location
<1> QED
  BY <1>1, <1>2, <1>3, <1>4, <1>5, <1>6, <1>7, <1>8, <1>9, <1>10, <1>11, <1>12, <1>13, <1>14,
     <1>15, <1>16, <1>17, <1>18 DEF Next

\* The checker's states, its frames on the C stack and the replayed log are well formed in
\* every reachable state, for any places, edges, syntax and bounds.
THEOREM TypeCorrect == Spec => []TypeOK
<1>1. Init => TypeOK
  <2>1. <<>> \in Seq(Frame) /\ <<>> \in Seq(Event)
    OBVIOUS
  <2>2. Run \in Location
    BY LocationFacts
  <2>3. ASSUME Init
        PROVE  /\ moved \subseteq Path /\ held \subseteq Path
               /\ stack \in Seq(Frame) /\ log \in Seq(Event) /\ loc \in Location
    BY <2>1, <2>2, <2>3 DEF Init
  <2>4. ASSUME Init
        PROVE  /\ unreachable \in BOOLEAN /\ movesOnly \in BOOLEAN /\ between \in BOOLEAN
               /\ reported \in BOOLEAN /\ swallowed \in BOOLEAN /\ usedMoved \in BOOLEAN
    BY <2>4, Zenon DEF Init
  <2>5. ASSUME Init
        PROVE  unit \in {"fn", "test"} /\ pc \in Nat \ {0} /\ size \in Nat
    BY <2>5 DEF Init
  <2> QED  BY <2>3, <2>4, <2>5 DEF TypeOK, Location
<1> QED  BY <1>1, TypeStep, PTL DEF Spec

-----------------------------------------------------------------------------
(* The inductive invariant behind Covered, for an execution that takes none of *)
(* the edges the checker has no state for.  The execution is where some frame  *)
(* keeps a state for it, and that state has every place it moved out of.       *)

Covers(h, s) == s.some /\ h \subseteq s.moved

\* The frame f keeps a state for an execution in this slot that has moved out of h.
Shelters(h, slot, f) ==
    /\ slot = "wait" => f.kind \in {"then", "match", "case"} /\ Covers(h, f.init) /\ ~f.unreach
    /\ slot = "out"  => f.kind \in {"else", "case", "cond", "body"} /\ Covers(h, f.out)
    /\ slot = "cont" => f.kind \in {"cond", "body"} /\ Covers(h, f.cont)
    /\ slot = "exit" => f.kind = "body" /\ f.pass = 2 /\ f.open /\ Covers(h, f.next)

\* Only the frames of loops have a pass, only `while` evaluates a condition, and a
\* statement is never nested in a condition or between the cases of a match.
Shape == \A i \in 1..Depth : /\ stack[i].pass > 0 <=> stack[i].kind \in {"cond", "body"}
                             /\ stack[i].kind = "cond" => stack[i].open
                             /\ i < Depth => stack[i].kind \notin {"match", "cond"}

\* Where the execution runs the checker is on a path it believes in; what the second pass
\* adds in a condition was not yet moved when next_iter_state was taken.
OnPath == /\ ~unreachable
          /\ held \subseteq moved
          /\ ~TopIs({"match"})
          /\ TopIs({"cond"}) /\ Top.pass = 2 => Covers(held, Top.next)

Waiting == {"wait", "out", "cont", "exit"}
Where == /\ loc.slot \in {"run", "off"} \cup Waiting
         /\ loc.slot = "run" => OnPath
         /\ loc.slot \in {"run", "off"} => loc.at = 0
         /\ loc.slot \in Waiting => loc.at \in 1..Depth /\ Shelters(held, loc.slot, stack[loc.at])

Flagged == usedMoved => reported \/ swallowed

\* The edges over which the checker hands a state over, and the one behind a loop whose body
\* ran twice: there the state is that of the second iteration, and DeepCovered says that it
\* has what the execution moved out of.
MergedEdges == Edges \subseteq {"deep"}
DeepCovered ==
    "deep" \in Edges /\ EndLoop /\ Top.open /\ Top.pass = 2 /\ (Running \/ loc = At("cont", Depth))
        => Covers(held, FinalState)

IInv == TypeOK /\ Shape /\ Where /\ Flagged

\* g shelters whatever f does.
Keeps(f, g) == /\ g.kind = f.kind /\ g.pass = f.pass /\ g.open = f.open
               /\ g.unreach = f.unreach /\ g.next = f.next
               /\ f.pass = 0 => g.init = f.init
               /\ f.out.some => g.out.some /\ f.out.moved \subseteq g.out.moved
               /\ f.cont.some => g.cont.some /\ f.cont.moved \subseteq g.cont.moved

\* A frame that keeps f's states shelters the executions that f sheltered.
LEMMA KeepsShelter ==
    ASSUME NEW f, NEW g, NEW h, NEW slot, Keeps(f, g), Shelters(h, slot, f),
           f.kind \in {"then", "match", "case"} => f.pass = 0
    PROVE  Shelters(h, slot, g)
BY DEF Keeps, Shelters, Covers

\* An unchanged frame keeps its states.
LEMMA KeepsItself == \A f : Keeps(f, f)
BY DEF Keeps

\* An execution that waits at a frame which the step keeps goes on waiting there.
LEMMA StillWaiting ==
    ASSUME IInv, loc.slot \in Waiting, loc' = loc, held' = held,
           loc.at \in 1..Len(stack'), Keeps(stack[loc.at], stack'[loc.at])
    PROVE  Where'
<1>1. loc.at \in 1..Depth /\ Shelters(held, loc.slot, stack[loc.at])
  BY DEF IInv, Where
<1>2. stack[loc.at] \in Frame
  BY <1>1 DEF IInv, TypeOK, Depth
<1>3. stack[loc.at].kind \in {"then", "match", "case"} => stack[loc.at].pass = 0
  BY <1>1, <1>2 DEF IInv, Shape, Frame
<1>4. Shelters(held, loc.slot, stack'[loc.at])
  BY <1>1, <1>3, KeepsShelter
<1> QED  BY <1>4 DEF Where, Waiting, Depth

\* An execution that is out of sight stays there.
LEMMA StillOff ==
    ASSUME loc'.slot = "off", loc'.at = 0
    PROVE  Where'
BY DEF Where, Waiting

\* An execution that goes on running on the checker's path.
LEMMA StillRunning ==
    ASSUME loc' = Run, OnPath'
    PROVE  Where'
BY DEF Where, Waiting, Run, At

\* check_use_validity: using a place that the execution moved out of is flagged.
LEMMA UseFlagged ==
    ASSUME IInv, NEW p \in Path, CheckUse(p)
    PROVE  Flagged'
<1>1. CASE usedMoved
  BY <1>1 DEF IInv, Flagged, CheckUse
<1>2. CASE UsesMoved(p)
  <2>1. held \subseteq moved
    BY <1>2 DEF UsesMoved, Running, IInv, Where, OnPath
  <2>2. PICK q : q \in Owner[p] \cap moved
    BY <1>2, <2>1 DEF UsesMoved
  <2>3. CASE Hidden(q)
    BY <2>2, <2>3 DEF CheckUse, Flagged
  <2>4. CASE ~Hidden(q)
    BY <2>2, <2>4 DEF CheckUse, Flagged
  <2> QED  BY <2>3, <2>4
<1> QED  BY <1>1, <1>2 DEF CheckUse, Flagged

\* What IInv says of the activation records, without its definitions.
LEMMA Unfold ==
    ASSUME IInv
    PROVE  /\ TypeOK /\ Shape /\ Where /\ Flagged
           /\ Depth \in Nat
           /\ loc.slot \in {"run", "off"} \cup Waiting
           /\ loc.slot \in {"run", "off"} => loc.at = 0
           /\ Running => loc = Run /\ OnPath
           /\ ~Running /\ loc.slot \notin Waiting => loc.slot = "off" /\ loc.at = 0
           /\ loc.slot \in Waiting => /\ ~Running /\ loc.at \in 1..Depth
                                      /\ Shelters(held, loc.slot, stack[loc.at])
<1>1. TypeOK /\ Shape /\ Where /\ Flagged
  BY DEF IInv
<1>2. Depth \in Nat
  BY <1>1, StackFacts
<1>3. loc = [slot |-> loc.slot, at |-> loc.at]
  BY <1>1 DEF TypeOK
<1> QED  BY <1>1, <1>2, <1>3 DEF Where, Waiting, Running, Run, At

\* Events that leave the frames alone.
LEMMA UseStep ==
    ASSUME IInv, NEW p \in Path, Use(p)
    PROVE  Shape' /\ Where' /\ Flagged'
<1>1. Shape' /\ Where'
  BY DEF IInv, Use, Shape, Where, OnPath, TopIs, Top, Depth
<1> QED  BY <1>1, UseFlagged DEF Use

\* Move marks what the execution moves out of; in the condition of a second pass the
\* execution is no longer followed.
LEMMA MoveStep ==
    ASSUME IInv, MergedEdges, NEW p \in Path, Move(p)
    PROVE  Shape' /\ Where' /\ Flagged'
<1>1. Shape'
  BY DEF IInv, Move, Shape, Depth
<1>2. Flagged'
  BY UseFlagged DEF Move
<1>3. Where'
  <2>1. CASE Running /\ TopIs({"cond"}) /\ Top.pass = 2
    <3>1. loc' = Off
      BY <2>1 DEF MergedEdges, Move, Along
    <3> QED  BY <3>1, StillOff DEF Off, At
  <2>2. CASE Running /\ ~(TopIs({"cond"}) /\ Top.pass = 2)
    <3>1. loc' = Run /\ OnPath
      BY <2>2, Unfold DEF Move
    <3>2. OnPath'
      BY <2>2, <3>1 DEF Move, OnPath, TopIs, Top, Depth
    <3> QED  BY <3>1, <3>2, StillRunning
  <2>3. CASE ~Running
    BY <2>3 DEF IInv, Move, Where, Waiting, Running, Depth
  <2> QED  BY <2>1, <2>2, <2>3
<1> QED  BY <1>1, <1>2, <1>3

\* An assignment revalidates a place both for the checker and for the execution.
LEMMA AssignStep ==
    ASSUME IInv, NEW p \in Path, Assign(p)
    PROVE  Shape' /\ Where' /\ Flagged'
<1>1. Shape' /\ Flagged'
  BY DEF IInv, Assign, Shape, Depth, Flagged
<1>2. Where'
  <2>1. CASE Running
    <3>1. loc' = Run /\ OnPath
      BY <2>1, Unfold DEF Assign
    <3>2. held' = {q \in held : p \notin Owner[q]} /\ moved \ {p} \subseteq moved'
      BY <2>1 DEF Assign
    <3>3. p \notin held' /\ held' \subseteq held
      BY <3>2, PathAssumption
    <3>4. held' \subseteq moved'
      BY <3>1, <3>2, <3>3 DEF OnPath
    <3>5. TopIs({"cond"}) /\ Top.pass = 2 => Covers(held', Top.next)
      BY <3>1, <3>3 DEF OnPath, Covers
    <3>6. OnPath'
      BY <3>1, <3>4, <3>5 DEF Assign, OnPath, TopIs, Top, Depth
    <3> QED  BY <3>1, <3>6, StillRunning
  <2>2. CASE ~Running
    BY <2>2 DEF IInv, Assign, Where, Waiting, Running, Depth
  <2> QED  BY <2>1, <2>2
<1> QED  BY <1>1, <1>2

\* return, goto and a label: the execution leaves, or nothing changes.
LEMMA JumpStep ==
    ASSUME IInv, MergedEdges, Return \/ Goto \/ Label
    PROVE  Shape' /\ Where' /\ Flagged'
<1>1. stack' = stack /\ held' = held /\ UNCHANGED <<reported, swallowed, usedMoved>>
  BY DEF Return, Goto, Label, checker
<1>2. Shape' /\ Flagged'
  BY <1>1 DEF IInv, Shape, Depth, Flagged
<1>3. Where'
  <2>1. CASE Return \/ Goto
    <3>1. CASE Running
      <4>1. loc' = Off
        BY <2>1, <3>1 DEF MergedEdges, Return, Goto, Along
      <4> QED  BY <4>1, StillOff DEF Off, At
    <3>2. CASE ~Running
      <4>1. loc' = loc
        BY <2>1, <3>2 DEF Return, Goto
      <4> QED  BY <1>1, <3>2, <4>1 DEF IInv, Where, Waiting, Running, Depth
    <3> QED  BY <3>1, <3>2
  <2>2. CASE Label
    <3>1. loc' = loc
      BY <2>2, Unfold DEF Label, Waiting
    <3> QED  BY <2>2, <3>1 DEF IInv, Label, checker, Where, OnPath, TopIs, Top, Depth
  <2> QED  BY <2>1, <2>2
<1> QED  BY <1>2, <1>3

\* Every top-level item starts from a fresh state.
LEMMA UnitStep ==
    ASSUME IInv, MergedEdges, Function \/ Test
    PROVE  Shape' /\ Where' /\ Flagged'
<1>1. PICK kind \in {"fn", "test"} : NextUnit(kind)
  BY DEF Function, Test
<1>2. Shape' /\ Flagged'
  BY <1>1 DEF IInv, NextUnit, Shape, Depth, Flagged
<1>3. Where'
  <2>1. CASE unreachable'
    <3>1. loc' = Off
      BY <1>1, <2>1 DEF MergedEdges, NextUnit, Along
    <3> QED  BY <3>1, StillOff DEF Off, At
  <2>2. CASE ~unreachable'
    <3>1. loc' = Run /\ OnPath'
      BY <1>1, <2>2 DEF NextUnit, OnPath, TopIs, Top, Depth
    <3> QED  BY <3>1, StillRunning
  <2> QED  BY <2>1, <2>2
<1> QED  BY <1>2, <1>3

\* Pushing, replacing and popping a frame keep Shape and what the frames below shelter.
Shapely(f) == /\ f.pass > 0 <=> f.kind \in {"cond", "body"}
              /\ f.kind = "cond" => f.open

\* A pushed frame leaves the ones below it as they were.
LEMMA PushShape ==
    ASSUME IInv, InStatement, NEW f \in Frame, Shapely(f), stack' = Append(stack, f)
    PROVE  /\ Shape' /\ Depth' = Depth + 1 /\ Top' = f
           /\ loc.slot \in Waiting /\ loc' = loc /\ held' = held => Where'
<1>0. Shapely(f)
  OBVIOUS
<1>1. /\ Depth' = Depth + 1 /\ stack'[Depth + 1] = f /\ Depth \in Nat
      /\ \A i \in 1..Depth : stack'[i] = stack[i]
  BY Unfold, StackFacts DEF Depth
<1>2. Shape'
  <2>1. \A i \in 1..Depth : stack[i].kind = "cond" \/ stack[i].kind = "match" => i < Depth
    BY <1>1 DEF InStatement, TopIs, Top
  <2>2. ASSUME NEW i \in 1..Depth
        PROVE  /\ stack'[i].pass > 0 <=> stack'[i].kind \in {"cond", "body"}
               /\ stack'[i].kind = "cond" => stack'[i].open
               /\ stack'[i].kind \notin {"match", "cond"}
    BY <1>1, <2>1, Unfold DEF Shape
  <2>3. ASSUME NEW i \in 1..Depth'
        PROVE  /\ stack'[i].pass > 0 <=> stack'[i].kind \in {"cond", "body"}
               /\ stack'[i].kind = "cond" => stack'[i].open
               /\ i < Depth' => stack'[i].kind \notin {"match", "cond"}
    <3>1. CASE i \in 1..Depth
      BY <3>1, <2>2
    <3>2. CASE i = Depth + 1
      <4>1. stack'[i] = f /\ ~(i < Depth')
        BY ONLY <1>1, <3>2
      <4> QED  BY ONLY <4>1, <1>0 DEF Shapely
    <3>3. i \in 1..Depth \/ i = Depth + 1
      BY ONLY <1>1
    <3> QED  BY ONLY <3>1, <3>2, <3>3
  <2> QED  BY <2>3 DEF Shape
<1>3. ASSUME loc.slot \in Waiting, loc' = loc, held' = held  PROVE Where'
  BY <1>1, <1>3, Unfold, KeepsItself, StillWaiting DEF Depth
<1> QED  BY <1>1, <1>2, <1>3 DEF Top, Depth

\* A replaced top frame leaves the ones below it as they were.
LEMMA SetTopShape ==
    ASSUME IInv, Depth > 0, NEW f \in Frame, Shapely(f), stack' = SetTop(f)
    PROVE  /\ Shape' /\ Depth' = Depth /\ Top' = f /\ stack'[Depth] = f
           /\ loc.slot \in Waiting /\ loc.at # Depth /\ loc' = loc /\ held' = held => Where'
<1>1. /\ Depth' = Depth /\ stack'[Depth] = f /\ Depth \in Nat
      /\ \A i \in 1..Depth-1 : stack'[i] = stack[i]
  BY Unfold, StackFacts DEF Depth
<1>2. Shape'
  BY <1>1, Unfold DEF Shape, Shapely
<1>3. ASSUME loc.slot \in Waiting, loc.at # Depth, loc' = loc, held' = held  PROVE Where'
  <2>1. loc.at \in 1..Depth-1
    BY <1>1, <1>3, Unfold
  <2> QED  BY <1>1, <1>3, <2>1, KeepsItself, StillWaiting DEF Depth
<1> QED  BY <1>1, <1>2, <1>3 DEF Top, Depth

\* A popped frame leaves the ones below it their states, initial_state of a loop excepted.
LEMMA PopShape ==
    ASSUME IInv, Depth > 0, NEW v \in State, stack' \in {Below, Unshare(Below, v)}
    PROVE  /\ Shape' /\ ~TopIs({"match", "cond"})'
           /\ loc.slot \in Waiting /\ loc.at # Depth /\ loc' = loc /\ held' = held => Where'
<1>1. /\ Below \in Seq(Frame) /\ Len(Below) = Depth - 1 /\ Depth \in Nat
      /\ \A i \in 1..Depth-1 : Below[i] = stack[i]
  BY Unfold, StackFacts
<1>2. \A i \in 1..Depth-1 : Keeps(Below[i], Unshare(Below, v)[i])
  <2> TAKE i \in 1..Depth-1
  <2>1. SameButInit(Unshare(Below, v)[i], Below[i])
    BY <1>1, UnshareFacts
  <2> QED  BY <2>1 DEF Keeps, SameButInit
<1>3. Depth' = Depth - 1 /\ \A i \in 1..Depth-1 : Keeps(stack[i], stack'[i])
  BY <1>1, <1>2, UnshareFacts, KeepsItself DEF Depth
<1>4. Shape'
  BY <1>1, <1>3, Unfold DEF Shape, Keeps
<1>5. ~TopIs({"match", "cond"})'
  BY <1>1, <1>3, Unfold DEF Shape, Keeps, TopIs, Top
<1>6. ASSUME loc.slot \in Waiting, loc.at # Depth, loc' = loc, held' = held  PROVE Where'
  <2>1. loc.at \in 1..Depth-1
    BY <1>1, <1>6, Unfold
  <2> QED  BY <1>3, <1>6, <2>1, StillWaiting DEF Depth
<1> QED  BY <1>4, <1>5, <1>6

\* A step that checks no use flags nothing.
LEMMA SameFlags ==
    ASSUME IInv, UNCHANGED <<reported, swallowed, usedMoved>>
    PROVE  Flagged'
BY DEF IInv, Flagged

\* An execution that the step lets run keeps every frame condition.
LEMMA RunsOn ==
    ASSUME loc' = Run, ~unreachable', held' \subseteq moved', ~TopIs({"match", "cond"})'
    PROVE  Where'
<1>1. OnPath'
  BY DEF OnPath, TopIs
<1> QED  BY <1>1, StillRunning

\* An execution that starts to wait at a frame that shelters it.
LEMMA WaitsNow ==
    ASSUME NEW slot \in Waiting, NEW i \in 1..Len(stack'), loc' = At(slot, i),
           Shelters(held', slot, stack'[i])
    PROVE  Where'
BY DEF Where, Waiting, At, Depth

\* NODE_IF and NODE_MATCH.
LEMMA IfStep ==
    ASSUME IInv, If
    PROVE  Shape' /\ Where' /\ Flagged'
<1> DEFINE f == NewFrame("then", Current, 0, FALSE, 1)
<1>0. moved \subseteq Path /\ unreachable \in BOOLEAN /\ Current \in State
  BY Unfold, CurrentFacts DEF TypeOK
<1>1. f \in Frame /\ Shapely(f)
  BY <1>0, StateFacts DEF NewFrame, Frame, FrameKind, Shapely
<1>2. f.kind = "then" /\ f.init = Current /\ f.unreach = unreachable
  BY DEF NewFrame
<1>3. stack' = Append(stack, f) /\ InStatement /\ UNCHANGED <<moved, unreachable, held>>
  BY DEF If, Push, InStatement
<1> HIDE DEF f
<1>4. Shape' /\ Depth' = Depth + 1 /\ Top' = f
  BY <1>1, <1>3, PushShape
<1>5. Where'
  <2>1. CASE Running
    <3>1. OnPath
      BY <2>1, Unfold
    <3>2. CASE loc' = Run
      BY <1>2, <1>3, <1>4, <3>1, <3>2, RunsOn DEF OnPath, TopIs
    <3>3. CASE loc' = At("wait", Depth + 1)
      <4>1. Shelters(held', "wait", f)
        BY <1>2, <1>3, <3>1, Unfold, CurrentFacts DEF Shelters, Covers, OnPath
      <4>2. Depth + 1 \in 1..Len(stack') /\ stack'[Depth + 1] = f
        BY <1>4, Unfold DEF Top, Depth
      <4> QED  BY <3>3, <4>1, <4>2, WaitsNow DEF Waiting
    <3> QED  BY <2>1, <3>2, <3>3 DEF If
  <2>2. CASE ~Running
    <3>1. loc' = loc
      BY <2>2 DEF If
    <3>2. CASE loc.slot \in Waiting
      BY <1>1, <1>3, <3>1, <3>2, PushShape
    <3>3. CASE loc.slot \notin Waiting
      BY <2>2, <3>1, <3>3, Unfold, StillOff
    <3> QED  BY <3>2, <3>3
  <2> QED  BY <2>1, <2>2
<1>6. Flagged'
  BY SameFlags DEF If
<1> QED  BY <1>4, <1>5, <1>6

\* The then branch ends: its state is kept, and the else branch starts from the initial one.
LEMMA ElseStep ==
    ASSUME IInv, Else
    PROVE  Shape' /\ Where' /\ Flagged'
<1> DEFINE f == [Top EXCEPT !.kind = "else", !.out = Reachable]
<1>1. Depth > 0 /\ Top \in Frame /\ Top.kind = "then" /\ Depth \in Nat
  BY Unfold, StackFacts DEF Else, TopIs
<1>2. /\ f \in Frame /\ f.kind = "else" /\ f.out = Reachable /\ f.pass = Top.pass
      /\ f.open = Top.open
  BY <1>1, Unfold, CurrentFacts DEF Frame, FrameKind
<1>3. stack' = SetTop(f) /\ moved' = Top.init.moved /\ unreachable' = Top.unreach /\ held' = held
  BY DEF Else
<1>4. Shapely(f)
  BY <1>1, <1>2, Unfold DEF Shape, Shapely, Top
<1> HIDE DEF f
<1>5. Shape' /\ Depth' = Depth /\ Top' = f /\ stack'[Depth] = f
  BY <1>1, <1>2, <1>3, <1>4, SetTopShape
<1>6. Where'
  <2>1. CASE Running
    <3>1. loc' = At("out", Depth) /\ OnPath
      BY <2>1, Unfold DEF Else
    <3>2. Shelters(held', "out", f)
      BY <1>2, <1>3, <3>1, Unfold, CurrentFacts DEF Shelters, Covers, OnPath
    <3> QED  BY <1>1, <1>5, <3>1, <3>2, WaitsNow DEF Waiting, Depth
  <2>2. CASE loc = At("wait", Depth)
    <3>1. loc' = Run
      BY <2>2 DEF Else, Running, At
    <3>2. Shelters(held, "wait", Top)
      BY <2>2, Unfold DEF Waiting, At, Top
    <3>3. ~unreachable' /\ held' \subseteq moved'
      BY <1>3, <3>2 DEF Shelters, Covers
    <3> QED  BY <1>2, <1>5, <3>1, <3>3, RunsOn DEF TopIs
  <2>3. CASE ~Running /\ loc # At("wait", Depth)
    <3>1. loc' = loc
      BY <2>3 DEF Else
    <3>2. CASE loc.slot \in Waiting
      <4>1. loc.at # Depth
        <5>1. loc = At(loc.slot, loc.at)
          BY Unfold DEF TypeOK, At
        <5>2. loc.at = Depth => Shelters(held, loc.slot, Top)
          BY <3>2, Unfold DEF Top
        <5> QED  BY <1>1, <2>3, <3>2, <5>1, <5>2 DEF Shelters, Waiting
      <4> QED  BY <1>1, <1>2, <1>3, <1>4, <3>1, <3>2, <4>1, SetTopShape
    <3>3. CASE loc.slot \notin Waiting
      BY <2>3, <3>1, <3>3, Unfold, StillOff
    <3> QED  BY <3>2, <3>3
  <2> QED  BY <2>1, <2>2, <2>3
<1>7. Flagged'
  BY SameFlags DEF Else
<1> QED  BY <1>5, <1>6, <1>7

\* move_state_merge has what either branch moved.
LEMMA EndIfStep ==
    ASSUME IInv, EndIf
    PROVE  Shape' /\ Where' /\ Flagged'
<1>1. Depth > 0 /\ Top \in Frame /\ Top.kind \in {"then", "else"} /\ Depth \in Nat
  BY Unfold, StackFacts DEF EndIf, TopIs
<1>2. /\ stack' = Below /\ held' = held /\ loc' = Resumed
      /\ moved' = Merge(Top.init.moved, AfterThen, AfterElse)
      /\ unreachable' = (~AfterThen.some /\ ~AfterElse.some)
  BY DEF EndIf
<1>3. Shape' /\ ~TopIs({"match", "cond"})'
  BY <1>1, <1>2, StateFacts, PopShape
<1>4. ASSUME Covers(held, AfterThen) \/ Covers(held, AfterElse), loc' = Run
      PROVE  Where'
  BY <1>2, <1>3, <1>4, RunsOn DEF Merge, Covers
<1>5. Where'
  <2>1. CASE Running
    <3>1. loc' = Run /\ Covers(held, Reachable)
      BY <2>1, <1>1, <1>2, Unfold, CurrentFacts DEF Resumed, Run, At, OnPath, Covers
    <3> QED  BY <1>1, <1>4, <3>1 DEF AfterThen, AfterElse
  <2>2. CASE ~Running /\ loc.at = Depth
    <3>1. loc' = Run /\ Shelters(held, loc.slot, Top) /\ loc.slot \in Waiting
      BY <1>1, <1>2, <2>2, Unfold DEF Resumed, Top
    <3>2. \/ Top.kind = "then" /\ Covers(held, Top.init) /\ ~Top.unreach
          \/ Top.kind = "else" /\ Covers(held, Top.out)
      BY <1>1, <3>1 DEF Shelters, Waiting
    <3> QED  BY <1>4, <3>1, <3>2 DEF AfterThen, AfterElse
  <2>3. CASE ~Running /\ loc.at # Depth
    <3>1. loc' = loc
      BY <1>2, <2>3 DEF Resumed
    <3>2. CASE loc.slot \in Waiting
      BY <1>1, <1>2, <2>3, <3>1, <3>2, StateFacts, PopShape
    <3>3. CASE loc.slot \notin Waiting
      BY <2>3, <3>1, <3>3, Unfold, StillOff
    <3> QED  BY <3>2, <3>3
  <2> QED  BY <2>1, <2>2, <2>3
<1>6. Flagged'
  BY SameFlags DEF EndIf
<1> QED  BY <1>3, <1>5, <1>6

\* The subject of a match has been checked: no case has been taken yet.
LEMMA MatchStep ==
    ASSUME IInv, NEW d \in BOOLEAN, Match(d)
    PROVE  Shape' /\ Where' /\ Flagged'
<1> DEFINE f == NewFrame("match", Current, 0, d, 1)
<1>0. moved \subseteq Path /\ unreachable \in BOOLEAN /\ Current \in State
  BY Unfold, CurrentFacts DEF TypeOK
<1>1. f \in Frame /\ Shapely(f)
  BY <1>0, StateFacts DEF NewFrame, Frame, FrameKind, Shapely
<1>2. f.kind = "match" /\ f.init = Current /\ f.unreach = unreachable
  BY DEF NewFrame
<1>3. stack' = Append(stack, f) /\ InStatement /\ UNCHANGED <<moved, unreachable, held>>
  BY DEF Match, Push, InStatement
<1> HIDE DEF f
<1>4. Shape' /\ Depth' = Depth + 1 /\ Top' = f
  BY <1>1, <1>3, PushShape
<1>5. Where'
  <2>1. CASE Running
    <3>1. OnPath /\ loc' = At("wait", Depth + 1)
      BY <2>1, Unfold DEF Match
    <3>2. Shelters(held', "wait", f)
      BY <1>2, <1>3, <3>1, Unfold, CurrentFacts DEF Shelters, Covers, OnPath
    <3>3. Depth + 1 \in 1..Len(stack') /\ stack'[Depth + 1] = f
      BY <1>4, Unfold DEF Top, Depth
    <3> QED  BY <3>1, <3>2, <3>3, WaitsNow DEF Waiting
  <2>2. CASE ~Running
    <3>1. loc' = loc
      BY <2>2 DEF Match
    <3>2. CASE loc.slot \in Waiting
      BY <1>1, <1>3, <3>1, <3>2, PushShape
    <3>3. CASE loc.slot \notin Waiting
      BY <2>2, <3>1, <3>3, Unfold, StillOff
    <3> QED  BY <3>2, <3>3
  <2> QED  BY <2>1, <2>2
<1>6. Flagged'
  BY SameFlags DEF Match
<1> QED  BY <1>4, <1>5, <1>6

\* merged_state has what the case in progress and the earlier ones shelter.
LEMMA MergedFacts ==
    ASSUME IInv, TopIs({"match", "case"})
    PROVE  /\ Depth > 0 /\ Depth \in Nat /\ Top \in Frame /\ Top.kind \in {"match", "case"}
           /\ Merged \in State /\ Top.init \in State
           /\ Running => Top.kind = "case" /\ Covers(held, Merged)
           /\ loc = At("out", Depth) => Covers(held, Merged)
<1>1. Depth > 0 /\ Depth \in Nat /\ Top \in Frame /\ Top.kind \in {"match", "case"}
  BY Unfold, StackFacts DEF TopIs
<1>2. Top.out \in State /\ Top.init \in State /\ Reachable \in State
  BY <1>1, Unfold, CurrentFacts DEF Frame
<1>3. Merged \in State
  BY <1>2, MergeIntoFacts DEF Merged
<1>4. ASSUME Running  PROVE Top.kind = "case" /\ Covers(held, Merged)
  <2>1. Top.kind = "case" /\ Covers(held, Reachable)
    BY <1>1, <1>4, Unfold, CurrentFacts DEF OnPath, TopIs, Covers
  <2> QED  BY <1>2, <2>1, MergeIntoFacts DEF Merged, Covers
<1>5. ASSUME loc = At("out", Depth)  PROVE Covers(held, Merged)
  <2>1. Top.kind = "case" /\ Covers(held, Top.out)
    BY <1>1, <1>5, Unfold DEF At, Waiting, Shelters, Top
  <2> QED  BY <1>2, <2>1, MergeIntoFacts DEF Merged, Covers
<1> QED  BY <1>1, <1>2, <1>3, <1>4, <1>5

\* The previous case is merged, and the next one starts from the initial state.
LEMMA CaseStep ==
    ASSUME IInv, Case
    PROVE  Shape' /\ Where' /\ Flagged'
<1> DEFINE f == [Top EXCEPT !.kind = "case", !.out = Merged]
<1>0. TopIs({"match", "case"})
  BY DEF Case
<1>1. Depth > 0 /\ Top \in Frame /\ Depth \in Nat /\ Merged \in State
  BY <1>0, MergedFacts
<1>2. /\ f \in Frame /\ f.kind = "case" /\ f.out = Merged /\ f.pass = Top.pass
      /\ f.open = Top.open /\ f.init = Top.init /\ f.unreach = Top.unreach
  BY <1>1 DEF Frame, FrameKind
<1>3. stack' = SetTop(f) /\ moved' = Top.init.moved /\ unreachable' = Top.unreach /\ held' = held
  BY DEF Case
<1>4. Shapely(f)
  BY <1>0, <1>1, <1>2, Unfold, MergedFacts DEF Shape, Shapely, Top
<1> HIDE DEF f
<1>5. Shape' /\ Depth' = Depth /\ Top' = f /\ stack'[Depth] = f
  BY <1>1, <1>2, <1>3, <1>4, SetTopShape
<1>6. Where'
  <2>1. CASE Running \/ loc = At("out", Depth)
    <3>1. loc' = At("out", Depth)
      BY <2>1 DEF Case, Running, At
    <3>2. Shelters(held', "out", f)
      BY <1>0, <1>2, <1>3, <2>1, MergedFacts DEF Shelters
    <3> QED  BY <1>1, <1>5, <3>1, <3>2, WaitsNow DEF Waiting, Depth
  <2>2. CASE loc = At("wait", Depth)
    <3>1. Shelters(held, "wait", Top)
      BY <2>2, Unfold DEF Waiting, At, Top
    <3>2. CASE loc' = Run
      <4>1. ~unreachable' /\ held' \subseteq moved'
        BY <1>3, <3>1 DEF Shelters, Covers
      <4> QED  BY <1>2, <1>5, <3>2, <4>1, RunsOn DEF TopIs
    <3>3. CASE loc' = loc
      <4>1. Shelters(held', "wait", f)
        BY <1>2, <1>3, <3>1 DEF Shelters
      <4> QED  BY <1>1, <1>5, <2>2, <3>3, <4>1, WaitsNow DEF Waiting, Depth
    <3> QED  BY <2>2, <3>2, <3>3 DEF Case, Running, At
  <2>3. CASE ~Running /\ loc # At("wait", Depth) /\ loc # At("out", Depth)
    <3>1. loc' = loc
      BY <2>3 DEF Case
    <3>2. CASE loc.slot \in Waiting
      <4>1. loc.at # Depth
        <5>1. loc = At(loc.slot, loc.at)
          BY Unfold DEF TypeOK, At
        <5>2. loc.at = Depth => Shelters(held, loc.slot, Top)
          BY <3>2, Unfold DEF Top
        <5> QED  BY <1>0, <2>3, <3>2, <5>1, <5>2, MergedFacts DEF Shelters, Waiting
      <4> QED  BY <1>1, <1>2, <1>3, <1>4, <3>1, <3>2, <4>1, SetTopShape
    <3>3. CASE loc.slot \notin Waiting
      BY <2>3, <3>1, <3>3, Unfold, StillOff
    <3> QED  BY <3>2, <3>3
  <2> QED  BY <2>1, <2>2, <2>3
<1>7. Flagged'
  BY SameFlags DEF Case
<1> QED  BY <1>5, <1>6, <1>7

\* The merged cases, and the initial state of a match without a default.
LEMMA EndMatchStep ==
    ASSUME IInv, EndMatch
    PROVE  Shape' /\ Where' /\ Flagged'
<1> DEFINE merged == IF Top.open THEN MergeInto(Merged, Top.init) ELSE Merged
<1>0. TopIs({"match", "case"}) /\ Top.kind = "case"
  BY DEF EndMatch, TopIs
<1>1. Depth > 0 /\ Top \in Frame /\ Depth \in Nat /\ Merged \in State /\ Top.init \in State
  BY <1>0, MergedFacts
<1>2. /\ moved' = IF merged.some THEN merged.moved ELSE Top.init.moved
      /\ unreachable' = ~merged.some
      /\ stack' \in {Below, Unshare(Below, Top.init)}
      /\ held' = held
      /\ loc' = IF loc = At("wait", Depth) /\ ~Top.open THEN Off ELSE Resumed
  BY DEF EndMatch
<1>3. /\ Covers(held, Merged) => Covers(held, merged)
      /\ Top.open /\ Covers(held, Top.init) => Covers(held, merged)
  BY <1>1, MergeIntoFacts DEF Covers
<1> HIDE DEF merged
<1>4. Shape' /\ ~TopIs({"match", "cond"})'
  BY <1>1, <1>2, PopShape
<1>5. ASSUME Covers(held, merged), loc' = Run
      PROVE  Where'
  BY <1>2, <1>4, <1>5, RunsOn DEF Covers
<1>6. Where'
  <2>1. CASE Running
    <3>1. loc' = Run
      BY <2>1, <1>1, <1>2, Unfold DEF Resumed, Run, At
    <3> QED  BY <1>0, <1>3, <1>5, <2>1, <3>1, MergedFacts
  <2>2. CASE ~Running /\ loc.at = Depth
    <3>1. Shelters(held, loc.slot, Top) /\ loc.slot \in Waiting
      BY <1>1, <2>2, Unfold DEF Top
    <3>2. loc = At(loc.slot, loc.at)
      BY Unfold DEF TypeOK, At
    <3>3. \/ loc = At("wait", Depth) /\ Covers(held, Top.init)
          \/ loc = At("out", Depth) /\ Covers(held, Merged)
      BY <1>0, <2>2, <3>1, <3>2, MergedFacts DEF Shelters, Waiting
    <3>4. CASE loc = At("wait", Depth) /\ ~Top.open
      <4>1. loc' = Off
        BY <1>2, <3>4
      <4> QED  BY <4>1, StillOff DEF Off, At
    <3>5. CASE ~(loc = At("wait", Depth) /\ ~Top.open)
      <4>1. loc' = Run
        BY <1>1, <1>2, <2>2, <3>5 DEF Resumed
      <4>2. Covers(held, merged)
        BY <1>3, <3>3, <3>5
      <4> QED  BY <1>5, <4>1, <4>2
    <3> QED  BY <3>4, <3>5
  <2>3. CASE ~Running /\ loc.at # Depth
    <3>1. loc' = loc
      BY <1>2, <2>3 DEF Resumed, At
    <3>2. CASE loc.slot \in Waiting
      BY <1>1, <1>2, <2>3, <3>1, <3>2, PopShape
    <3>3. CASE loc.slot \notin Waiting
      BY <2>3, <3>1, <3>3, Unfold, StillOff
    <3> QED  BY <3>2, <3>3
  <2> QED  BY <2>1, <2>2, <2>3
<1>7. Flagged'
  BY SameFlags DEF EndMatch
<1> QED  BY <1>4, <1>6, <1>7

\* check_loop_passes.
LEMMA EnterLoopStep ==
    ASSUME IInv, TypeOK', Loop \/ While
    PROVE  Shape' /\ Where' /\ Flagged'
<1>1. PICK e \in {"loop", "while"}, k \in {"body", "cond"} :
        EnterLoop(e, k) /\ (k = "cond" => e = "while")
  BY DEF Loop, While
<1> DEFINE f == NewFrame(k, NoState, 1, e = "while", pc')
<1>2. moved \subseteq Path /\ unreachable \in BOOLEAN /\ pc' \in Nat \ {0}
  BY Unfold DEF TypeOK
<1>3. f \in Frame /\ Shapely(f)
  BY <1>1, <1>2, StateFacts DEF NewFrame, Frame, FrameKind, Shapely
<1>4. f.kind \in {"cond", "body"} /\ f.pass = 1
  BY DEF NewFrame
<1>5. /\ stack' = Append(stack, f) /\ InStatement /\ unreachable' = FALSE
      /\ UNCHANGED <<moved, held, loc, reported, swallowed, usedMoved>>
  BY <1>1 DEF EnterLoop, Push, InStatement, run
<1> HIDE DEF f
<1>6. Shape' /\ Depth' = Depth + 1 /\ Top' = f
  BY <1>3, <1>5, PushShape
<1>7. Where'
  <2>1. CASE Running
    <3>1. OnPath'
      BY <1>4, <1>5, <1>6, <2>1, Unfold DEF OnPath, TopIs
    <3> QED  BY <1>5, <2>1, <3>1, Unfold, StillRunning
  <2>2. CASE loc.slot \in Waiting
    BY <1>3, <1>5, <2>2, PushShape
  <2>3. CASE ~Running /\ loc.slot \notin Waiting
    BY <1>5, <2>3, Unfold, StillOff
  <2> QED  BY <2>1, <2>2, <2>3
<1> QED  BY <1>5, <1>6, <1>7, SameFlags

\* The condition has been evaluated: the execution runs the body or leaves the loop.
LEMMA DoStep ==
    ASSUME IInv, MergedEdges, Do
    PROVE  Shape' /\ Where' /\ Flagged'
<1> DEFINE f == [Top EXCEPT !.kind = "body"]
<1>1. Depth > 0 /\ Top \in Frame /\ Depth \in Nat /\ Top.kind = "cond"
  BY Unfold, StackFacts DEF Do, TopIs
<1>2. Top.open /\ Top.pass > 0 /\ Top.pass \in 0..2
  BY <1>1, Unfold DEF Shape, Top, Frame
<1>3. /\ f \in Frame /\ f.kind = "body" /\ f.out = Top.out /\ f.pass = Top.pass
      /\ f.open = Top.open /\ f.cont = Top.cont /\ f.next = Top.next
  BY <1>1 DEF Frame, FrameKind
<1>4. stack' = SetTop(f) /\ UNCHANGED <<moved, unreachable, held>>
  BY DEF Do
<1>5. Shapely(f)
  BY <1>2, <1>3 DEF Shapely
<1> HIDE DEF f
<1>6. Shape' /\ Depth' = Depth /\ Top' = f /\ stack'[Depth] = f
  BY <1>1, <1>3, <1>4, <1>5, SetTopShape
<1>7. Where'
  <2>1. CASE Running
    <3>1. OnPath
      BY <2>1, Unfold
    <3>2. CASE loc' = Run
      <4>1. ~unreachable' /\ held' \subseteq moved'
        BY <1>4, <3>1 DEF OnPath
      <4> QED  BY <1>3, <1>6, <3>2, <4>1, RunsOn DEF TopIs
    <3>3. CASE loc' = Off
      BY <3>3, StillOff DEF Off, At
    <3>4. CASE Top.pass # 1 /\ loc' = At("exit", Depth)
      <4>1. Top.pass = 2
        BY <1>2, <3>4
      <4>2. Shelters(held', "exit", f)
        BY <1>1, <1>2, <1>3, <1>4, <3>1, <4>1 DEF Shelters, OnPath, TopIs
      <4> QED  BY <1>1, <1>6, <3>4, <4>2, WaitsNow DEF Waiting, Depth
    <3> QED  BY <2>1, <3>2, <3>3, <3>4 DEF MergedEdges, Do, Along
  <2>2. CASE ~Running
    <3>1. loc' = loc
      BY <2>2 DEF Do
    <3>2. CASE loc.slot \in Waiting /\ loc.at = Depth
      <4>1. Shelters(held, loc.slot, Top) /\ loc = At(loc.slot, Depth)
        BY <3>2, Unfold DEF Top, TypeOK, At
      <4>2. Shelters(held', loc.slot, f)
        BY <1>1, <1>3, <1>4, <4>1 DEF Shelters
      <4> QED  BY <1>1, <1>6, <3>1, <3>2, <4>1, <4>2, WaitsNow DEF Depth
    <3>3. CASE loc.slot \in Waiting /\ loc.at # Depth
      BY <1>1, <1>3, <1>4, <1>5, <3>1, <3>3, SetTopShape
    <3>4. CASE loc.slot \notin Waiting
      BY <2>2, <3>1, <3>4, Unfold, StillOff
    <3> QED  BY <3>2, <3>3, <3>4
  <2> QED  BY <2>1, <2>2
<1>8. Flagged'
  BY SameFlags DEF Do
<1> QED  BY <1>6, <1>7, <1>8

\* A step that only adds to what the frames keep.
LEMMA KeepAllStep ==
    ASSUME IInv, Len(stack') = Depth, \A j \in 1..Depth : Keeps(stack[j], stack'[j]),
           held' = held
    PROVE  /\ Shape'
           /\ loc.slot \in Waiting /\ loc' = loc => Where'
<1>1. Shape'
  BY Unfold DEF Shape, Keeps, Depth
<1>2. ASSUME loc.slot \in Waiting, loc' = loc  PROVE Where'
  BY <1>2, Unfold, StillWaiting DEF Depth
<1> QED  BY <1>1, <1>2

\* The frame of a loop is well formed.
LEMMA LoopFrame ==
    ASSUME IInv, NEW i \in 1..Depth
    PROVE  /\ stack[i] \in Frame
           /\ stack[i].out \in State /\ stack[i].cont \in State
           /\ stack[i].pass > 0 => stack[i].kind \in {"cond", "body"}
<1>1. stack[i] \in Frame
  BY Unfold DEF TypeOK, Depth
<1> QED  BY <1>1, Unfold DEF Frame, Shape

\* The state at a break is merged into the innermost loop.
LEMMA BreakStep ==
    ASSUME IInv, MergedEdges, NEW t \in 1..MaxNest, Break(t)
    PROVE  Shape' /\ Where' /\ Flagged'
<1>1. PICK i \in 1..Depth :
        /\ stack' = [j \in 1..Depth |-> BrokenFrame(j, i, t)]
        /\ loc' = IF ~Running THEN loc
                  ELSE Along((IF i # t THEN {"label"} ELSE {})
                               \cup (IF MoveChecksOnly THEN {"break"} ELSE {}),
                             At("out", t))
  BY DEF Break
<1>2. t \in 1..Depth /\ stack[t].pass > 0 /\ held' = held
  BY DEF Break
<1>3. Current \in State /\ Current.some = TRUE /\ Current.moved = moved
  BY Unfold, CurrentFacts
<1>4. ASSUME NEW j \in 1..Depth
      PROVE  /\ Keeps(stack[j], BrokenFrame(j, i, t))
             /\ j = i /\ ~MoveChecksOnly =>
                  BrokenFrame(j, i, t).out = MergeInto(stack[j].out, Current)
  <2>1. stack[j] \in Frame /\ stack[j].out \in State
    BY LoopFrame
  <2>2. BrokenFrame(j, i, t).out =
          IF j = i /\ ~MoveChecksOnly THEN MergeInto(stack[j].out, Current) ELSE stack[j].out
    BY <2>1 DEF BrokenFrame, Frame
  <2>3. /\ BrokenFrame(j, i, t).kind = stack[j].kind /\ BrokenFrame(j, i, t).pass = stack[j].pass
        /\ BrokenFrame(j, i, t).open = stack[j].open
        /\ BrokenFrame(j, i, t).unreach = stack[j].unreach
        /\ BrokenFrame(j, i, t).next = stack[j].next /\ BrokenFrame(j, i, t).init = stack[j].init
        /\ BrokenFrame(j, i, t).cont = stack[j].cont
    BY <2>1 DEF BrokenFrame, Frame
  <2>4. stack[j].out.some => /\ BrokenFrame(j, i, t).out.some
                             /\ stack[j].out.moved \subseteq BrokenFrame(j, i, t).out.moved
    BY <1>3, <2>1, <2>2, MergeIntoFacts
  <2> QED  BY <2>2, <2>3, <2>4 DEF Keeps
<1>5. Len(stack') = Depth /\ \A j \in 1..Depth : stack'[j] = BrokenFrame(j, i, t)
  BY <1>1, Unfold
<1>6. \A j \in 1..Depth : Keeps(stack[j], stack'[j])
  BY <1>4, <1>5
<1>7. Shape'
  BY <1>2, <1>5, <1>6, KeepAllStep
<1>8. Where'
  <2>1. CASE Running /\ i = t /\ ~MoveChecksOnly
    <3>1. loc' = At("out", t) /\ OnPath
      BY <1>1, <2>1, Unfold DEF MergedEdges, Along
    <3>2. stack'[t].out = MergeInto(stack[t].out, Current) /\ stack'[t].kind = stack[t].kind
      BY <1>2, <1>4, <1>5, <2>1 DEF Keeps
    <3>3. Covers(held', stack'[t].out)
      <4>1. stack[t].out \in State
        BY <1>2, LoopFrame
      <4>2. held' \subseteq moved
        BY <1>2, <3>1 DEF OnPath
      <4>3. LET m == MergeInto(stack[t].out, Current)
            IN  m.some /\ Current.moved \subseteq m.moved
        BY <1>3, <4>1, MergeIntoFacts
      <4> QED  BY <1>3, <3>2, <4>2, <4>3 DEF Covers
    <3>4. Shelters(held', "out", stack'[t])
      BY <1>2, <3>2, <3>3, LoopFrame DEF Shelters
    <3> QED  BY <1>2, <1>5, <3>1, <3>4, WaitsNow DEF Waiting
  <2>2. CASE Running /\ (i # t \/ MoveChecksOnly)
    <3>1. loc' = Off
      BY <1>1, <2>2 DEF MergedEdges, Along
    <3> QED  BY <3>1, StillOff DEF Off, At
  <2>3. CASE ~Running
    <3>1. loc' = loc
      BY <1>1, <2>3
    <3>2. CASE loc.slot \in Waiting
      BY <1>2, <1>5, <1>6, <3>1, <3>2, KeepAllStep
    <3>3. CASE loc.slot \notin Waiting
      BY <2>3, <3>1, <3>3, Unfold, StillOff
    <3> QED  BY <3>2, <3>3
  <2> QED  BY <2>1, <2>2, <2>3
<1>9. Flagged'
  BY SameFlags DEF Break
<1> QED  BY <1>7, <1>8, <1>9

\* The state at a continue is merged into the innermost loop.
LEMMA ContinueStep ==
    ASSUME IInv, MergedEdges, NEW t \in 1..MaxNest, Continue(t)
    PROVE  Shape' /\ Where' /\ Flagged'
<1>1. PICK i \in 1..Depth :
        /\ stack' = [stack EXCEPT ![i].cont = MergeInto(@, Current)]
        /\ loc' = IF ~Running THEN loc
                  ELSE Along(IF i # t THEN {"label"} ELSE {}, At("cont", t))
  BY DEF Continue
<1>2. t \in 1..Depth /\ stack[t].pass > 0 /\ held' = held
  BY DEF Continue
<1>3. Current \in State /\ Current.some = TRUE /\ Current.moved = moved
  BY Unfold, CurrentFacts
<1> DEFINE f == [stack[i] EXCEPT !.cont = MergeInto(@, Current)]
<1>4. stack[i] \in Frame /\ stack[i].cont \in State
  BY LoopFrame
<1>5. f.cont = MergeInto(stack[i].cont, Current) /\ Keeps(stack[i], f)
  <2>1. f.cont = MergeInto(stack[i].cont, Current)
    BY <1>4 DEF Frame
  <2>2. /\ f.kind = stack[i].kind /\ f.pass = stack[i].pass /\ f.open = stack[i].open
        /\ f.unreach = stack[i].unreach /\ f.next = stack[i].next /\ f.init = stack[i].init
        /\ f.out = stack[i].out
    BY <1>4 DEF Frame
  <2>3. stack[i].cont.some => f.cont.some /\ stack[i].cont.moved \subseteq f.cont.moved
    BY <1>3, <1>4, <2>1, MergeIntoFacts
  <2> HIDE DEF f
  <2> QED  BY <2>1, <2>2, <2>3 DEF Keeps
<1>6. stack' = [stack EXCEPT ![i] = f]
  BY <1>1
<1> HIDE DEF f
<1>7. /\ Len(stack') = Depth /\ stack'[i] = f
      /\ \A j \in 1..Depth : Keeps(stack[j], stack'[j])
  <2>1. stack \in Seq(Frame)
    BY Unfold DEF TypeOK
  <2>2. Len(stack') = Depth /\ \A j \in 1..Depth : stack'[j] = IF j = i THEN f ELSE stack[j]
    BY <1>6, <2>1 DEF Depth
  <2> QED  BY <1>5, <2>2, KeepsItself
<1>8. Shape'
  BY <1>2, <1>7, KeepAllStep
<1>9. Where'
  <2>1. CASE Running /\ i = t
    <3>1. loc' = At("cont", t) /\ OnPath
      BY <1>1, <2>1, Unfold DEF MergedEdges, Along
    <3>2. stack'[t].cont = MergeInto(stack[t].cont, Current) /\ stack'[t].kind = stack[t].kind
      BY <1>5, <1>7, <2>1 DEF Keeps
    <3>3. Covers(held', stack'[t].cont)
      <4>1. stack[t].cont \in State
        BY <1>2, LoopFrame
      <4>2. held' \subseteq moved
        BY <1>2, <3>1 DEF OnPath
      <4>3. LET m == MergeInto(stack[t].cont, Current)
            IN  m.some /\ Current.moved \subseteq m.moved
        BY <1>3, <4>1, MergeIntoFacts
      <4> QED  BY <1>3, <3>2, <4>2, <4>3 DEF Covers
    <3>4. Shelters(held', "cont", stack'[t])
      BY <1>2, <3>2, <3>3, LoopFrame DEF Shelters
    <3> QED  BY <1>2, <1>7, <3>1, <3>4, WaitsNow DEF Waiting
  <2>2. CASE Running /\ i # t
    <3>1. loc' = Off
      BY <1>1, <2>2 DEF MergedEdges, Along
    <3> QED  BY <3>1, StillOff DEF Off, At
  <2>3. CASE ~Running
    <3>1. loc' = loc
      BY <1>1, <2>3
    <3>2. CASE loc.slot \in Waiting
      BY <1>2, <1>7, <3>1, <3>2, KeepAllStep
    <3>3. CASE loc.slot \notin Waiting
      BY <2>3, <3>1, <3>3, Unfold, StillOff
    <3> QED  BY <3>2, <3>3
  <2> QED  BY <2>1, <2>2, <2>3
<1>10. Flagged'
  BY SameFlags DEF Continue
<1> QED  BY <1>8, <1>9, <1>10

\* What check_loop_passes computes at the end of a pass, and where the execution can be.
LEMMA AtEndOfBody ==
    ASSUME IInv, TopIs({"body"})
    PROVE  /\ Depth > 0 /\ Depth \in Nat /\ Top \in Frame /\ Top.kind = "body"
           /\ Top.next \in State /\ Top.out \in State
           /\ NextIter \in State /\ InitialAtEnd \in State /\ FinalState \in State
           /\ Running \/ loc = At("cont", Depth) => Covers(held, NextIter)
           /\ loc = At("out", Depth) => Covers(held, FinalState)
           /\ loc = At("exit", Depth) => Top.pass = 2 /\ Covers(held, FinalState)
           /\ loc.slot \in Waiting /\ loc.at = Depth => \E slot \in {"out", "cont", "exit"} :
                                                           loc = At(slot, Depth)
<1>1. Depth > 0 /\ Depth \in Nat /\ Top \in Frame /\ Top.kind = "body"
  BY Unfold, StackFacts DEF TopIs
<1>2. /\ Top.next \in State /\ Top.out \in State /\ Top.cont \in State /\ Top.init \in State
      /\ Reachable \in State /\ Current \in State /\ NoState \in State
  BY <1>1, Unfold, CurrentFacts, StateFacts DEF Frame
<1>3. /\ NextIter \in State /\ InitialAtEnd \in State /\ FinalState \in State
  BY <1>2, MergeIntoFacts DEF NextIter, InitialAtEnd, FinalState
<1>4. ASSUME loc.slot \in Waiting, loc.at = Depth
      PROVE  Shelters(held, loc.slot, Top) /\ loc = At(loc.slot, Depth)
  BY <1>4, Unfold DEF Top, TypeOK, At
<1>5. ASSUME Running  PROVE Covers(held, NextIter)
  <2>1. Covers(held, Reachable)
    BY <1>5, Unfold, CurrentFacts DEF OnPath, Covers
  <2> QED  BY <1>2, <2>1, MergeIntoFacts DEF NextIter, Covers
<1>6. ASSUME loc = At("cont", Depth)  PROVE Covers(held, NextIter)
  <2>1. Covers(held, Top.cont)
    BY <1>4, <1>6 DEF At, Waiting, Shelters
  <2> QED  BY <1>2, <2>1, MergeIntoFacts DEF NextIter, Covers
<1>7. ASSUME loc = At("out", Depth)  PROVE Covers(held, FinalState)
  <2>1. Covers(held, Top.out)
    BY <1>4, <1>7 DEF At, Waiting, Shelters
  <2> QED  BY <1>2, <2>1, MergeIntoFacts DEF FinalState, Covers
<1>8. ASSUME loc = At("exit", Depth)  PROVE Top.pass = 2 /\ Covers(held, FinalState)
  <2>1. Top.pass = 2 /\ Top.open /\ Covers(held, Top.next)
    BY <1>4, <1>8 DEF At, Waiting, Shelters
  <2> QED  BY <1>2, <2>1, MergeIntoFacts DEF FinalState, Covers
<1>9. ASSUME loc.slot \in Waiting, loc.at = Depth
      PROVE  \E slot \in {"out", "cont", "exit"} : loc = At(slot, Depth)
  BY <1>1, <1>4, <1>9 DEF Shelters, Waiting
<1> QED  BY <1>1, <1>2, <1>3, <1>5, <1>6, <1>7, <1>8, <1>9

\* The second pass starts from a state that has what every first iteration moved.
LEMMA SecondPassStep ==
    ASSUME IInv, MergedEdges, SecondPass
    PROVE  Shape' /\ Where' /\ Flagged'
<1> DEFINE kind == IF Top.open THEN "cond" ELSE "body"
           f == [Top EXCEPT !.kind = kind, !.pass = 2, !.next = NextIter,
                            !.init = InitialAtEnd, !.out = NoState, !.cont = NoState]
<1>0. TopIs({"body"}) /\ Top.pass = 1
  BY DEF SecondPass
<1>1. /\ Depth > 0 /\ Top \in Frame /\ Depth \in Nat /\ NextIter \in State
      /\ InitialAtEnd \in State
  BY <1>0, AtEndOfBody
<1>2. kind \in {"cond", "body"} /\ (kind = "cond" => Top.open)
  OBVIOUS
<1>3. /\ stack' = SetTop(f) /\ moved' = NextIter.moved /\ unreachable' = FALSE /\ held' = held
  BY DEF SecondPass
<1>4. loc' = IF loc = At("cont", Depth) THEN Run
             ELSE IF loc = At("out", Depth) THEN Along({"break"}, loc) ELSE loc
  BY DEF SecondPass
<1> HIDE DEF kind
<1>5. f \in Frame /\ f.kind = kind /\ f.pass = 2 /\ f.next = NextIter /\ f.open = Top.open
  <2>1. kind \in FrameKind /\ 2 \in 0..2 /\ NoState \in State
    BY <1>2, StateFacts DEF FrameKind
  <2>2. f \in Frame
    BY <1>1, <2>1 DEF Frame
  <2>3. f.kind = kind /\ f.pass = 2 /\ f.next = NextIter /\ f.open = Top.open
    BY ONLY <1>1 DEF Frame
  <2> QED  BY <2>2, <2>3
<1>6. Shapely(f)
  BY <1>2, <1>5 DEF Shapely
<1> HIDE DEF f
<1>7. Shape' /\ Depth' = Depth /\ Top' = f
  BY <1>1, <1>3, <1>5, <1>6, SetTopShape
<1>8. Where'
  <2>1. CASE Running \/ loc = At("cont", Depth)
    <3>1. loc' = Run
      BY <1>4, <2>1, Unfold DEF Running, At, Run
    <3>2. Covers(held', NextIter)
      BY <1>0, <1>3, <2>1, AtEndOfBody
    <3>3. OnPath'
      BY <1>2, <1>3, <1>5, <1>7, <3>2 DEF OnPath, Covers, TopIs
    <3> QED  BY <3>1, <3>3, StillRunning
  <2>2. CASE loc = At("out", Depth)
    <3>1. loc' = Off
      BY <1>4, <2>2 DEF MergedEdges, Along, At
    <3> QED  BY <3>1, StillOff DEF Off, At
  <2>3. CASE ~Running /\ loc # At("cont", Depth) /\ loc # At("out", Depth)
    <3>1. loc' = loc
      BY <1>4, <2>3
    <3>2. CASE loc.slot \in Waiting
      <4>1. loc.at # Depth
        BY <1>0, <2>3, <3>2, AtEndOfBody
      <4> QED  BY <1>1, <1>3, <1>5, <1>6, <3>1, <3>2, <4>1, SetTopShape
    <3>3. CASE loc.slot \notin Waiting
      BY <2>3, <3>1, <3>3, Unfold, StillOff
    <3> QED  BY <3>2, <3>3
  <2> QED  BY <2>1, <2>2, <2>3
<1>9. Flagged'
  BY SameFlags DEF SecondPass
<1> QED  BY <1>7, <1>8, <1>9

\* The code behind a loop has what every break and the next iteration moved.
LEMMA EndLoopStep ==
    ASSUME IInv, MergedEdges, EndLoop, DeepCovered
    PROVE  Shape' /\ Where' /\ Flagged'
<1>0. TopIs({"body"})
  BY DEF EndLoop
<1>1. /\ Depth > 0 /\ Depth \in Nat /\ InitialAtEnd \in State /\ FinalState \in State
  BY <1>0, AtEndOfBody
<1>2. /\ moved' = IF FinalState.some THEN FinalState.moved ELSE InitialAtEnd.moved
      /\ unreachable' = (~FinalState.some /\ (Top.open => Top.unreach))
      /\ stack' \in {Below, Unshare(Below, InitialAtEnd)}
      /\ held' = held
  BY DEF EndLoop
<1>3. loc' \in IF Running \/ loc = At("cont", Depth)
                THEN {Off, IF Top.open THEN Along({"deep"}, Run) ELSE Off} ELSE {Resumed}
  BY DEF EndLoop
<1>4. Shape' /\ ~TopIs({"match", "cond"})'
  BY <1>1, <1>2, PopShape
<1>5. Where'
  <2>1. CASE Running \/ loc = At("cont", Depth)
    <3>1. CASE loc' = Off
      BY <3>1, StillOff DEF Off, At
    <3>2. CASE loc' # Off
      <4>1. loc' = Run /\ Top.open /\ "deep" \in Edges
        BY <1>3, <2>1, <3>2 DEF Along
      <4>2. Top.pass = 2
        BY <1>0, <2>1, AtEndOfBody DEF EndLoop, Covers
      <4>3. Covers(held, FinalState)
        BY <2>1, <4>1, <4>2 DEF DeepCovered
      <4>4. ~unreachable' /\ held' \subseteq moved'
        BY <1>2, <4>3 DEF Covers
      <4> QED  BY <1>4, <4>1, <4>4, RunsOn
    <3> QED  BY <3>1, <3>2
  <2>2. CASE loc \in {At("out", Depth), At("exit", Depth)}
    <3>1. loc' = Run
      BY <1>1, <1>3, <2>2 DEF Resumed, At, Running
    <3>2. Covers(held, FinalState)
      BY <1>0, <2>2, AtEndOfBody
    <3>3. ~unreachable' /\ held' \subseteq moved'
      BY <1>2, <3>2 DEF Covers
    <3> QED  BY <1>4, <3>1, <3>3, RunsOn
  <2>3. CASE /\ ~Running /\ loc # At("cont", Depth)
             /\ loc \notin {At("out", Depth), At("exit", Depth)}
    <3>1. CASE loc.slot \in Waiting
      <4>1. loc.at # Depth
        BY <1>0, <2>3, <3>1, AtEndOfBody
      <4>2. loc' = loc
        BY <1>3, <2>3, <4>1 DEF Resumed
      <4> QED  BY <1>1, <1>2, <3>1, <4>1, <4>2, PopShape
    <3>2. CASE loc.slot \notin Waiting
      <4>1. loc' = loc
        BY <1>1, <1>3, <2>3, <3>2, Unfold DEF Resumed
      <4> QED  BY <2>3, <3>2, <4>1, Unfold, StillOff
    <3> QED  BY <3>1, <3>2
  <2> QED  BY <2>1, <2>2, <2>3
<1>6. Flagged'
  BY SameFlags DEF EndLoop
<1> QED  BY <1>4, <1>5, <1>6

\* The induction.
LEMMA InvStep == MergedEdges /\ DeepCovered /\ IInv /\ [Next]_vars => IInv'
<1> SUFFICES ASSUME MergedEdges, DeepCovered, IInv, [Next]_vars  PROVE Shape' /\ Where' /\ Flagged'
  BY TypeStep DEF IInv
<1>1. TypeOK'
  BY TypeStep DEF IInv
<1>2. ASSUME NEW p \in Path, Use(p) \/ Move(p) \/ Assign(p)  PROVE Shape' /\ Where' /\ Flagged'
  BY <1>2, UseStep, MoveStep, AssignStep
<1>3. ASSUME If \/ Else \/ EndIf  PROVE Shape' /\ Where' /\ Flagged'
  BY <1>3, IfStep, ElseStep, EndIfStep
<1>4. ASSUME (\E d \in BOOLEAN : Match(d)) \/ Case \/ EndMatch
      PROVE  Shape' /\ Where' /\ Flagged'
  BY <1>4, MatchStep, CaseStep, EndMatchStep
<1>5. ASSUME Loop \/ While \/ Do \/ SecondPass \/ EndLoop  PROVE Shape' /\ Where' /\ Flagged'
  BY <1>1, <1>5, EnterLoopStep, DoStep, SecondPassStep, EndLoopStep
<1>6. ASSUME NEW t \in 1..MaxNest, Break(t) \/ Continue(t)  PROVE Shape' /\ Where' /\ Flagged'
  BY <1>6, BreakStep, ContinueStep
<1>7. ASSUME Return \/ Goto \/ Label \/ Function \/ Test  PROVE Shape' /\ Where' /\ Flagged'
  BY <1>7, JumpStep, UnitStep
<1>8. ASSUME UNCHANGED vars  PROVE Shape' /\ Where' /\ Flagged'
  BY <1>8 DEF vars, checker, program, run, IInv, Shape, Where, OnPath, TopIs, Top, Depth, Flagged
<1> QED  BY <1>2, <1>3, <1>4, <1>5, <1>6, <1>7, <1>8 DEF Next

\* IInv holds initially.
LEMMA InvInit == TypeOK /\ Init => IInv
<1> SUFFICES ASSUME TypeOK, Init  PROVE Shape /\ Where /\ Flagged
  BY DEF IInv
<1>1. Depth = 0 /\ loc = Run /\ ~unreachable /\ held = {} /\ ~usedMoved
  BY DEF Init, Depth
<1> QED  BY <1>1 DEF Shape, Where, OnPath, TopIs, Waiting, Run, At, Flagged

\* IInv is stronger than Covered.
LEMMA InvImpliesCovered == IInv => Covered
<1> SUFFICES ASSUME IInv  PROVE Covered
  OBVIOUS
<1>1. loc.slot = "run" => CoveredBy(Reachable)
  BY Unfold, CurrentFacts DEF Running, OnPath, CoveredBy
<1>2. loc.slot \in Waiting => Shelters(held, loc.slot, stack[loc.at])
  BY Unfold
<1> QED  BY <1>1, <1>2 DEF Covered, CoveredBy, Waiting, Shelters, Covers

\* On every execution along the edges that the checker merges states over, whatever has been
\* moved away is MOVED in the state the checker has, or keeps for the place where the
\* execution goes on: move_state_merge, move_state_merge_into and check_loop_passes lose
\* nothing, for any number of places and parts, any nesting and any program size.
THEOREM NoMoveLost == ASSUME Edges = {}  PROVE Spec => []Covered
<1>1. Spec => []TypeOK
  BY TypeCorrect
<1>2. TypeOK /\ Init => IInv
  BY InvInit
<1>3. IInv /\ [Next]_vars => IInv'
  BY InvStep DEF MergedEdges, DeepCovered
<1>4. IInv => Covered
  BY InvImpliesCovered
<1> QED  BY <1>1, <1>2, <1>3, <1>4, PTL DEF Spec

\* A program that uses a moved value on such an execution had that use reported, or
\* suppressed by the second pass of a loop.
THEOREM UseAfterMoveFlagged ==
    ASSUME Edges = {}  PROVE Spec => [](usedMoved => reported \/ swallowed)
<1>1. Spec => []TypeOK
  BY TypeCorrect
<1>2. TypeOK /\ Init => IInv
  BY InvInit
<1>3. IInv /\ [Next]_vars => IInv'
  BY InvStep DEF MergedEdges, DeepCovered
<1>4. IInv => (usedMoved => reported \/ swallowed)
  BY DEF IInv, Flagged
<1> QED  BY <1>1, <1>2, <1>3, <1>4, PTL DEF Spec

-----------------------------------------------------------------------------
(* Two passes over one body.  A pass is the list of the states that the     *)
(* checker went through in it, and Does(b, e, c, d) says that the event e makes *)
(* of the state c the state d.                                              *)

Config == [moved : SUBSET Path, unreachable : BOOLEAN, stack : Seq(Frame), pc : Nat \ {0}]
Now == [moved |-> moved, unreachable |-> unreachable, stack |-> stack, pc |-> pc]

Height(c) == Len(c.stack)
Crest(c) == c.stack[Height(c)]
CrestIs(c, kinds) == Height(c) > 0 /\ Crest(c).kind \in kinds
HandedOver(c) == IF c.unreachable THEN NoState ELSE Clone(c.moved)
Popped(c) == SubSeq(c.stack, 1, Height(c) - 1)
Nearest(c, i) == /\ i \in 1..Height(c) /\ c.stack[i].pass > 0
                 /\ \A j \in i+1..Height(c) : c.stack[j].pass = 0
Quiet(b, c) == b \/ \E i \in 1..Height(c) : c.stack[i].pass = 2

\* Events that leave the frames alone.
Plain == {"use", "move", "assign", "return", "goto", "label"}
DoesPlain(e, c, d) ==
    /\ d.stack = c.stack /\ d.pc = c.pc + 1
    /\ d.moved = IF e[1] = "move" THEN c.moved \cup {e[2]}
                 ELSE IF e[1] = "assign" /\ Owner[e[2]] = {e[2]} THEN c.moved \ {e[2]} ELSE c.moved
    /\ d.unreachable = (c.unreachable \/ e[1] \in {"return", "goto"})

\* Statements that begin.
Opening == {"if", "match", "loop", "while"}
Opened(e, c) ==
    [kind |-> IF e[1] = "if" THEN "then" ELSE IF e[1] = "match" THEN "match"
              ELSE IF e[1] = "loop" THEN "body" ELSE "cond",
     init |-> IF e[1] \in {"if", "match"} THEN Clone(c.moved) ELSE NoState,
     unreach |-> c.unreachable, out |-> NoState, cont |-> NoState, next |-> NoState,
     start |-> c.moved, pass |-> IF e[1] \in {"if", "match"} THEN 0 ELSE 1,
     open |-> IF e[1] = "match" THEN e[2] ELSE e[1] = "while", broken |-> FALSE,
     from |-> IF e[1] \in {"if", "match"} THEN 1 ELSE c.pc + 1]
DoesOpen(e, c, d) ==
    /\ d.moved = c.moved /\ d.pc = c.pc + 1
    /\ d.unreachable = (c.unreachable /\ e[1] \in {"if", "match"})
    /\ d.stack = Append(c.stack, Opened(e, c))

DoesElse(c, d) ==
    /\ CrestIs(c, {"then"}) /\ d.pc = c.pc + 1
    /\ d.moved = Crest(c).init.moved /\ d.unreachable = Crest(c).unreach
    /\ d.stack = [c.stack EXCEPT ![Height(c)] =
                     [Crest(c) EXCEPT !.kind = "else", !.out = HandedOver(c)]]

MergedBy(c) == IF Crest(c).kind = "case" THEN MergeInto(Crest(c).out, HandedOver(c)) ELSE Crest(c).out
DoesCase(c, d) ==
    /\ CrestIs(c, {"match", "case"}) /\ d.pc = c.pc + 1
    /\ d.moved = Crest(c).init.moved /\ d.unreachable = Crest(c).unreach
    /\ d.stack = [c.stack EXCEPT ![Height(c)] =
                     [Crest(c) EXCEPT !.kind = "case", !.out = MergedBy(c)]]

DoesDo(c, d) ==
    /\ CrestIs(c, {"cond"}) /\ d.pc = c.pc + 1
    /\ d.moved = c.moved /\ d.unreachable = c.unreachable
    /\ d.stack = [c.stack EXCEPT ![Height(c)] = [Crest(c) EXCEPT !.kind = "body"]]

ThenOf(c) == IF Crest(c).kind = "then" THEN HandedOver(c) ELSE Crest(c).out
ElseOf(c) == IF Crest(c).kind = "else" THEN HandedOver(c)
             ELSE IF Crest(c).unreach THEN NoState ELSE Crest(c).init
DoesEndIf(c, d) ==
    /\ CrestIs(c, {"then", "else"}) /\ d.pc = c.pc + 1
    /\ d.moved = Merge(Crest(c).init.moved, ThenOf(c), ElseOf(c))
    /\ d.unreachable = (~ThenOf(c).some /\ ~ElseOf(c).some)
    /\ d.stack = Popped(c)

AllCases(c) == IF Crest(c).open THEN MergeInto(MergedBy(c), Crest(c).init) ELSE MergedBy(c)
DoesEndMatch(c, d) ==
    /\ CrestIs(c, {"case"}) /\ d.pc = c.pc + 1
    /\ d.moved = IF AllCases(c).some THEN AllCases(c).moved ELSE Crest(c).init.moved
    /\ d.unreachable = ~AllCases(c).some
    /\ d.stack = IF AllCases(c).some THEN Unshare(Popped(c), Crest(c).init) ELSE Popped(c)

Broken(s, i, t, quiet, current) ==
    [j \in 1..Len(s) |->
        [s[j] EXCEPT !.out = IF j = i /\ ~quiet THEN MergeInto(@, current) ELSE @,
                     !.broken = @ \/ j = t]]
DoesBreak(b, t, c, d) ==
    /\ d.moved = c.moved /\ d.unreachable = TRUE /\ d.pc = c.pc + 1
    /\ \E i \in 1..Height(c) :
        Nearest(c, i) /\ d.stack = Broken(c.stack, i, t, Quiet(b, c), Clone(c.moved))

DoesContinue(c, d) ==
    /\ d.moved = c.moved /\ d.unreachable = TRUE /\ d.pc = c.pc + 1
    /\ \E i \in 1..Height(c) :
        /\ Nearest(c, i)
        /\ d.stack = [c.stack EXCEPT ![i].cont = MergeInto(@, Clone(c.moved))]

EndOf(c) == MergeInto(HandedOver(c), Crest(c).cont)
InitialOf(c) == IF Crest(c).init.some THEN Crest(c).init ELSE Clone(c.moved)
Again(c) == CrestIs(c, {"body"}) /\ Crest(c).pass = 1 /\ EndOf(c).some
AgainFrame(c) == [Crest(c) EXCEPT !.kind = IF Crest(c).open THEN "cond" ELSE "body",
                                  !.pass = 2, !.next = EndOf(c), !.init = InitialOf(c),
                                  !.out = NoState, !.cont = NoState]
DoesAgain(c, d) ==
    /\ d.pc = Crest(c).from /\ d.moved = EndOf(c).moved /\ d.unreachable = FALSE
    /\ d.stack = [c.stack EXCEPT ![Height(c)] = AgainFrame(c)]

FinalOf(c) == MergeInto(IF Crest(c).open THEN Crest(c).next ELSE NoState, Crest(c).out)
DoesLeave(c, d) ==
    /\ CrestIs(c, {"body"}) /\ (Crest(c).pass = 2 \/ ~EndOf(c).some) /\ d.pc = c.pc + 1
    /\ d.moved = IF FinalOf(c).some THEN FinalOf(c).moved ELSE InitialOf(c).moved
    /\ d.unreachable = (~FinalOf(c).some /\ (Crest(c).open => Crest(c).unreach))
    /\ d.stack = IF FinalOf(c).some THEN Unshare(Popped(c), InitialOf(c)) ELSE Popped(c)

Does(b, e, c, d) ==
    /\ e[1] \in Plain => DoesPlain(e, c, d)
    /\ e[1] \in Opening => DoesOpen(e, c, d)
    /\ e[1] = "else" => DoesElse(c, d)
    /\ e[1] = "case" => DoesCase(c, d)
    /\ e[1] = "do" => DoesDo(c, d)
    /\ e[1] = "endif" => DoesEndIf(c, d)
    /\ e[1] = "endmatch" => DoesEndMatch(c, d)
    /\ e[1] = "break" => DoesBreak(b, e[2], c, d)
    /\ e[1] = "continue" => DoesContinue(c, d)
    /\ e[1] = "endloop" => (Again(c) /\ DoesAgain(c, d)) \/ (~Again(c) /\ DoesLeave(c, d))
    /\ e[1] \notin {"fn", "test"}

\* The log is read or grows.
LogSound == /\ pc <= Len(log) + 1
            /\ \A i \in 1..Depth : stack[i].pass > 0 => stack[i].from <= Len(log) + 1

\* A step in a loop that is not left: what it makes of the checker's state.
Tells(e) == /\ Len(log') >= Len(log) /\ \A k \in 1..Len(log) : log'[k] = log[k]
            /\ pc <= Len(log') /\ log'[pc] = e
            /\ Does(movesOnly, e, Now, Now')
            /\ e[1] \in {"use", "move"} => e[2] \in Path /\ CheckUse(e[2])
            /\ e[1] \notin {"use", "move"} => UNCHANGED <<reported, swallowed>>

\* An event is read from the log, or put at its end.
LEMMA EventIsLogged ==
    ASSUME TypeOK, LogSound, InLoop, NEW e \in Event, Read(e), log' = Logged(e)
    PROVE  /\ Len(log') >= Len(log) /\ \A k \in 1..Len(log) : log'[k] = log[k]
           /\ pc <= Len(log') /\ log'[pc] = e
<1>1. log \in Seq(Event) /\ pc \in Nat \ {0} /\ pc <= Len(log) + 1
  BY DEF TypeOK, LogSound
<1>2. CASE pc > Len(log)
  <2>1. log' = Append(log, e) /\ pc = Len(log) + 1
    BY <1>1, <1>2 DEF Logged
  <2> QED
    BY <1>1, <2>1, AppendProperties
<1>3. CASE pc <= Len(log)
  <2>1. log' = log /\ log[pc] = e
    BY <1>1, <1>3 DEF Logged, Read
  <2> QED
    BY <1>1, <1>3, <2>1
<1> QED
  BY <1>1, <1>2, <1>3

\* The parts of Does in terms of the variables.
LEMMA NowIs ==
    /\ Now.moved = moved /\ Now.unreachable = unreachable /\ Now.stack = stack /\ Now.pc = pc
    /\ Height(Now) = Depth /\ Crest(Now) = Top /\ HandedOver(Now) = Reachable
    /\ Popped(Now) = Below /\ Clone(Now.moved) = Current
    /\ \A kinds : CrestIs(Now, kinds) = TopIs(kinds)
    /\ \A i : Nearest(Now, i) = Innermost(i)
    /\ Quiet(movesOnly, Now) = MoveChecksOnly
BY DEF Now, Height, Crest, HandedOver, Reachable, Current, Popped, Below, CrestIs, TopIs, Nearest,
       Innermost, Quiet, MoveChecksOnly, Depth, Top

\* The next state of the checker, part by part.
LEMMA NowIsNext ==
    /\ Now'.moved = moved' /\ Now'.unreachable = unreachable' /\ Now'.stack = stack' /\ Now'.pc = pc'
BY DEF Now

\* A loop that stays open.
LEMMA StepTells ==
    ASSUME TypeOK, LogSound, Next, NEW i \in 1..Depth, i <= Depth', stack[i].pass > 0
    PROVE  \E e \in Event : Tells(e)
<1>0. /\ InLoop /\ Depth \in Nat
      /\ \A j \in 1..MaxNest : j \in Nat
  BY StackFacts, BoundAssumption DEF InLoop
<1>t. ASSUME NEW e \in Event, Step(e)
      PROVE  /\ Len(log') >= Len(log) /\ \A k \in 1..Len(log) : log'[k] = log[k]
             /\ pc <= Len(log') /\ log'[pc] = e /\ pc' = pc + 1
  BY <1>0, <1>t, EventIsLogged DEF Step
<1>u. unreachable \in BOOLEAN
  BY DEF TypeOK
<1> USE NowIs, NowIsNext, EventFacts
<1>1. ASSUME NEW p \in Path, Use(p) PROVE Tells(<<"use", p>>)
  <2>1. DoesPlain(<<"use", p>>, Now, Now')
    BY <1>1, <1>t, <1>u DEF Use, DoesPlain
  <2> QED
    BY <1>1, <1>t, <2>1 DEF Use, Tells, Does, Plain, Opening
<1>2. ASSUME NEW p \in Path, Move(p) PROVE Tells(<<"move", p>>)
  <2>1. DoesPlain(<<"move", p>>, Now, Now')
    BY <1>2, <1>t, <1>u DEF Move, DoesPlain
  <2> QED
    BY <1>2, <1>t, <2>1 DEF Move, Tells, Does, Plain, Opening
<1>3. ASSUME NEW p \in Path, Assign(p) PROVE Tells(<<"assign", p>>)
  <2>1. DoesPlain(<<"assign", p>>, Now, Now')
    BY <1>3, <1>t, <1>u DEF Assign, DoesPlain
  <2> QED
    BY <1>3, <1>t, <2>1 DEF Assign, Tells, Does, Plain, Opening
<1>4. ASSUME If PROVE Tells(<<"if">>)
  <2>1. DoesOpen(<<"if">>, Now, Now')
    BY <1>4, <1>t, <1>u DEF If, DoesOpen, Opened, Push, NewFrame
  <2> QED
    BY <1>4, <1>t, <2>1 DEF If, Tells, Does, Plain, Opening
<1>5. ASSUME Else PROVE Tells(<<"else">>)
  <2>1. DoesElse(Now, Now')
    BY <1>5, <1>t DEF Else, DoesElse, SetTop
  <2> QED
    BY <1>5, <1>t, <2>1 DEF Else, Tells, Does, Plain, Opening
<1>6. ASSUME EndIf PROVE Tells(<<"endif">>)
  <2>1. DoesEndIf(Now, Now')
    BY <1>6, <1>t DEF EndIf, DoesEndIf, ThenOf, ElseOf, AfterThen, AfterElse
  <2> QED
    BY <1>6, <1>t, <2>1 DEF EndIf, Tells, Does, Plain, Opening
<1>7. ASSUME NEW b \in BOOLEAN, Match(b) PROVE Tells(<<"match", b>>)
  <2>1. DoesOpen(<<"match", b>>, Now, Now')
    BY <1>7, <1>t, <1>u DEF Match, DoesOpen, Opened, Push, NewFrame
  <2> QED
    BY <1>7, <1>t, <2>1 DEF Match, Tells, Does, Plain, Opening
<1>8. ASSUME Case PROVE Tells(<<"case">>)
  <2>1. DoesCase(Now, Now')
    BY <1>8, <1>t DEF Case, DoesCase, SetTop, MergedBy, Merged
  <2> QED
    BY <1>8, <1>t, <2>1 DEF Case, Tells, Does, Plain, Opening
<1>9. ASSUME EndMatch PROVE Tells(<<"endmatch">>)
  <2>1. DoesEndMatch(Now, Now')
    BY <1>9, <1>t DEF EndMatch, DoesEndMatch, AllCases, MergedBy, Merged
  <2> QED
    BY <1>9, <1>t, <2>1 DEF EndMatch, Tells, Does, Plain, Opening
<1>10. ASSUME Loop PROVE Tells(<<"loop">>)
  <2>1. DoesOpen(<<"loop">>, Now, Now')
    BY <1>10, <1>t DEF Loop, EnterLoop, DoesOpen, Opened, Push, NewFrame
  <2> QED
    BY <1>10, <1>t, <2>1 DEF Loop, EnterLoop, Tells, Does, Plain, Opening
<1>11. ASSUME While PROVE Tells(<<"while">>)
  <2>1. DoesOpen(<<"while">>, Now, Now')
    BY <1>11, <1>t DEF While, EnterLoop, DoesOpen, Opened, Push, NewFrame
  <2> QED
    BY <1>11, <1>t, <2>1 DEF While, EnterLoop, Tells, Does, Plain, Opening
<1>12. ASSUME Do PROVE Tells(<<"do">>)
  <2>1. DoesDo(Now, Now')
    BY <1>12, <1>t DEF Do, DoesDo, SetTop
  <2> QED
    BY <1>12, <1>t, <2>1 DEF Do, Tells, Does, Plain, Opening
<1>13. ASSUME NEW t \in 1..MaxNest, Break(t) PROVE Tells(<<"break", t>>)
  <2>1. DoesBreak(movesOnly, t, Now, Now')
    <3>1. PICK j \in 1..Depth : Innermost(j) /\ stack' = [k \in 1..Depth |-> BrokenFrame(k, j, t)]
      BY <1>13 DEF Break
    <3>2. stack' = Broken(stack, j, t, MoveChecksOnly, Current)
      BY ONLY <3>1 DEF BrokenFrame, Broken, Depth
    <3>3. unreachable' = TRUE /\ moved' = moved /\ pc' = pc + 1
      BY <1>0, <1>13, <1>t DEF Break
    <3>4. /\ Height(Now) = Depth /\ Nearest(Now, j) /\ Now.stack = stack
          /\ Quiet(movesOnly, Now) = MoveChecksOnly /\ Clone(Now.moved) = Current
      BY <3>1
    <3> QED
      BY <3>2, <3>3, <3>4 DEF DoesBreak
  <2> QED
    BY <1>0, <1>13, <1>t, <2>1 DEF Break, Tells, Does, Plain, Opening
<1>14. ASSUME NEW t \in 1..MaxNest, Continue(t) PROVE Tells(<<"continue", t>>)
  <2>1. DoesContinue(Now, Now')
    BY <1>0, <1>14, <1>t DEF Continue, DoesContinue
  <2> QED
    BY <1>0, <1>14, <1>t, <2>1 DEF Continue, Tells, Does, Plain, Opening
<1>15. ASSUME SecondPass PROVE Tells(<<"endloop">>)
  <2>1. Again(Now) /\ DoesAgain(Now, Now')
    BY <1>15 DEF SecondPass, Again, DoesAgain, AgainFrame, EndOf, NextIter, InitialOf, InitialAtEnd, SetTop
  <2>2. Len(log') >= Len(log) /\ (\A k \in 1..Len(log) : log'[k] = log[k]) /\ pc <= Len(log')
        /\ log'[pc] = <<"endloop">>
    BY <1>0, <1>15, EventIsLogged DEF SecondPass
  <2> QED
    BY <1>15, <2>1, <2>2 DEF SecondPass, Tells, Does, Plain, Opening
<1>16. ASSUME EndLoop PROVE Tells(<<"endloop">>)
  <2>1. i \in 1..Depth-1
    <3>1. Depth > 0 /\ Len(Below) = Depth - 1 /\ Below \in Seq(Frame)
      BY <1>16, StackFacts DEF EndLoop, TopIs
    <3>2. Depth' = Depth - 1
      <4>1. InitialAtEnd \in State
        BY <3>1, StackFacts, CurrentFacts DEF InitialAtEnd, Frame
      <4>2. stack' \in {Below, Unshare(Below, InitialAtEnd)}
        BY <1>16 DEF EndLoop
      <4> QED
        BY <3>1, <4>1, <4>2, UnshareFacts DEF Depth
    <3> QED
      BY <1>0, <3>2
  <2>2. log' = Logged(<<"endloop">>) /\ pc' = pc + 1
    BY <1>16, <2>1 DEF EndLoop
  <2>3. Len(log') >= Len(log) /\ (\A k \in 1..Len(log) : log'[k] = log[k]) /\ pc <= Len(log')
        /\ log'[pc] = <<"endloop">>
    BY <1>0, <1>16, <2>2, EventIsLogged DEF EndLoop
  <2>4. ~Again(Now)
    BY <1>16 DEF EndLoop, Again, EndOf, NextIter
  <2>5. DoesLeave(Now, Now')
    BY <1>16, <2>2 DEF EndLoop, DoesLeave, EndOf, NextIter, InitialOf, InitialAtEnd, FinalOf, FinalState
  <2> QED
    BY <1>16, <2>3, <2>4, <2>5 DEF EndLoop, Tells, Does, Plain, Opening
<1>17. ASSUME Return PROVE Tells(<<"return">>)
  <2>1. DoesPlain(<<"return">>, Now, Now')
    BY <1>17, <1>t, <1>u DEF Return, DoesPlain
  <2> QED
    BY <1>17, <1>t, <2>1 DEF Return, Tells, Does, Plain, Opening
<1>18. ASSUME Goto PROVE Tells(<<"goto">>)
  <2>1. DoesPlain(<<"goto">>, Now, Now')
    BY <1>18, <1>t, <1>u DEF Goto, DoesPlain
  <2> QED
    BY <1>18, <1>t, <2>1 DEF Goto, Tells, Does, Plain, Opening
<1>19. ASSUME Label PROVE Tells(<<"label">>)
  <2>1. DoesPlain(<<"label">>, Now, Now')
    BY <1>19, <1>t DEF Label, checker, DoesPlain, TypeOK
  <2> QED
    BY <1>19, <1>t, <2>1 DEF Label, checker, Tells, Does, Plain, Opening
<1>20. ~Function /\ ~Test
  BY DEF Function, Test, NextUnit
<1> HIDE DEF Tells
<1>21. (\E p \in Path : Use(p) \/ Move(p) \/ Assign(p)) => \E e \in Event : Tells(e)
  BY <1>1, <1>2, <1>3
<1>22. (\E b \in BOOLEAN : Match(b)) => \E e \in Event : Tells(e)
  BY <1>7
<1>23. (\E t \in 1..MaxNest : Break(t) \/ Continue(t)) => \E e \in Event : Tells(e)
  BY <1>0, <1>13, <1>14
<1>24. \A e : e \in {"if", "else", "endif", "case", "endmatch", "loop", "while", "do", "endloop",
                     "return", "goto", "label"} => <<e>> \in Event
  OBVIOUS
<1>25. If \/ Else \/ EndIf \/ Case \/ EndMatch \/ Loop \/ While \/ Do \/ SecondPass \/ EndLoop
         \/ Return \/ Goto \/ Label => \E e \in Event : Tells(e)
  BY <1>24, <1>4, <1>5, <1>6, <1>8, <1>9, <1>10, <1>11, <1>12, <1>15, <1>16, <1>17, <1>18, <1>19
<1> QED
  BY <1>20, <1>21, <1>22, <1>23, <1>25 DEF Next

\* A configuration and its frames.
LEMMA ConfigFacts ==
    ASSUME NEW c \in Config
    PROVE  /\ c.stack \in Seq(Frame) /\ Height(c) \in Nat /\ c.pc \in Nat \ {0}
           /\ c.moved \subseteq Path /\ c.unreachable \in BOOLEAN
           /\ \A i \in 1..Height(c) : c.stack[i] \in Frame
           /\ Height(c) > 0 => Crest(c) \in Frame
           /\ Clone(c.moved) \in State /\ HandedOver(c) \in State
           /\ HandedOver(c).some = ~c.unreachable
           /\ ~c.unreachable => HandedOver(c).moved = c.moved
BY StateFacts DEF Config, Height, Crest, HandedOver

\* What a frame is made of.
LEMMA FrameParts ==
    ASSUME NEW f \in Frame
    PROVE  /\ f.kind \in FrameKind /\ f.init \in State /\ f.unreach \in BOOLEAN /\ f.out \in State
           /\ f.cont \in State /\ f.next \in State /\ f.start \subseteq Path /\ f.pass \in 0..2
           /\ f.open \in BOOLEAN /\ f.broken \in BOOLEAN /\ f.from \in Nat \ {0}
           /\ f.init.some \in BOOLEAN /\ f.out.some \in BOOLEAN /\ f.cont.some \in BOOLEAN
           /\ f.next.some \in BOOLEAN
BY StateFacts DEF Frame

\* Frames that differ in what a loop has for its initial state only.
SharedFrame(f, g) ==
    /\ f.kind = g.kind /\ f.unreach = g.unreach /\ f.pass = g.pass /\ f.open = g.open
    /\ f.out = g.out /\ f.cont = g.cont /\ f.next = g.next /\ f.start = g.start /\ f.from = g.from

\* Unshare touches the initial state of the loop around, and that only when it had none.
LEMMA UnshareShares ==
    ASSUME NEW s \in Seq(Frame), NEW v \in State
    PROVE  /\ Unshare(s, v) \in Seq(Frame) /\ Len(Unshare(s, v)) = Len(s)
           /\ \A i \in 1..Len(s) :
                 /\ SharedFrame(Unshare(s, v)[i], s[i])
                 /\ Unshare(s, v)[i].init =
                      IF i = Len(s) /\ s[i].pass = 1 /\ ~s[i].init.some THEN v ELSE s[i].init
<1>1. CASE Len(s) > 0 /\ s[Len(s)].pass = 1 /\ ~s[Len(s)].init.some
  <2> DEFINE f == [s[Len(s)] EXCEPT !.init = v]
  <2>1. Len(s) \in 1..Len(s) /\ s[Len(s)] \in Frame
    BY <1>1
  <2>2. f \in Frame /\ f.init = v
    BY <2>1 DEF Frame
  <2>3. SharedFrame(f, s[Len(s)])
    BY <1>1, <2>1 DEF Frame, SharedFrame
  <2>4. Unshare(s, v) = [s EXCEPT ![Len(s)] = f]
    BY <1>1 DEF Unshare
  <2> HIDE DEF f
  <2>5. /\ [s EXCEPT ![Len(s)] = f] \in Seq(Frame)
        /\ Len([s EXCEPT ![Len(s)] = f]) = Len(s)
        /\ \A j \in 1 .. Len(s) : [s EXCEPT ![Len(s)] = f][j] = IF j = Len(s) THEN f ELSE s[j]
    BY <2>1, <2>2, ExceptSeq
  <2>6. \A g : SharedFrame(g, g)
    BY DEF SharedFrame
  <2> QED  BY <1>1, <2>2, <2>3, <2>4, <2>5, <2>6
<1>2. CASE ~(Len(s) > 0 /\ s[Len(s)].pass = 1 /\ ~s[Len(s)].init.some)
  BY <1>2 DEF Unshare, SharedFrame
<1> QED  BY <1>1, <1>2

\* The frame on top is replaced.
Raises(c, d, f) == /\ Height(c) > 0 /\ Height(d) = Height(c) /\ d.stack[Height(c)] = f
                   /\ \A i \in 1..Height(c)-1 : d.stack[i] = c.stack[i]

\* What replacing the frame on top leaves.
LEMMA ReplacedFrames ==
    ASSUME NEW c \in Config, Height(c) > 0, NEW d, NEW f \in Frame,
           d.stack = [c.stack EXCEPT ![Height(c)] = f]
    PROVE  Raises(c, d, f)
<1>1. c.stack \in Seq(Frame) /\ Height(c) \in 1..Len(c.stack)
  BY ConfigFacts DEF Height
<1>2. /\ Len(d.stack) = Len(c.stack)
      /\ \A j \in 1..Len(c.stack) : d.stack[j] = IF j = Height(c) THEN f ELSE c.stack[j]
  BY <1>1, ExceptSeq
<1> QED
  BY <1>1, <1>2 DEF Raises, Height

\* The frame on top is popped; the loop below it may get its initial state v.
Drops(c, d, v, shared) ==
    /\ Height(c) > 0 /\ Height(d) = Height(c) - 1
    /\ \A i \in 1..Height(c)-1 :
          /\ SharedFrame(d.stack[i], c.stack[i])
          /\ d.stack[i].init = IF shared /\ i = Height(c) - 1 /\ c.stack[i].pass = 1
                                  /\ ~c.stack[i].init.some
                               THEN v ELSE c.stack[i].init

\* What popping the frame on top leaves.
LEMMA PoppedFrames ==
    ASSUME NEW c \in Config, Height(c) > 0, NEW d, NEW v \in State, NEW shared \in BOOLEAN,
           d.stack = IF shared THEN Unshare(Popped(c), v) ELSE Popped(c)
    PROVE  Drops(c, d, v, shared)
<1> DEFINE n == Height(c) - 1
           b == SubSeq(c.stack, 1, n)
<1>1. n \in Nat /\ \A i \in 1..n : c.stack[i] \in Frame
  BY ConfigFacts
<1> HIDE DEF n
<1>2. /\ b \in Seq(Frame)
      /\ Len(b) = IF 1 <= n THEN n-1+1 ELSE 0
      /\ \A i \in 1 .. n-1+1 : b[i] = c.stack[1+i-1]
  BY <1>1, SubSeqProperties
<1> HIDE DEF b
<1>3. b \in Seq(Frame) /\ Len(b) = n /\ \A i \in 1..n : b[i] = c.stack[i]
  BY <1>1, <1>2
<1>4. Popped(c) = b
  BY DEF Popped, b, n
<1>5. Height(d) = n
  BY <1>3, <1>4, UnshareShares DEF Height
<1>6. CASE shared
  BY <1>3, <1>4, <1>5, <1>6, UnshareShares DEF Drops, n
<1>7. CASE ~shared
  BY <1>3, <1>4, <1>5, <1>7 DEF Drops, SharedFrame, n
<1> QED
  BY <1>6, <1>7

\* A frame is pushed.
Pushes(c, d, f) == /\ Height(d) = Height(c) + 1 /\ d.stack[Height(c) + 1] = f
                   /\ \A i \in 1..Height(c) : d.stack[i] = c.stack[i]

\* What pushing a frame leaves.
LEMMA PushedFrames ==
    ASSUME NEW c \in Config, NEW d, NEW f \in Frame, d.stack = Append(c.stack, f)
    PROVE  Pushes(c, d, f)
BY ConfigFacts, AppendProperties DEF Height, Pushes

\* The frame of a statement that begins.
LEMMA OpenedFrame ==
    ASSUME NEW c \in Config, NEW e \in Event, e[1] \in Opening
    PROVE  Opened(e, c) \in Frame
<1>1. e[1] = "match" => e[2] \in BOOLEAN
  BY DEF Event
<1>2. c.pc + 1 \in Nat \ {0} /\ 1 \in Nat \ {0}
  BY ConfigFacts
<1>3. /\ Clone(c.moved) \in State /\ NoState \in State /\ c.moved \in SUBSET Path
      /\ c.unreachable \in BOOLEAN
  BY ConfigFacts, StateFacts
<1> DEFINE kind == IF e[1] = "if" THEN "then" ELSE IF e[1] = "match" THEN "match"
              ELSE IF e[1] = "loop" THEN "body" ELSE "cond"
           init == IF e[1] \in {"if", "match"} THEN Clone(c.moved) ELSE NoState
           pass == IF e[1] \in {"if", "match"} THEN 0 ELSE 1
           open == IF e[1] = "match" THEN e[2] ELSE e[1] = "while"
           from == IF e[1] \in {"if", "match"} THEN 1 ELSE c.pc + 1
<1>4. kind \in FrameKind /\ init \in State /\ pass \in 0..2 /\ open \in BOOLEAN /\ from \in Nat \ {0}
  <2>1. kind \in FrameKind
    BY DEF FrameKind
  <2>2. open \in BOOLEAN
    BY <1>1
  <2> QED
    BY <2>1, <2>2, <1>2, <1>3
<1> HIDE DEF kind, init, pass, open, from
<1>5. [kind |-> kind, init |-> init, unreach |-> c.unreachable, out |-> NoState, cont |-> NoState,
       next |-> NoState, start |-> c.moved, pass |-> pass, open |-> open, broken |-> FALSE,
       from |-> from] \in Frame
  BY <1>3, <1>4 DEF Frame
<1> QED
  BY <1>5 DEF Opened, kind, init, pass, open, from

\* The nearest loop takes over the state of a break or a continue.
Breaks(b, c, d, t, i) ==
    /\ Nearest(c, i) /\ Height(d) = Height(c)
    /\ \A j \in 1..Height(c) :
          d.stack[j] = [c.stack[j] EXCEPT
             !.out = IF j = i /\ ~Quiet(b, c) THEN MergeInto(@, Clone(c.moved)) ELSE @,
             !.broken = @ \/ j = t]

\* What a break makes of the frames.
LEMMA BrokenFrames ==
    ASSUME NEW b, NEW c \in Config, NEW d \in Config, NEW t \in Nat, DoesBreak(b, t, c, d)
    PROVE  \E i \in 1..Height(c) : Breaks(b, c, d, t, i)
<1>1. PICK i \in 1..Height(c) :
          Nearest(c, i) /\ d.stack = Broken(c.stack, i, t, Quiet(b, c), Clone(c.moved))
  BY DEF DoesBreak
<1>2. d.stack = [j \in 1..Height(c) |->
         [c.stack[j] EXCEPT !.out = IF j = i /\ ~Quiet(b, c) THEN MergeInto(@, Clone(c.moved)) ELSE @,
                            !.broken = @ \/ j = t]]
  BY <1>1 DEF Broken, Height
<1>3. d.stack \in Seq(Frame) /\ DOMAIN d.stack = 1..Height(c) /\ Height(c) \in Nat
  BY <1>2, ConfigFacts
<1>4. Height(d) = Height(c)
  BY <1>3 DEF Height
<1> QED
  BY <1>1, <1>2, <1>4 DEF Breaks

\* A break leaves the frames alone in a build.
LEMMA QuietBreak ==
    ASSUME NEW b, NEW c \in Config, NEW d \in Config, NEW t \in Nat, DoesBreak(b, t, c, d), Quiet(b, c)
    PROVE  /\ Height(d) = Height(c)
           /\ \A j \in 1..Height(c) : /\ SharedFrame(d.stack[j], c.stack[j])
                                      /\ d.stack[j].init = c.stack[j].init
<1>1. PICK i \in 1..Height(c) : Breaks(b, c, d, t, i)
  BY BrokenFrames
<1>2. ASSUME NEW j \in 1..Height(c)
      PROVE  SharedFrame(d.stack[j], c.stack[j]) /\ d.stack[j].init = c.stack[j].init
  <2>1. c.stack[j] \in Frame
    BY ConfigFacts
  <2> DEFINE w == c.stack[j].broken \/ j = t
             o == c.stack[j].out
  <2>2. d.stack[j] = [c.stack[j] EXCEPT !.out = o, !.broken = w]
    BY <1>1 DEF Breaks
  <2> HIDE DEF w
  <2>3. d.stack[j] = [c.stack[j] EXCEPT !.broken = w]
    BY <2>1, <2>2 DEF Frame
  <2> QED
    BY <2>1, <2>3 DEF Frame, SharedFrame
<1> QED
  BY <1>1, <1>2 DEF Breaks

Continues(c, d, i) ==
    /\ Nearest(c, i) /\ Height(d) = Height(c)
    /\ \A j \in 1..Height(c) :
          d.stack[j] = IF j = i THEN [c.stack[j] EXCEPT !.cont = MergeInto(@, Clone(c.moved))]
                       ELSE c.stack[j]

\* What a continue makes of the frames.
LEMMA ContinuedFrames ==
    ASSUME NEW c \in Config, NEW d \in Config, DoesContinue(c, d)
    PROVE  \E i \in 1..Height(c) : Continues(c, d, i)
<1>1. PICK i \in 1..Height(c) :
          Nearest(c, i) /\ d.stack = [c.stack EXCEPT ![i].cont = MergeInto(@, Clone(c.moved))]
  BY DEF DoesContinue
<1>2. c.stack \in Seq(Frame) /\ i \in 1..Len(c.stack) /\ c.stack[i] \in Frame
  BY ConfigFacts DEF Height
<1> DEFINE f == [c.stack[i] EXCEPT !.cont = MergeInto(@, Clone(c.moved))]
<1>3. f \in Frame
  <2>1. MergeInto(c.stack[i].cont, Clone(c.moved)) \in State
    BY <1>2, FrameParts, ConfigFacts, MergeIntoFacts
  <2> QED
    BY <1>2, <2>1 DEF Frame
<1>4. d.stack = [c.stack EXCEPT ![i] = f]
  BY <1>1
<1> HIDE DEF f
<1>5. /\ Len(d.stack) = Len(c.stack)
      /\ \A j \in 1..Len(c.stack) : d.stack[j] = IF j = i THEN f ELSE c.stack[j]
  BY <1>2, <1>3, <1>4, ExceptSeq
<1> QED
  BY <1>1, <1>5 DEF Height, f, Continues

\* What the end of a statement computes.
LEMMA EndFacts ==
    ASSUME NEW c \in Config, Height(c) > 0
    PROVE  /\ EndOf(c) \in State /\ InitialOf(c) \in State /\ FinalOf(c) \in State
           /\ AllCases(c) \in State /\ MergedBy(c) \in State
           /\ AgainFrame(c) \in Frame
<1>1. /\ HandedOver(c) \in State /\ Clone(c.moved) \in State /\ NoState \in State
      /\ Crest(c).cont \in State /\ Crest(c).init \in State /\ Crest(c).out \in State
      /\ Crest(c).next \in State /\ Crest(c) \in Frame
  BY ConfigFacts, FrameParts, StateFacts
<1>2. EndOf(c) \in State /\ InitialOf(c) \in State /\ FinalOf(c) \in State
  BY <1>1, MergeIntoFacts DEF EndOf, InitialOf, FinalOf
<1>3. MergedBy(c) \in State
  BY <1>1, MergeIntoFacts DEF MergedBy
<1>4. AllCases(c) \in State
  BY <1>1, <1>3, MergeIntoFacts DEF AllCases
<1>5. AgainFrame(c) \in Frame
  <2> DEFINE kind == IF Crest(c).open THEN "cond" ELSE "body"
  <2>1. kind \in FrameKind /\ 2 \in 0..2
    BY DEF FrameKind
  <2> HIDE DEF kind
  <2>2. [Crest(c) EXCEPT !.kind = kind, !.pass = 2, !.next = EndOf(c), !.init = InitialOf(c),
                         !.out = NoState, !.cont = NoState] \in Frame
    BY <1>1, <1>2, <2>1 DEF Frame
  <2> QED
    BY <2>2 DEF AgainFrame, kind
<1> QED
  BY <1>2, <1>3, <1>4, <1>5

-----------------------------------------------------------------------------
(* A build: both passes of a body go the same way, and the second finds no   *)
(* place of S moved where the first did not.                                 *)

Less(S, x, y) == y.some = x.some /\ y.moved \cap S \subseteq x.moved

LessFrame(S, f, g) ==
    /\ f.kind = g.kind /\ f.unreach = g.unreach /\ f.pass = g.pass /\ f.open = g.open
    /\ f.from = g.from
    /\ Less(S, f.init, g.init) /\ Less(S, f.out, g.out)
    /\ Less(S, f.cont, g.cont) /\ Less(S, f.next, g.next)

\* c in the first pass of the loop i, and d in the second.
Paired(S, i, c, d) ==
    /\ Height(c) = Height(d) /\ i \in 1..Height(c)
    /\ c.pc = d.pc /\ c.unreachable = d.unreachable /\ d.moved \cap S \subseteq c.moved
    /\ c.stack[i].kind = d.stack[i].kind /\ c.stack[i].kind \in {"cond", "body"}
    /\ c.stack[i].pass = 1 /\ d.stack[i].pass = 2 /\ c.stack[i].open = d.stack[i].open
    /\ Less(S, c.stack[i].cont, d.stack[i].cont)
    /\ \A j \in i+1..Height(c) : LessFrame(S, c.stack[j], d.stack[j])

\* Merging keeps the order: move_state_merge_into adds to both what it is given.
LEMMA LessMerge ==
    ASSUME NEW S, NEW x \in State, NEW y \in State, NEW u \in State, NEW v \in State,
           Less(S, x, y), Less(S, u, v)
    PROVE  Less(S, MergeInto(x, u), MergeInto(y, v))
<1>1. CASE u.some
  <2>1. MergeInto(x, u) = Clone(x.moved \cup u.moved) /\ MergeInto(y, v) = Clone(y.moved \cup v.moved)
    BY <1>1 DEF MergeInto, Less
  <2>2. x.moved \cup u.moved \in SUBSET Path /\ y.moved \cup v.moved \in SUBSET Path
    BY StateFacts
  <2> QED
    BY <2>1, <2>2, StateFacts DEF Less
<1>2. CASE ~u.some
  <2>1. MergeInto(x, u) = x /\ MergeInto(y, v) = y
    BY <1>2, StateFacts DEF MergeInto, Less
  <2> QED
    BY <2>1
<1> QED
  BY <1>1, <1>2

\* The order is reflexive.
LEMMA LessItself ==
    /\ \A S, x : Less(S, x, x)
    /\ \A S, f : LessFrame(S, f, f)
BY DEF Less, LessFrame

\* What a pair of states hands over.
Alike(S, i, c, d) ==
    /\ Less(S, Clone(c.moved), Clone(d.moved)) /\ Less(S, HandedOver(c), HandedOver(d))
    /\ Height(c) = Height(d) /\ Height(c) > 0 /\ i \in 1..Height(c) /\ Height(c) \in Nat
    /\ c.pc = d.pc /\ c.unreachable = d.unreachable /\ d.moved \cap S \subseteq c.moved
    /\ Height(c) > i => LessFrame(S, Crest(c), Crest(d))
    /\ Crest(c).kind = Crest(d).kind /\ Crest(c).open = Crest(d).open
    /\ Less(S, Crest(c).cont, Crest(d).cont)
    /\ \A kinds : CrestIs(c, kinds) = CrestIs(d, kinds)
    /\ \A kinds : CrestIs(c, kinds) /\ kinds \cap {"cond", "body"} = {} => Height(c) > i
    /\ \A k : Nearest(c, k) <=> Nearest(d, k)
    /\ \A k : Nearest(c, k) => k >= i

\* A pair is alike in all that decides where an event leads.
LEMMA PairedParts ==
    ASSUME NEW S, NEW i, NEW c \in Config, NEW d \in Config, Paired(S, i, c, d)
    PROVE  Alike(S, i, c, d)
<1>1. /\ Height(c) = Height(d) /\ i \in 1..Height(c) /\ Height(c) \in Nat /\ Height(c) > 0
      /\ c.pc = d.pc /\ c.unreachable = d.unreachable /\ d.moved \cap S \subseteq c.moved
  BY ConfigFacts DEF Paired
<1>2. Less(S, Clone(c.moved), Clone(d.moved)) /\ Less(S, HandedOver(c), HandedOver(d))
  BY <1>1, ConfigFacts, StateFacts DEF Less, HandedOver
<1>3. Height(c) > i => LessFrame(S, Crest(c), Crest(d))
  BY <1>1 DEF Paired, Crest
<1>4. /\ Crest(c).kind = Crest(d).kind /\ Crest(c).open = Crest(d).open
      /\ Less(S, Crest(c).cont, Crest(d).cont)
  <2>1. CASE Height(c) > i
    BY <1>3, <2>1 DEF LessFrame
  <2>2. CASE Height(c) = i
    BY <1>1, <2>2 DEF Paired, Crest
  <2> QED
    BY <1>1, <2>1, <2>2
<1>5. \A kinds : CrestIs(c, kinds) = CrestIs(d, kinds)
  BY <1>1, <1>4 DEF CrestIs
<1>6. \A kinds : CrestIs(c, kinds) /\ kinds \cap {"cond", "body"} = {} => Height(c) > i
  BY <1>1 DEF CrestIs, Crest, Paired
<1>7. \A j \in i..Height(c) : (c.stack[j].pass > 0) = (d.stack[j].pass > 0)
  <2> TAKE j \in i..Height(c)
  <2>1. CASE j = i
    BY <2>1 DEF Paired
  <2>2. CASE j > i
    BY <1>1, <2>2 DEF Paired, LessFrame
  <2> QED
    BY <1>1, <2>1, <2>2
<1>8. \A j \in i+1..Height(c) : c.stack[j].pass = d.stack[j].pass
  BY DEF Paired, LessFrame
<1>9. ASSUME NEW k, Nearest(c, k) \/ Nearest(d, k) PROVE k >= i /\ k \in 1..Height(c)
  <2>1. k \in 1..Height(c)
    BY <1>1, <1>9 DEF Nearest
  <2>2. c.stack[i].pass > 0 /\ d.stack[i].pass > 0
    BY DEF Paired
  <2>3. k < i => i \in k+1..Height(c)
    BY <1>1, <2>1
  <2> QED
    BY <1>1, <1>9, <2>1, <2>2, <2>3 DEF Nearest
<1>10. \A k : Nearest(c, k) <=> Nearest(d, k)
  <2> TAKE k
  <2>1. Nearest(c, k) => Nearest(d, k)
    <3> SUFFICES ASSUME Nearest(c, k) PROVE Nearest(d, k)
      OBVIOUS
    <3>1. k >= i /\ k \in 1..Height(c)
      BY <1>9
    <3>2. k \in i..Height(c) /\ \A j \in k+1..Height(c) : j \in i+1..Height(c)
      BY <1>1, <3>1
    <3> QED
      BY <1>1, <1>7, <1>8, <3>1, <3>2 DEF Nearest
  <2>2. Nearest(d, k) => Nearest(c, k)
    <3> SUFFICES ASSUME Nearest(d, k) PROVE Nearest(c, k)
      OBVIOUS
    <3>1. k >= i /\ k \in 1..Height(c)
      BY <1>9
    <3>2. k \in i..Height(c) /\ \A j \in k+1..Height(c) : j \in i+1..Height(c)
      BY <1>1, <3>1
    <3> QED
      BY <1>1, <1>7, <1>8, <3>1, <3>2 DEF Nearest
  <2> QED
    BY <2>1, <2>2
<1> QED
  BY <1>1, <1>2, <1>3, <1>4, <1>5, <1>6, <1>9, <1>10 DEF Alike

\* The frame on top is replaced in both.
LEMMA PairedRaise ==
    ASSUME NEW S, NEW i, NEW c \in Config, NEW d \in Config, NEW c2 \in Config, NEW d2 \in Config,
           Paired(S, i, c, d), NEW f, NEW g, Raises(c, c2, f), Raises(d, d2, g),
           Height(c) > i => LessFrame(S, f, g),
           Height(c) = i => /\ f.kind = g.kind /\ f.kind \in {"cond", "body"} /\ f.open = g.open
                            /\ f.pass = 1 /\ g.pass = 2 /\ Less(S, f.cont, g.cont),
           c2.pc = d2.pc, c2.unreachable = d2.unreachable, d2.moved \cap S \subseteq c2.moved
    PROVE  Paired(S, i, c2, d2)
<1>1. /\ Height(c) = Height(d) /\ i \in 1..Height(c) /\ Height(c) \in Nat
      /\ Height(c2) = Height(c) /\ Height(d2) = Height(c)
  BY PairedParts DEF Raises, Alike
<1>2. ASSUME NEW j \in i+1..Height(c2) PROVE LessFrame(S, c2.stack[j], d2.stack[j])
  <2>1. CASE j = Height(c)
    BY <1>1, <2>1 DEF Raises
  <2>2. CASE j # Height(c)
    <3>1. c2.stack[j] = c.stack[j] /\ d2.stack[j] = d.stack[j] /\ j \in i+1..Height(c)
      BY <1>1, <2>2 DEF Raises
    <3> QED
      BY <3>1 DEF Paired
  <2> QED
    BY <2>1, <2>2
<1>3. CASE Height(c) = i
  <2>1. c2.stack[i] = f /\ d2.stack[i] = g
    BY <1>1, <1>3 DEF Raises
  <2> QED
    BY <1>1, <1>2, <1>3, <2>1 DEF Paired
<1>4. CASE Height(c) # i
  <2>1. c2.stack[i] = c.stack[i] /\ d2.stack[i] = d.stack[i]
    BY <1>1, <1>4 DEF Raises
  <2>2. /\ c.stack[i].kind = d.stack[i].kind /\ c.stack[i].kind \in {"cond", "body"}
        /\ c.stack[i].pass = 1 /\ d.stack[i].pass = 2 /\ c.stack[i].open = d.stack[i].open
        /\ Less(S, c.stack[i].cont, d.stack[i].cont)
    BY DEF Paired
  <2> QED
    BY <1>1, <1>2, <2>1, <2>2 DEF Paired
<1> QED
  BY <1>3, <1>4

\* The frame on top is popped in both.
LEMMA PairedDrop ==
    ASSUME NEW S, NEW i, NEW c \in Config, NEW d \in Config, NEW c2 \in Config, NEW d2 \in Config,
           Paired(S, i, c, d), NEW v, NEW w, NEW shared, Drops(c, c2, v, shared),
           Drops(d, d2, w, shared), Height(c) > i, Less(S, v, w),
           c2.pc = d2.pc, c2.unreachable = d2.unreachable, d2.moved \cap S \subseteq c2.moved
    PROVE  Paired(S, i, c2, d2)
<1>1. /\ Height(c) = Height(d) /\ i \in 1..Height(c) /\ Height(c) \in Nat
      /\ Height(c2) = Height(c) - 1 /\ Height(d2) = Height(c) - 1
  BY PairedParts DEF Drops, Alike
<1>2. ASSUME NEW j \in i+1..Height(c2) PROVE LessFrame(S, c2.stack[j], d2.stack[j])
  <2>1. j \in i+1..Height(c) /\ j \in 1..Height(c)-1
    BY <1>1
  <2>2. LessFrame(S, c.stack[j], d.stack[j])
    BY <2>1 DEF Paired
  <2>3. SharedFrame(c2.stack[j], c.stack[j]) /\ SharedFrame(d2.stack[j], d.stack[j])
    BY <1>1, <2>1 DEF Drops
  <2>4. Less(S, c2.stack[j].init, d2.stack[j].init)
    <3>1. c2.stack[j].init = IF shared /\ j = Height(c) - 1 /\ c.stack[j].pass = 1
                                  /\ ~c.stack[j].init.some
                             THEN v ELSE c.stack[j].init
      BY <2>1 DEF Drops
    <3>2. d2.stack[j].init = IF shared /\ j = Height(c) - 1 /\ d.stack[j].pass = 1
                                  /\ ~d.stack[j].init.some
                             THEN w ELSE d.stack[j].init
      BY <1>1, <2>1 DEF Drops
    <3>3. /\ c.stack[j].pass = d.stack[j].pass /\ c.stack[j].init.some = d.stack[j].init.some
          /\ Less(S, c.stack[j].init, d.stack[j].init)
      BY <2>2 DEF LessFrame, Less
    <3> QED
      BY <3>1, <3>2, <3>3
  <2> QED
    BY <2>2, <2>3, <2>4 DEF LessFrame, SharedFrame
<1>3. SharedFrame(c2.stack[i], c.stack[i]) /\ SharedFrame(d2.stack[i], d.stack[i])
  BY <1>1 DEF Drops
<1> QED
  BY <1>1, <1>2, <1>3 DEF Paired, SharedFrame

\* A frame is pushed in both.
LEMMA PairedPush ==
    ASSUME NEW S, NEW i, NEW c \in Config, NEW d \in Config, NEW c2 \in Config, NEW d2 \in Config,
           Paired(S, i, c, d), NEW f \in Frame, NEW g \in Frame, LessFrame(S, f, g),
           c2.stack = Append(c.stack, f), d2.stack = Append(d.stack, g),
           c2.pc = d2.pc, c2.unreachable = d2.unreachable, d2.moved \cap S \subseteq c2.moved
    PROVE  Paired(S, i, c2, d2)
<1>a. Height(c) = Height(d) /\ i \in 1..Height(c) /\ Height(c) \in Nat
  BY PairedParts DEF Alike
<1>b. Pushes(c, c2, f) /\ Pushes(d, d2, g)
  BY PushedFrames
<1>c. /\ Height(c2) = Height(c) + 1 /\ c2.stack[Height(c) + 1] = f
      /\ \A j \in 1..Height(c) : c2.stack[j] = c.stack[j]
  BY <1>b DEF Pushes
<1>1. /\ Height(d2) = Height(c) + 1 /\ d2.stack[Height(c) + 1] = g
      /\ \A j \in 1..Height(c) : d2.stack[j] = d.stack[j]
  BY <1>a, <1>b DEF Pushes
<1>2. ASSUME NEW j \in i+1..Height(c2) PROVE LessFrame(S, c2.stack[j], d2.stack[j])
  <2>1. CASE j = Height(c) + 1
    BY <1>c, <1>1, <2>1
  <2>2. CASE j # Height(c) + 1
    <3>1. j \in i+1..Height(c) /\ j \in 1..Height(c)
      BY <1>a, <1>c, <2>2
    <3>2. LessFrame(S, c.stack[j], d.stack[j])
      BY <3>1 DEF Paired
    <3> QED
      BY <1>c, <1>1, <3>1, <3>2
  <2> QED
    BY <2>1, <2>2
<1>3. c2.stack[i] = c.stack[i] /\ d2.stack[i] = d.stack[i] /\ i \in 1..Height(c2)
  <2>1. i \in 1..Height(c) + 1
    BY <1>a
  <2> QED
    BY <1>a, <1>c, <1>1, <2>1
<1>4. Height(c2) = Height(d2)
  BY <1>c, <1>1
<1> HIDE DEF LessFrame
<1> QED
  BY <1>1, <1>2, <1>3, <1>4 DEF Paired

-----------------------------------------------------------------------------
(* The same event in both passes leaves a pair, one lemma per kind of event. *)

\* Two pairs of states, before and after an event.
Two(S, i, c, d, c2, d2) ==
    /\ c \in Config /\ d \in Config /\ c2 \in Config /\ d2 \in Config
    /\ Paired(S, i, c, d)

\* Uses, moves, assignments and jumps out of the statement.
LEMMA PairedPlain ==
    ASSUME NEW S, NEW i, NEW c, NEW d, NEW c2, NEW d2, Two(S, i, c, d, c2, d2),
           NEW e, DoesPlain(e, c, c2), DoesPlain(e, d, d2)
    PROVE  Paired(S, i, c2, d2)
<1>1. /\ c2.stack = c.stack /\ d2.stack = d.stack /\ Height(c2) = Height(c) /\ Height(d2) = Height(d)
      /\ c2.pc = c.pc + 1 /\ d2.pc = d.pc + 1
      /\ c2.unreachable = (c.unreachable \/ e[1] \in {"return", "goto"})
      /\ d2.unreachable = (d.unreachable \/ e[1] \in {"return", "goto"})
  BY DEF DoesPlain, Height
<1>2. c.pc = d.pc /\ c.unreachable = d.unreachable /\ d.moved \cap S \subseteq c.moved
  BY DEF Two, Paired
<1>3. d2.moved \cap S \subseteq c2.moved
  <2>1. CASE e[1] = "move"
    BY <1>2, <2>1 DEF DoesPlain
  <2>2. CASE e[1] = "assign" /\ Owner[e[2]] = {e[2]}
    BY <1>2, <2>2 DEF DoesPlain
  <2>3. CASE e[1] # "move" /\ ~(e[1] = "assign" /\ Owner[e[2]] = {e[2]})
    BY <1>2, <2>3 DEF DoesPlain
  <2> QED
    BY <2>1, <2>2, <2>3
<1>4. c2.pc = d2.pc /\ c2.unreachable = d2.unreachable
  BY <1>1, <1>2
<1> QED
  BY <1>1, <1>3, <1>4 DEF Paired, Two

\* Statements that begin: both passes push the same frame, over states in order.
LEMMA PairedOpen ==
    ASSUME NEW S, NEW i, NEW c, NEW d, NEW c2, NEW d2, Two(S, i, c, d, c2, d2),
           NEW e \in Event, e[1] \in Opening, DoesOpen(e, c, c2), DoesOpen(e, d, d2)
    PROVE  Paired(S, i, c2, d2)
<1>c. c \in Config /\ d \in Config /\ c2 \in Config /\ d2 \in Config /\ Paired(S, i, c, d)
  BY DEF Two
<1>a. Alike(S, i, c, d)
  BY <1>c, PairedParts
<1>1. Opened(e, c) \in Frame /\ Opened(e, d) \in Frame
  BY <1>c, OpenedFrame
<1>2. c.pc = d.pc /\ c.unreachable = d.unreachable /\ d.moved \cap S \subseteq c.moved
      /\ Less(S, Clone(c.moved), Clone(d.moved))
  BY <1>a DEF Alike
<1>3. LessFrame(S, Opened(e, c), Opened(e, d))
  BY <1>2, LessItself DEF LessFrame, Opened
<1>4. /\ c2.stack = Append(c.stack, Opened(e, c)) /\ d2.stack = Append(d.stack, Opened(e, d))
      /\ c2.pc = d2.pc /\ c2.unreachable = d2.unreachable /\ d2.moved \cap S \subseteq c2.moved
  BY <1>2 DEF DoesOpen
<1> QED
  BY <1>c, <1>1, <1>3, <1>4, PairedPush

\* The branches of an `if` and the cases of a match.
Branches(c, d, kind, x) ==
    /\ d.stack = [c.stack EXCEPT ![Height(c)] = [Crest(c) EXCEPT !.kind = kind, !.out = x]]
    /\ d.moved = Crest(c).init.moved /\ d.unreachable = Crest(c).unreach /\ d.pc = c.pc + 1

\* The next branch starts from what the frame has kept, in both passes.
LEMMA PairedBranch ==
    ASSUME NEW S, NEW i, NEW c, NEW d, NEW c2, NEW d2, Two(S, i, c, d, c2, d2),
           NEW kind \in FrameKind, NEW x \in State, NEW y \in State, Less(S, x, y),
           Height(c) > i, Branches(c, c2, kind, x), Branches(d, d2, kind, y)
    PROVE  Paired(S, i, c2, d2)
<1>c. c \in Config /\ d \in Config /\ c2 \in Config /\ d2 \in Config /\ Paired(S, i, c, d)
  BY DEF Two
<1>a. Alike(S, i, c, d)
  BY <1>c, PairedParts
<1>1. /\ Height(c) > 0 /\ Height(d) > 0 /\ LessFrame(S, Crest(c), Crest(d))
  BY <1>a DEF Alike
<1>2. Crest(c) \in Frame /\ Crest(d) \in Frame
  BY <1>c, <1>1, ConfigFacts
<1> DEFINE f == [Crest(c) EXCEPT !.kind = kind, !.out = x]
           g == [Crest(d) EXCEPT !.kind = kind, !.out = y]
<1>3. /\ f \in Frame /\ f.kind = kind /\ f.out = x /\ f.init = Crest(c).init
      /\ f.unreach = Crest(c).unreach /\ f.pass = Crest(c).pass /\ f.open = Crest(c).open
      /\ f.from = Crest(c).from /\ f.cont = Crest(c).cont /\ f.next = Crest(c).next
  BY <1>2 DEF Frame
<1>4. /\ g \in Frame /\ g.kind = kind /\ g.out = y /\ g.init = Crest(d).init
      /\ g.unreach = Crest(d).unreach /\ g.pass = Crest(d).pass /\ g.open = Crest(d).open
      /\ g.from = Crest(d).from /\ g.cont = Crest(d).cont /\ g.next = Crest(d).next
  BY <1>2 DEF Frame
<1>5. c2.stack = [c.stack EXCEPT ![Height(c)] = f] /\ d2.stack = [d.stack EXCEPT ![Height(d)] = g]
  BY DEF Branches
<1> HIDE DEF f, g
<1>6. LessFrame(S, f, g)
  BY <1>1, <1>3, <1>4 DEF LessFrame
<1>7. Raises(c, c2, f) /\ Raises(d, d2, g)
  BY <1>c, <1>1, <1>3, <1>4, <1>5, ReplacedFrames
<1>8. c2.unreachable = d2.unreachable /\ d2.moved \cap S \subseteq c2.moved /\ c2.pc = d2.pc
  BY <1>1, <1>a DEF LessFrame, Less, Branches, Alike
<1>9. Height(c) # i
  BY <1>a DEF Alike
<1> QED
  BY <1>c, <1>6, <1>7, <1>8, <1>9, PairedRaise

\* NODE_IF goes over to its else branch.
LEMMA PairedElse ==
    ASSUME NEW S, NEW i, NEW c, NEW d, NEW c2, NEW d2, Two(S, i, c, d, c2, d2),
           DoesElse(c, c2), DoesElse(d, d2)
    PROVE  Paired(S, i, c2, d2)
<1>c. c \in Config /\ d \in Config /\ c2 \in Config /\ d2 \in Config /\ Paired(S, i, c, d)
  BY DEF Two
<1>a. Alike(S, i, c, d)
  BY <1>c, PairedParts
<1>1. Height(c) > i /\ Less(S, HandedOver(c), HandedOver(d)) /\ c.pc = d.pc
  BY <1>a DEF Alike, DoesElse
<1>2. HandedOver(c) \in State /\ HandedOver(d) \in State /\ "else" \in FrameKind
  BY <1>c, ConfigFacts DEF FrameKind
<1>3. Branches(c, c2, "else", HandedOver(c)) /\ Branches(d, d2, "else", HandedOver(d))
  BY DEF DoesElse, Branches
<1> QED
  BY <1>1, <1>2, <1>3, PairedBranch

\* The cases so far are merged alike.
LEMMA PairedMerged ==
    ASSUME NEW S, NEW i, NEW c, NEW d, NEW c2, NEW d2, Two(S, i, c, d, c2, d2), Height(c) > i
    PROVE  /\ Less(S, MergedBy(c), MergedBy(d)) /\ MergedBy(c) \in State /\ MergedBy(d) \in State
           /\ Less(S, AllCases(c), AllCases(d)) /\ AllCases(c) \in State /\ AllCases(d) \in State
<1>c. c \in Config /\ d \in Config /\ c2 \in Config /\ d2 \in Config /\ Paired(S, i, c, d)
  BY DEF Two
<1>a. Alike(S, i, c, d)
  BY <1>c, PairedParts
<1>1. /\ Less(S, HandedOver(c), HandedOver(d)) /\ LessFrame(S, Crest(c), Crest(d))
      /\ Height(c) > 0 /\ Height(d) > 0
  BY <1>a DEF Alike
<1>2. /\ HandedOver(c) \in State /\ HandedOver(d) \in State
      /\ Crest(c) \in Frame /\ Crest(d) \in Frame
  BY <1>c, <1>1, ConfigFacts
<1>3. /\ Crest(c).out \in State /\ Crest(d).out \in State
      /\ Crest(c).init \in State /\ Crest(d).init \in State
  BY <1>2, FrameParts
<1>4. Less(S, MergedBy(c), MergedBy(d)) /\ MergedBy(c) \in State /\ MergedBy(d) \in State
  BY <1>1, <1>2, <1>3, LessMerge, MergeIntoFacts DEF MergedBy, LessFrame
<1>5. Less(S, AllCases(c), AllCases(d)) /\ AllCases(c) \in State /\ AllCases(d) \in State
  BY <1>1, <1>2, <1>3, <1>4, LessMerge, MergeIntoFacts DEF AllCases, LessFrame
<1> QED
  BY <1>4, <1>5

\* NODE_MATCH goes over to its next case.
LEMMA PairedCase ==
    ASSUME NEW S, NEW i, NEW c, NEW d, NEW c2, NEW d2, Two(S, i, c, d, c2, d2),
           DoesCase(c, c2), DoesCase(d, d2)
    PROVE  Paired(S, i, c2, d2)
<1>c. c \in Config /\ d \in Config /\ c2 \in Config /\ d2 \in Config /\ Paired(S, i, c, d)
  BY DEF Two
<1>a. Alike(S, i, c, d)
  BY <1>c, PairedParts
<1>1. Height(c) > i /\ c.pc = d.pc /\ "case" \in FrameKind
  BY <1>a DEF Alike, DoesCase, FrameKind
<1>2. Less(S, MergedBy(c), MergedBy(d)) /\ MergedBy(c) \in State /\ MergedBy(d) \in State
  BY <1>1, PairedMerged
<1>3. Branches(c, c2, "case", MergedBy(c)) /\ Branches(d, d2, "case", MergedBy(d))
  BY DEF DoesCase, Branches
<1> QED
  BY <1>1, <1>2, <1>3, PairedBranch

\* The condition of a loop has been evaluated.
LEMMA PairedDo ==
    ASSUME NEW S, NEW i, NEW c, NEW d, NEW c2, NEW d2, Two(S, i, c, d, c2, d2),
           DoesDo(c, c2), DoesDo(d, d2)
    PROVE  Paired(S, i, c2, d2)
<1>c. c \in Config /\ d \in Config /\ c2 \in Config /\ d2 \in Config /\ Paired(S, i, c, d)
  BY DEF Two
<1>a. Alike(S, i, c, d)
  BY <1>c, PairedParts
<1>1. /\ Height(c) > 0 /\ Height(d) > 0 /\ Height(c) = Height(d)
      /\ Height(c) > i => LessFrame(S, Crest(c), Crest(d))
      /\ c.pc = d.pc /\ c.unreachable = d.unreachable /\ d.moved \cap S \subseteq c.moved
      /\ Crest(c).open = Crest(d).open /\ Less(S, Crest(c).cont, Crest(d).cont)
  BY <1>a DEF Alike
<1>p. Height(c) = i => Crest(c).pass = 1 /\ Crest(d).pass = 2
  BY <1>c, <1>1 DEF Paired, Crest
<1>2. Crest(c) \in Frame /\ Crest(d) \in Frame
  BY <1>c, <1>1, ConfigFacts
<1> DEFINE f == [Crest(c) EXCEPT !.kind = "body"]
           g == [Crest(d) EXCEPT !.kind = "body"]
<1>3. /\ f \in Frame /\ f.kind = "body" /\ f.out = Crest(c).out /\ f.init = Crest(c).init
      /\ f.unreach = Crest(c).unreach /\ f.pass = Crest(c).pass /\ f.open = Crest(c).open
      /\ f.from = Crest(c).from /\ f.cont = Crest(c).cont /\ f.next = Crest(c).next
  BY <1>2 DEF Frame, FrameKind
<1>4. /\ g \in Frame /\ g.kind = "body" /\ g.out = Crest(d).out /\ g.init = Crest(d).init
      /\ g.unreach = Crest(d).unreach /\ g.pass = Crest(d).pass /\ g.open = Crest(d).open
      /\ g.from = Crest(d).from /\ g.cont = Crest(d).cont /\ g.next = Crest(d).next
  BY <1>2 DEF Frame, FrameKind
<1>5. c2.stack = [c.stack EXCEPT ![Height(c)] = f] /\ d2.stack = [d.stack EXCEPT ![Height(d)] = g]
  BY DEF DoesDo
<1> HIDE DEF f, g
<1>6. Height(c) > i => LessFrame(S, f, g)
  BY <1>1, <1>3, <1>4 DEF LessFrame
<1>7. Raises(c, c2, f) /\ Raises(d, d2, g)
  BY <1>c, <1>1, <1>3, <1>4, <1>5, ReplacedFrames
<1>8. c2.unreachable = d2.unreachable /\ d2.moved \cap S \subseteq c2.moved /\ c2.pc = d2.pc
  BY <1>1 DEF DoesDo
<1>9. Height(c) = i => /\ f.kind = g.kind /\ f.kind \in {"cond", "body"} /\ f.open = g.open
                       /\ f.pass = 1 /\ g.pass = 2 /\ Less(S, f.cont, g.cont)
  BY <1>1, <1>p, <1>3, <1>4
<1> QED
  BY <1>c, <1>6, <1>7, <1>8, <1>9, PairedRaise

\* move_state_merge of the two branches.
LEMMA PairedEndIf ==
    ASSUME NEW S, NEW i, NEW c, NEW d, NEW c2, NEW d2, Two(S, i, c, d, c2, d2),
           DoesEndIf(c, c2), DoesEndIf(d, d2)
    PROVE  Paired(S, i, c2, d2)
<1>c. c \in Config /\ d \in Config /\ c2 \in Config /\ d2 \in Config /\ Paired(S, i, c, d)
  BY DEF Two
<1>a. Alike(S, i, c, d)
  BY <1>c, PairedParts
<1>1. /\ Height(c) > i /\ c.pc = d.pc /\ Height(c) > 0 /\ Height(d) > 0
      /\ Less(S, HandedOver(c), HandedOver(d)) /\ LessFrame(S, Crest(c), Crest(d))
  BY <1>a DEF Alike, DoesEndIf
<1>2. Less(S, ThenOf(c), ThenOf(d)) /\ Less(S, ElseOf(c), ElseOf(d))
  BY <1>1, LessItself DEF ThenOf, ElseOf, LessFrame
<1>3. Less(S, Crest(c).init, Crest(d).init)
  BY <1>1 DEF LessFrame
<1>4. d2.moved \cap S \subseteq c2.moved /\ c2.unreachable = d2.unreachable /\ c2.pc = d2.pc
  BY <1>1, <1>2, <1>3 DEF DoesEndIf, Merge, Less
<1>5. Drops(c, c2, NoState, FALSE) /\ Drops(d, d2, NoState, FALSE)
  BY <1>c, <1>1, StateFacts, PoppedFrames DEF DoesEndIf
<1> QED
  BY <1>c, <1>1, <1>4, <1>5, LessItself, PairedDrop

\* The end of a match, with the initial state if there is no default.
LEMMA PairedEndMatch ==
    ASSUME NEW S, NEW i, NEW c, NEW d, NEW c2, NEW d2, Two(S, i, c, d, c2, d2),
           DoesEndMatch(c, c2), DoesEndMatch(d, d2)
    PROVE  Paired(S, i, c2, d2)
<1>c. c \in Config /\ d \in Config /\ c2 \in Config /\ d2 \in Config /\ Paired(S, i, c, d)
  BY DEF Two
<1>a. Alike(S, i, c, d)
  BY <1>c, PairedParts
<1>1. /\ Height(c) > i /\ c.pc = d.pc /\ Height(c) > 0 /\ Height(d) > 0
      /\ LessFrame(S, Crest(c), Crest(d))
  BY <1>a DEF Alike, DoesEndMatch
<1>2. Less(S, AllCases(c), AllCases(d)) /\ AllCases(c) \in State /\ AllCases(d) \in State
  BY <1>1, PairedMerged
<1>3. Less(S, Crest(c).init, Crest(d).init) /\ Crest(c).init \in State /\ Crest(d).init \in State
  BY <1>c, <1>1, ConfigFacts, FrameParts DEF LessFrame
<1>4. d2.moved \cap S \subseteq c2.moved /\ c2.unreachable = d2.unreachable /\ c2.pc = d2.pc
  BY <1>1, <1>2, <1>3 DEF DoesEndMatch, Less
<1>5. /\ AllCases(c).some \in BOOLEAN /\ AllCases(c).some = AllCases(d).some
  BY <1>2, StateFacts DEF Less
<1>6. /\ Drops(c, c2, Crest(c).init, AllCases(c).some)
      /\ Drops(d, d2, Crest(d).init, AllCases(c).some)
  BY <1>c, <1>1, <1>3, <1>5, PoppedFrames DEF DoesEndMatch
<1> QED
  BY <1>c, <1>1, <1>3, <1>4, <1>6, PairedDrop

\* A break hands nothing over in either pass.
LEMMA PairedBreak ==
    ASSUME NEW S, NEW i, NEW c, NEW d, NEW c2, NEW d2, Two(S, i, c, d, c2, d2),
           NEW t \in Nat, DoesBreak(TRUE, t, c, c2), DoesBreak(TRUE, t, d, d2)
    PROVE  Paired(S, i, c2, d2)
<1>c. c \in Config /\ d \in Config /\ c2 \in Config /\ d2 \in Config /\ Paired(S, i, c, d)
  BY DEF Two
<1>a. Alike(S, i, c, d)
  BY <1>c, PairedParts
<1>q. Quiet(TRUE, c) /\ Quiet(TRUE, d)
  BY DEF Quiet
<1>1. /\ Height(c) = Height(d) /\ i \in 1..Height(c) /\ c.pc = d.pc /\ Height(c) \in Nat
      /\ d.moved \cap S \subseteq c.moved
  BY <1>a DEF Alike
<1>2. Height(c2) = Height(c) /\ \A j \in 1..Height(c) : SharedFrame(c2.stack[j], c.stack[j])
                                                      /\ c2.stack[j].init = c.stack[j].init
  BY <1>c, <1>q, QuietBreak
<1>3. Height(d2) = Height(d) /\ \A j \in 1..Height(d) : SharedFrame(d2.stack[j], d.stack[j])
                                                      /\ d2.stack[j].init = d.stack[j].init
  BY <1>c, <1>q, QuietBreak
<1>4. \A j \in i+1..Height(c2) : LessFrame(S, c2.stack[j], d2.stack[j])
  <2> TAKE j \in i+1..Height(c2)
  <2>1. j \in i+1..Height(c) /\ j \in 1..Height(c)
    BY <1>1, <1>2
  <2>2. LessFrame(S, c.stack[j], d.stack[j])
    BY <1>c, <2>1 DEF Paired
  <2> QED
    BY <1>1, <1>2, <1>3, <2>1, <2>2 DEF LessFrame, SharedFrame
<1>5. SharedFrame(c2.stack[i], c.stack[i]) /\ SharedFrame(d2.stack[i], d.stack[i])
  BY <1>1, <1>2, <1>3
<1>6. /\ c2.pc = d2.pc /\ c2.unreachable = d2.unreachable /\ d2.moved \cap S \subseteq c2.moved
      /\ Height(c2) = Height(d2) /\ i \in 1..Height(c2)
  BY <1>1, <1>2, <1>3 DEF DoesBreak
<1> QED
  BY <1>c, <1>4, <1>5, <1>6 DEF Paired, SharedFrame

\* A continue in both: the nearest loop is the same.
LEMMA PairedContinue ==
    ASSUME NEW S, NEW i, NEW c, NEW d, NEW c2, NEW d2, Two(S, i, c, d, c2, d2),
           DoesContinue(c, c2), DoesContinue(d, d2)
    PROVE  Paired(S, i, c2, d2)
<1>c. c \in Config /\ d \in Config /\ c2 \in Config /\ d2 \in Config /\ Paired(S, i, c, d)
  BY DEF Two
<1>a. Alike(S, i, c, d)
  BY <1>c, PairedParts
<1>1. /\ Height(c) = Height(d) /\ i \in 1..Height(c) /\ c.pc = d.pc /\ Height(c) \in Nat
      /\ d.moved \cap S \subseteq c.moved /\ Less(S, Clone(c.moved), Clone(d.moved))
      /\ \A k : Nearest(c, k) <=> Nearest(d, k)
  BY <1>a DEF Alike
<1>2. PICK k \in 1..Height(c) : Continues(c, c2, k)
  BY <1>c, ContinuedFrames
<1>3. PICK l \in 1..Height(d) : Continues(d, d2, l)
  BY <1>c, ContinuedFrames
<1>4. k = l
  <2>1. Nearest(c, k) /\ Nearest(c, l)
    BY <1>1, <1>2, <1>3 DEF Continues
  <2>2. k < l => l \in k+1..Height(c)
    BY <1>1, <1>2, <1>3
  <2>3. l < k => k \in l+1..Height(c)
    BY <1>1, <1>2, <1>3
  <2> QED
    BY <1>1, <1>2, <1>3, <2>1, <2>2, <2>3 DEF Nearest
<1>5. /\ Height(c2) = Height(c) /\ Height(d2) = Height(d)
      /\ c2.pc = d2.pc /\ c2.unreachable = d2.unreachable /\ d2.moved \cap S \subseteq c2.moved
  BY <1>1, <1>2, <1>3 DEF DoesContinue, Continues
<1>f. \A j \in 1..Height(c) : c.stack[j] \in Frame /\ d.stack[j] \in Frame
  BY <1>c, <1>1, ConfigFacts
<1>s. /\ Clone(c.moved) \in State /\ Clone(d.moved) \in State
      /\ \A j \in 1..Height(c) : c.stack[j].cont \in State /\ d.stack[j].cont \in State
  BY <1>c, <1>f, ConfigFacts, FrameParts
<1>6. \A j \in 1..Height(c) :
         /\ Less(S, c.stack[j].cont, d.stack[j].cont) => Less(S, c2.stack[j].cont, d2.stack[j].cont)
         /\ c2.stack[j].kind = c.stack[j].kind /\ d2.stack[j].kind = d.stack[j].kind
         /\ c2.stack[j].unreach = c.stack[j].unreach /\ d2.stack[j].unreach = d.stack[j].unreach
         /\ c2.stack[j].pass = c.stack[j].pass /\ d2.stack[j].pass = d.stack[j].pass
         /\ c2.stack[j].open = c.stack[j].open /\ d2.stack[j].open = d.stack[j].open
         /\ c2.stack[j].from = c.stack[j].from /\ d2.stack[j].from = d.stack[j].from
         /\ c2.stack[j].init = c.stack[j].init /\ d2.stack[j].init = d.stack[j].init
         /\ c2.stack[j].out = c.stack[j].out /\ d2.stack[j].out = d.stack[j].out
         /\ c2.stack[j].next = c.stack[j].next /\ d2.stack[j].next = d.stack[j].next
  <2> TAKE j \in 1..Height(c)
  <2>1. CASE j # k
    BY <1>1, <1>2, <1>3, <1>4, <2>1 DEF Continues
  <2>2. CASE j = k
    <3> DEFINE x == MergeInto(c.stack[j].cont, Clone(c.moved))
               y == MergeInto(d.stack[j].cont, Clone(d.moved))
    <3>1. Less(S, c.stack[j].cont, d.stack[j].cont) => Less(S, x, y)
      BY <1>1, <1>s, LessMerge
    <3>2. c2.stack[j] = [c.stack[j] EXCEPT !.cont = x] /\ d2.stack[j] = [d.stack[j] EXCEPT !.cont = y]
      BY <1>1, <1>2, <1>3, <1>4, <2>2 DEF Continues
    <3> HIDE DEF x, y
    <3>3. c.stack[j] \in Frame /\ d.stack[j] \in Frame
      BY <1>f
    <3> QED
      BY <3>1, <3>2, <3>3 DEF Frame
  <2> QED
    BY <2>1, <2>2
<1>7. \A j \in i+1..Height(c2) : LessFrame(S, c2.stack[j], d2.stack[j])
  <2> TAKE j \in i+1..Height(c2)
  <2>1. j \in i+1..Height(c) /\ j \in 1..Height(c)
    BY <1>1, <1>5
  <2>2. LessFrame(S, c.stack[j], d.stack[j])
    BY <1>c, <2>1 DEF Paired
  <2> QED
    BY <1>6, <2>1, <2>2 DEF LessFrame
<1>8. i \in 1..Height(c2)
  BY <1>1, <1>5
<1> QED
  BY <1>c, <1>1, <1>5, <1>6, <1>7, <1>8 DEF Paired

\* The end of a loop of the body.
LEMMA PairedEnd ==
    ASSUME NEW S, NEW i, NEW c, NEW d, NEW c2, NEW d2, Two(S, i, c, d, c2, d2), Height(c) > i
    PROVE  /\ Less(S, EndOf(c), EndOf(d)) /\ Less(S, InitialOf(c), InitialOf(d))
           /\ Less(S, FinalOf(c), FinalOf(d)) /\ Again(c) = Again(d)
           /\ EndOf(c) \in State /\ EndOf(d) \in State
           /\ InitialOf(c) \in State /\ InitialOf(d) \in State
           /\ FinalOf(c) \in State /\ FinalOf(d) \in State
<1>c. c \in Config /\ d \in Config /\ c2 \in Config /\ d2 \in Config /\ Paired(S, i, c, d)
  BY DEF Two
<1>a. Alike(S, i, c, d)
  BY <1>c, PairedParts
<1>1. /\ Height(c) > 0 /\ Height(d) > 0 /\ LessFrame(S, Crest(c), Crest(d))
      /\ Less(S, Clone(c.moved), Clone(d.moved)) /\ Less(S, HandedOver(c), HandedOver(d))
      /\ \A kinds : CrestIs(c, kinds) = CrestIs(d, kinds)
  BY <1>a DEF Alike
<1>2. /\ Crest(c) \in Frame /\ Crest(d) \in Frame /\ HandedOver(c) \in State
      /\ HandedOver(d) \in State /\ NoState \in State
  BY <1>c, <1>1, ConfigFacts, StateFacts
<1>3. /\ Crest(c).cont \in State /\ Crest(d).cont \in State /\ Crest(c).out \in State
      /\ Crest(d).out \in State /\ Crest(c).next \in State /\ Crest(d).next \in State
  BY <1>2, FrameParts
<1>4. Less(S, EndOf(c), EndOf(d))
  BY <1>1, <1>2, <1>3, LessMerge DEF EndOf, LessFrame
<1>5. Less(S, InitialOf(c), InitialOf(d))
  BY <1>1 DEF InitialOf, LessFrame, Less
<1>6. Less(S, FinalOf(c), FinalOf(d))
  <2>1. Less(S, NoState, NoState)
    BY LessItself
  <2> QED
    BY <1>1, <1>2, <1>3, <2>1, LessMerge DEF FinalOf, LessFrame
<1>7. Again(c) = Again(d)
  BY <1>1, <1>4 DEF Again, LessFrame, Less
<1> QED
  BY <1>c, <1>1, <1>4, <1>5, <1>6, <1>7, EndFacts

\* A loop of the body starts its second pass.
LEMMA PairedAgain ==
    ASSUME NEW S, NEW i, NEW c, NEW d, NEW c2, NEW d2, Two(S, i, c, d, c2, d2), Height(c) > i,
           Again(c), DoesAgain(c, c2), DoesAgain(d, d2)
    PROVE  Paired(S, i, c2, d2)
<1>c. c \in Config /\ d \in Config /\ c2 \in Config /\ d2 \in Config /\ Paired(S, i, c, d)
  BY DEF Two
<1>a. Alike(S, i, c, d)
  BY <1>c, PairedParts
<1>1. /\ Height(c) > 0 /\ Height(d) > 0 /\ LessFrame(S, Crest(c), Crest(d))
  BY <1>a DEF Alike
<1>2. /\ Less(S, EndOf(c), EndOf(d)) /\ Less(S, InitialOf(c), InitialOf(d))
      /\ EndOf(c) \in State /\ EndOf(d) \in State
      /\ InitialOf(c) \in State /\ InitialOf(d) \in State
  BY PairedEnd
<1>3. AgainFrame(c) \in Frame /\ AgainFrame(d) \in Frame /\ Crest(c) \in Frame /\ Crest(d) \in Frame
  BY <1>c, <1>1, EndFacts, ConfigFacts
<1>4. LessFrame(S, AgainFrame(c), AgainFrame(d))
  <2>1. /\ Less(S, NoState, NoState) /\ Crest(c).open = Crest(d).open
        /\ Crest(c).unreach = Crest(d).unreach /\ Crest(c).from = Crest(d).from
    BY <1>1, LessItself DEF LessFrame
  <2> QED
    BY <1>2, <1>3, <2>1 DEF LessFrame, AgainFrame, Frame
<1>5. Raises(c, c2, AgainFrame(c)) /\ Raises(d, d2, AgainFrame(d))
  BY <1>c, <1>1, <1>3, ReplacedFrames DEF DoesAgain
<1>6. c2.unreachable = d2.unreachable /\ d2.moved \cap S \subseteq c2.moved /\ c2.pc = d2.pc
  BY <1>1, <1>2 DEF DoesAgain, Less, LessFrame
<1>9. Height(c) # i
  BY <1>a DEF Alike
<1> QED
  BY <1>c, <1>4, <1>5, <1>6, <1>9, PairedRaise

\* A loop of the body is left.
LEMMA PairedLeave ==
    ASSUME NEW S, NEW i, NEW c, NEW d, NEW c2, NEW d2, Two(S, i, c, d, c2, d2), Height(c) > i,
           DoesLeave(c, c2), DoesLeave(d, d2)
    PROVE  Paired(S, i, c2, d2)
<1>c. c \in Config /\ d \in Config /\ c2 \in Config /\ d2 \in Config /\ Paired(S, i, c, d)
  BY DEF Two
<1>a. Alike(S, i, c, d)
  BY <1>c, PairedParts
<1>1. /\ Height(c) > 0 /\ Height(d) > 0 /\ LessFrame(S, Crest(c), Crest(d)) /\ c.pc = d.pc
  BY <1>a DEF Alike
<1>2. /\ Less(S, FinalOf(c), FinalOf(d)) /\ Less(S, InitialOf(c), InitialOf(d))
      /\ InitialOf(c) \in State /\ InitialOf(d) \in State /\ FinalOf(c) \in State
  BY PairedEnd
<1>3. FinalOf(c).some \in BOOLEAN /\ FinalOf(c).some = FinalOf(d).some
  BY <1>2, StateFacts DEF Less
<1>4. d2.moved \cap S \subseteq c2.moved /\ c2.pc = d2.pc
  BY <1>1, <1>2, <1>3 DEF DoesLeave, Less
<1>5. c2.unreachable = d2.unreachable
  BY <1>1, <1>3 DEF DoesLeave, LessFrame
<1>6. /\ Drops(c, c2, InitialOf(c), FinalOf(c).some)
      /\ Drops(d, d2, InitialOf(d), FinalOf(c).some)
  BY <1>c, <1>1, <1>2, <1>3, PoppedFrames DEF DoesLeave
<1> QED
  BY <1>c, <1>1, <1>2, <1>4, <1>5, <1>6, PairedDrop

\* What the name of an event says about it.
LEMMA EventNames ==
    ASSUME NEW e \in Event
    PROVE  /\ e[1] \in {"break", "continue"} => e[2] \in Nat
           /\ e[1] \in {"use", "move", "assign"} => e[2] \in Path
           /\ e[1] \in Plain \cup Opening \cup {"else", "case", "do", "endif", "endmatch", "break",
                                               "continue", "endloop", "fn", "test"}
BY DEF Event, Plain, Opening

\* The same event in both passes of the loop i, which it does not end.
LEMMA PairStep ==
    ASSUME NEW S, NEW i, NEW c, NEW d, NEW c2, NEW d2, Two(S, i, c, d, c2, d2),
           NEW e \in Event, Does(TRUE, e, c, c2), Does(TRUE, e, d, d2),
           Height(c2) >= i, c2.stack[i].pass = 1
    PROVE  Paired(S, i, c2, d2)
<1>1. CASE e[1] \in Plain
  BY <1>1, PairedPlain DEF Does
<1>2. CASE e[1] \in Opening
  BY <1>2, PairedOpen DEF Does
<1>3. CASE e[1] \in {"else", "case", "do", "endif", "endmatch"}
  BY <1>3, PairedElse, PairedCase, PairedDo, PairedEndIf, PairedEndMatch DEF Does
<1>4. CASE e[1] \in {"break", "continue"}
  BY <1>4, EventNames, PairedBreak, PairedContinue DEF Does
<1>5. CASE e[1] = "endloop"
  <2>c. c \in Config /\ d \in Config /\ Paired(S, i, c, d)
    BY DEF Two
  <2>a. Alike(S, i, c, d)
    BY <2>c, PairedParts
  <2>1. Height(c) > i
    <3>1. CASE Again(c) /\ DoesAgain(c, c2) /\ Height(c) = i
      <4>1. Raises(c, c2, AgainFrame(c))
        BY <2>c, <2>a, <3>1, EndFacts, ReplacedFrames DEF DoesAgain, Alike
      <4>2. AgainFrame(c).pass = 2
        BY <2>c, <2>a, ConfigFacts DEF AgainFrame, Frame, Alike
      <4> QED
        BY <3>1, <4>1, <4>2 DEF Raises
    <3>2. CASE DoesLeave(c, c2) /\ Height(c) = i
      <4>1. \E v \in State, b \in BOOLEAN : Drops(c, c2, v, b)
        BY <2>c, <2>a, <3>2, EndFacts, StateFacts, PoppedFrames DEF DoesLeave, Alike
      <4> QED
        BY <2>a, <3>2, <4>1 DEF Drops, Alike
    <3> QED
      BY <1>5, <2>a, <3>1, <3>2 DEF Does, Alike
  <2>2. Again(c) = Again(d)
    BY <2>1, PairedEnd
  <2> QED
    BY <1>5, <2>1, <2>2, PairedAgain, PairedLeave DEF Does
<1> QED
  BY <1>1, <1>2, <1>3, <1>4, <1>5, EventNames DEF Does

-----------------------------------------------------------------------------
(* A loop that stays open keeps what it began with. *)

Stays(f, g) == /\ g.start = f.start /\ g.from = f.from /\ g.open = f.open /\ g.pass = f.pass
               /\ g.next = f.next

\* The loop i begins its second pass.
Restarts(i, c, d) == i = Height(c) /\ Again(c) /\ DoesAgain(c, d) /\ Raises(c, d, AgainFrame(c))

\* A frame that is left alone, or that gets an initial state only, stays.
LEMMA StaysItself ==
    /\ \A f : Stays(f, f)
    /\ \A f, g : SharedFrame(f, g) => Stays(g, f)
BY DEF Stays, SharedFrame

\* An event leaves what a loop began with, unless it starts the second pass of that loop.
LEMMA LoopStays ==
    ASSUME NEW b, NEW c \in Config, NEW d \in Config, NEW e \in Event, Does(b, e, c, d),
           NEW i \in 1..Height(c), i <= Height(d)
    PROVE  \/ Stays(c.stack[i], d.stack[i])
           \/ e[1] = "endloop" /\ Restarts(i, c, d)
<1>0. Height(c) \in Nat /\ Height(c) > 0 /\ Crest(c) \in Frame /\ Crest(c) = c.stack[Height(c)]
  BY ConfigFacts DEF Crest
<1>r. ASSUME NEW f, Raises(c, d, f), Stays(Crest(c), f)
      PROVE  Stays(c.stack[i], d.stack[i])
  <2>1. CASE i = Height(c)
    BY <1>0, <1>r, <2>1 DEF Raises
  <2>2. CASE i # Height(c)
    <3>1. d.stack[i] = c.stack[i]
      BY <1>0, <1>r, <2>2 DEF Raises
    <3> QED
      BY <3>1, StaysItself
  <2> QED
    BY <2>1, <2>2
<1>d. ASSUME NEW v \in State, NEW s \in BOOLEAN, Drops(c, d, v, s)
      PROVE  Stays(c.stack[i], d.stack[i])
  BY <1>0, <1>d, StaysItself DEF Drops
<1>1. CASE e[1] \in Plain
  BY <1>1, StaysItself DEF Does, DoesPlain
<1>2. CASE e[1] \in Opening
  <2>1. Pushes(c, d, Opened(e, c))
    BY <1>2, OpenedFrame, PushedFrames DEF Does, DoesOpen
  <2> QED
    BY <2>1, StaysItself DEF Pushes
<1>3. CASE e[1] \in {"else", "case"}
  <2>1. PICK k \in FrameKind, x \in State : Branches(c, d, k, x)
    <3>1. HandedOver(c) \in State /\ MergedBy(c) \in State
      BY <1>0, ConfigFacts, EndFacts
    <3>2. e[1] = "else" => Branches(c, d, "else", HandedOver(c))
      BY DEF Does, DoesElse, Branches
    <3>3. e[1] = "case" => Branches(c, d, "case", MergedBy(c))
      BY DEF Does, DoesCase, Branches
    <3> QED
      BY <1>3, <3>1, <3>2, <3>3 DEF FrameKind
  <2> DEFINE f == [Crest(c) EXCEPT !.kind = k, !.out = x]
  <2>2. f \in Frame /\ Stays(Crest(c), f)
    BY <1>0 DEF Frame, Stays
  <2>3. d.stack = [c.stack EXCEPT ![Height(c)] = f]
    BY <2>1 DEF Branches
  <2> HIDE DEF f
  <2>4. Raises(c, d, f)
    BY <1>0, <2>2, <2>3, ReplacedFrames
  <2> QED
    BY <1>r, <2>2, <2>4
<1>4. CASE e[1] = "do"
  <2> DEFINE f == [Crest(c) EXCEPT !.kind = "body"]
  <2>2. f \in Frame /\ Stays(Crest(c), f)
    BY <1>0 DEF Frame, FrameKind, Stays
  <2>3. d.stack = [c.stack EXCEPT ![Height(c)] = f]
    BY <1>4 DEF Does, DoesDo
  <2> HIDE DEF f
  <2>4. Raises(c, d, f)
    BY <1>0, <2>2, <2>3, ReplacedFrames
  <2> QED
    BY <1>r, <2>2, <2>4
<1>5. CASE e[1] = "endif"
  <2>1. Drops(c, d, NoState, FALSE)
    BY <1>0, <1>5, StateFacts, PoppedFrames DEF Does, DoesEndIf
  <2> QED
    BY <1>d, <2>1, StateFacts
<1>6. CASE e[1] = "endmatch"
  <2>1. AllCases(c) \in State /\ AllCases(c).some \in BOOLEAN /\ Crest(c).init \in State
    BY <1>0, EndFacts, FrameParts, StateFacts
  <2>2. Drops(c, d, Crest(c).init, AllCases(c).some)
    BY <1>0, <1>6, <2>1, PoppedFrames DEF Does, DoesEndMatch
  <2> QED
    BY <1>d, <2>1, <2>2
<1>7. CASE e[1] = "break"
  <2>1. e[2] \in Nat
    BY <1>7, EventNames
  <2>2. PICK k \in 1..Height(c) : Breaks(b, c, d, e[2], k)
    BY <1>7, <2>1, BrokenFrames DEF Does
  <2> DEFINE o == IF i = k /\ ~Quiet(b, c) THEN MergeInto(c.stack[i].out, Clone(c.moved)) ELSE c.stack[i].out
             l == c.stack[i].broken \/ i = e[2]
  <2>3. d.stack[i] = [c.stack[i] EXCEPT !.out = o, !.broken = l]
    BY <2>2 DEF Breaks
  <2> HIDE DEF o, l
  <2>4. c.stack[i] \in Frame
    BY ConfigFacts
  <2> QED
    BY <2>3, <2>4 DEF Frame, Stays
<1>8. CASE e[1] = "continue"
  <2>1. PICK k \in 1..Height(c) : Continues(c, d, k)
    BY <1>8, ContinuedFrames DEF Does
  <2> DEFINE o == MergeInto(c.stack[i].cont, Clone(c.moved))
  <2>2. d.stack[i] = IF i = k THEN [c.stack[i] EXCEPT !.cont = o] ELSE c.stack[i]
    BY <2>1 DEF Continues
  <2> HIDE DEF o
  <2>3. c.stack[i] \in Frame
    BY ConfigFacts
  <2> QED
    BY <2>2, <2>3 DEF Frame, Stays
<1>9. CASE e[1] = "endloop"
  <2>1. CASE Again(c) /\ DoesAgain(c, d)
    <3>1. Raises(c, d, AgainFrame(c))
      BY <1>0, <2>1, EndFacts, ReplacedFrames DEF DoesAgain
    <3>2. i # Height(c) => Stays(c.stack[i], d.stack[i])
      BY <1>0, <3>1, StaysItself DEF Raises
    <3> QED
      BY <1>9, <2>1, <3>1, <3>2 DEF Restarts
  <2>2. CASE DoesLeave(c, d)
    <3>1. FinalOf(c) \in State /\ FinalOf(c).some \in BOOLEAN /\ InitialOf(c) \in State
      BY <1>0, EndFacts, StateFacts
    <3>2. Drops(c, d, InitialOf(c), FinalOf(c).some)
      BY <1>0, <2>2, <3>1, PoppedFrames DEF DoesLeave
    <3> QED
      BY <1>d, <3>1, <3>2
  <2> QED
    BY <1>9, <2>1, <2>2 DEF Does
<1> QED
  BY <1>1, <1>2, <1>3, <1>4, <1>5, <1>6, <1>7, <1>8, <1>9, EventNames DEF Does

-----------------------------------------------------------------------------
(* The invariant of the two passes. *)

\* The use or move e, checked in the state c, was reported if it had to be.
Answers(flag, e, c) == e[1] \in {"use", "move"} /\ Owner[e[2]] \cap c.moved # {} => flag

\* T is the first pass over the body of the loop i, with the frame f, up to the state T[n].
FirstPass(flag, i, f, events, n, T) ==
    /\ Height(T[0]) = i /\ T[0].pc = f.from /\ T[0].moved = f.start /\ T[0].unreachable = FALSE
    /\ T[0].stack[i].kind = (IF f.open THEN "cond" ELSE "body") /\ T[0].stack[i].cont = NoState
    /\ \A k \in 0..n : /\ i \in 1..Height(T[k]) /\ T[k].stack[i].pass = 1
                       /\ T[k].stack[i].open = f.open
    /\ \A k \in 0..n : k < n => /\ T[k].pc \in 1..Len(events)
                                /\ Does(TRUE, events[T[k].pc], T[k], T[k + 1])
                                /\ Answers(flag, events[T[k].pc], T[k])

\* The first pass ended in the state c, and the frame f has what it handed over.
Ended(i, f, events, c) ==
    /\ Height(c) = i /\ c.pc \in 1..Len(events) /\ events[c.pc] = <<"endloop">>
    /\ c.stack[i].kind = "body" /\ f.next = EndOf(c)

\* What was moved when the loop began, and what the second pass does not begin with.
Watched(f) == f.start \cup (Path \ f.next.moved)

\* The first pass has come to the state c.
SoFar(flag, i, f, events, c) ==
    \E n \in Nat : \E T \in [0..n -> Config] : FirstPass(flag, i, f, events, n, T) /\ T[n] = c

PassOne(i) == stack[i].pass = 1 => SoFar(reported, i, stack[i], log, Now)
PassTwo(i) ==
    stack[i].pass = 2 =>
        \E n \in Nat : \E T \in [0..n -> Config], k \in 0..n :
            /\ FirstPass(reported, i, stack[i], log, n, T)
            /\ Ended(i, stack[i], log, T[n])
            /\ Paired(Watched(stack[i]), i, T[k], Now)

TwoPasses ==
    /\ TypeOK /\ LogSound /\ SwallowedWasReported
    /\ movesOnly => \A i \in 1..Depth : PassOne(i) /\ PassTwo(i)

\* A pass remains one when the log grows.
LEMMA FirstPassKept ==
    ASSUME NEW flag, NEW flag2, NEW i, NEW f, NEW g, NEW l \in Seq(Event), NEW m \in Seq(Event),
           NEW n \in Nat, NEW T, FirstPass(flag, i, f, l, n, T), flag => flag2,
           g.from = f.from, g.start = f.start, g.open = f.open,
           Len(m) >= Len(l), \A k \in 1..Len(l) : m[k] = l[k]
    PROVE  FirstPass(flag2, i, g, m, n, T)
<1>1. \A k \in 0..n : k < n => /\ T[k].pc \in 1..Len(m)
                               /\ Does(TRUE, m[T[k].pc], T[k], T[k + 1])
                               /\ Answers(flag2, m[T[k].pc], T[k])
  <2> SUFFICES ASSUME NEW k \in 0..n, k < n
               PROVE  /\ T[k].pc \in 1..Len(m)
                      /\ Does(TRUE, m[T[k].pc], T[k], T[k + 1])
                      /\ Answers(flag2, m[T[k].pc], T[k])
    OBVIOUS
  <2>1. /\ T[k].pc \in 1..Len(l) /\ Does(TRUE, l[T[k].pc], T[k], T[k + 1])
        /\ Answers(flag, l[T[k].pc], T[k])
    BY DEF FirstPass
  <2>2. T[k].pc \in 1..Len(m) /\ m[T[k].pc] = l[T[k].pc]
    BY <2>1
  <2> QED
    BY <2>1, <2>2 DEF Answers
<1> QED
  BY <1>1 DEF FirstPass

\* A pass that goes on.
LEMMA FirstPassGrows ==
    ASSUME NEW flag, NEW i, NEW f, NEW l \in Seq(Event), NEW n \in Nat,
           NEW T \in [0..n -> Config], FirstPass(flag, i, f, l, n, T),
           NEW c \in Config, T[n].pc \in 1..Len(l), Does(TRUE, l[T[n].pc], T[n], c),
           Answers(flag, l[T[n].pc], T[n]),
           i <= Height(c), c.stack[i].pass = 1, c.stack[i].open = f.open
    PROVE  SoFar(flag, i, f, l, c)
<1> DEFINE U == [k \in 0..n+1 |-> IF k <= n THEN T[k] ELSE c]
<1>1. /\ U \in [0..n+1 -> Config] /\ U[n + 1] = c
      /\ \A k \in 0..n : U[k] = T[k] /\ k \in 0..n+1
  OBVIOUS
<1> HIDE DEF U
<1>2. 0 \in 0..n /\ n \in 0..n /\ n + 1 \in Nat
  OBVIOUS
<1>3. i \in 1..Height(c)
  BY <1>2, ConfigFacts DEF FirstPass
<1>4. \A k \in 0..n+1 : i \in 1..Height(U[k]) /\ U[k].stack[i].pass = 1 /\ U[k].stack[i].open = f.open
  <2> TAKE k \in 0..n+1
  <2>1. CASE k = n + 1
    BY <1>1, <1>3, <2>1
  <2>2. CASE k # n + 1
    <3>1. k \in 0..n
      BY <2>2
    <3> QED
      BY <1>1, <3>1 DEF FirstPass
  <2> QED
    BY <2>1, <2>2
<1>5. \A k \in 0..n+1 : k < n + 1 => /\ U[k].pc \in 1..Len(l)
                                     /\ Does(TRUE, l[U[k].pc], U[k], U[k + 1])
                                     /\ Answers(flag, l[U[k].pc], U[k])
  <2> SUFFICES ASSUME NEW k \in 0..n+1, k < n + 1
               PROVE  /\ U[k].pc \in 1..Len(l)
                      /\ Does(TRUE, l[U[k].pc], U[k], U[k + 1])
                      /\ Answers(flag, l[U[k].pc], U[k])
    OBVIOUS
  <2>1. CASE k = n
    BY <1>1, <1>2, <2>1
  <2>2. CASE k # n
    <3>1. k \in 0..n /\ k < n /\ k + 1 \in 0..n
      BY <2>2
    <3>2. U[k] = T[k] /\ U[k + 1] = T[k + 1]
      BY <1>1, <3>1
    <3> QED
      BY <3>1, <3>2 DEF FirstPass
  <2> QED
    BY <2>1, <2>2
<1>6. U[0] = T[0]
  BY <1>1, <1>2
<1>7. FirstPass(flag, i, f, l, n + 1, U)
  BY <1>4, <1>5, <1>6 DEF FirstPass
<1> QED
  BY <1>1, <1>2, <1>7 DEF SoFar

-----------------------------------------------------------------------------
(* The steps. *)

\* check_loop_passes begins.
LEMMA LoopOpens ==
    ASSUME TypeOK, TypeOK', Loop \/ While
    PROVE  /\ Depth' = Depth + 1 /\ stack'[Depth + 1].pass = 1
           /\ \A j \in 1..Depth : stack'[j] = stack[j]
           /\ stack'[Depth + 1].from = pc' /\ stack'[Depth + 1].start = moved'
           /\ unreachable' = FALSE /\ stack'[Depth + 1].cont = NoState
           /\ stack'[Depth + 1].kind = (IF stack'[Depth + 1].open THEN "cond" ELSE "body")
<1>1. PICK e \in {"loop", "while"}, k \in {"body", "cond"} :
        EnterLoop(e, k) /\ k = (IF e = "while" THEN "cond" ELSE "body")
  BY DEF Loop, While
<1> DEFINE f == NewFrame(k, NoState, 1, e = "while", pc')
<1>2. f \in Frame
  <2>1. pc' \in Nat \ {0} /\ k \in FrameKind /\ (e = "while") \in BOOLEAN
    BY DEF TypeOK, FrameKind
  <2> QED
    BY <2>1, StateFacts, FrameFacts
<1>3. /\ f.pass = 1 /\ f.from = pc' /\ f.start = moved /\ f.cont = NoState
      /\ f.open = (e = "while") /\ f.kind = k
  BY DEF NewFrame
<1>4. stack' = Append(stack, f) /\ moved' = moved /\ unreachable' = FALSE
  BY <1>1 DEF EnterLoop, Push
<1> HIDE DEF f
<1>5. Depth' = Depth + 1 /\ stack'[Depth + 1] = f /\ \A j \in 1..Depth : stack'[j] = stack[j]
  BY <1>2, <1>4, StackFacts DEF Depth
<1> QED
  BY <1>1, <1>3, <1>4, <1>5

\* A loop that was not open before has just begun.
LEMMA LoopsBegin ==
    ASSUME TypeOK, TypeOK', Next, NEW i \in 1..Depth', stack'[i].pass > 0
    PROVE  \/ i \in 1..Depth /\ stack[i].pass > 0
           \/ i = Depth + 1 /\ (Loop \/ While)
<1> USE StackFacts
<1>0. Depth \in Nat /\ \A j \in 1..Depth : stack[j] \in Frame
  BY DEF TypeOK, Depth
<1>s. ASSUME stack' = stack  PROVE i \in 1..Depth /\ stack[i].pass > 0
  BY <1>s DEF Depth
<1>p. ASSUME NEW f \in Frame, f.pass = 0, stack' = Append(stack, f)
      PROVE  i \in 1..Depth /\ stack[i].pass > 0
  <2>1. Depth' = Depth + 1 /\ stack'[Depth + 1] = f /\ \A j \in 1..Depth : stack'[j] = stack[j]
    BY <1>p DEF Depth
  <2>2. i # Depth + 1
    BY <1>p, <2>1
  <2> QED
    BY <1>0, <2>1, <2>2
<1>t. ASSUME Depth > 0, NEW f \in Frame, f.pass > 0 => Top.pass > 0, stack' = SetTop(f)
      PROVE  i \in 1..Depth /\ stack[i].pass > 0
  <2>1. Depth' = Depth /\ stack'[Depth] = f /\ \A j \in 1..Depth-1 : stack'[j] = stack[j]
    BY <1>t DEF Depth
  <2> QED
    BY <1>0, <1>t, <2>1 DEF Top
<1>d. ASSUME Depth > 0, NEW v \in State, stack' \in {Below, Unshare(Below, v)}
      PROVE  i \in 1..Depth /\ stack[i].pass > 0
  <2>1. /\ Below \in Seq(Frame) /\ Len(Below) = Depth - 1
        /\ \A j \in 1..Depth-1 : Below[j] = stack[j]
    BY <1>d
  <2>u. /\ Len(Unshare(Below, v)) = Depth - 1
        /\ \A j \in 1..Depth-1 : SameButInit(Unshare(Below, v)[j], Below[j])
    BY <2>1, UnshareFacts
  <2>2. /\ Len(stack') = Depth - 1
        /\ \A j \in 1..Depth-1 : stack'[j].pass = stack[j].pass
    BY <1>d, <2>1, <2>u DEF SameButInit
  <2>3. i \in 1..Depth-1
    BY <2>2 DEF Depth
  <2> QED
    BY <1>0, <2>2, <2>3
<1>1. ASSUME \E p \in Path : Use(p) \/ Move(p) \/ Assign(p)  PROVE i \in 1..Depth /\ stack[i].pass > 0
  BY <1>1, <1>s DEF Use, Move, Assign
<1>2. ASSUME Return \/ Goto \/ Label \/ Function \/ Test  PROVE i \in 1..Depth /\ stack[i].pass > 0
  BY <1>2, <1>s DEF Return, Goto, Label, checker, Function, Test, NextUnit
<1>3. ASSUME If \/ \E b \in BOOLEAN : Match(b)  PROVE i \in 1..Depth /\ stack[i].pass > 0
  <2>1. \A k \in {"then", "match"}, b \in BOOLEAN :
           /\ NewFrame(k, Current, 0, b, 1) \in Frame
           /\ NewFrame(k, Current, 0, b, 1).pass = 0
    <3>1. Current \in State /\ \A k \in {"then", "match"} : k \in FrameKind
      BY CurrentFacts DEF FrameKind
    <3>2. \A k \in {"then", "match"}, b \in BOOLEAN : NewFrame(k, Current, 0, b, 1) \in Frame
      BY <3>1, FrameFacts
    <3> QED
      BY <3>2 DEF NewFrame
  <2> QED
    BY <1>3, <1>p, <2>1 DEF If, Match, Push
<1>4. ASSUME Else \/ Case \/ Do  PROVE i \in 1..Depth /\ stack[i].pass > 0
  <2>1. Depth > 0 /\ Top \in Frame
    BY <1>4 DEF Else, Case, Do, TopIs
  <2>2. Reachable \in State /\ Merged \in State
    BY <2>1, CurrentFacts, FrameParts, MergeIntoFacts DEF Merged
  <2> DEFINE f == [Top EXCEPT !.kind = "else", !.out = Reachable]
             g == [Top EXCEPT !.kind = "case", !.out = Merged]
             h == [Top EXCEPT !.kind = "body"]
  <2>3. /\ f \in Frame /\ f.pass = Top.pass /\ g \in Frame /\ g.pass = Top.pass
        /\ h \in Frame /\ h.pass = Top.pass
    BY <2>1, <2>2 DEF Frame, FrameKind
  <2>4. stack' \in {SetTop(f), SetTop(g), SetTop(h)}
    BY <1>4 DEF Else, Case, Do
  <2> HIDE DEF f, g, h
  <2> QED
    BY <1>t, <2>1, <2>3, <2>4
<1>5. ASSUME EndIf \/ EndMatch \/ EndLoop  PROVE i \in 1..Depth /\ stack[i].pass > 0
  <2>1. Depth > 0 /\ Top \in Frame
    BY <1>5 DEF EndIf, EndMatch, EndLoop, TopIs
  <2>2. Top.init \in State /\ InitialAtEnd \in State
    BY <2>1, CurrentFacts, FrameParts DEF InitialAtEnd
  <2>3. \E v \in State : stack' \in {Below, Unshare(Below, v)}
    BY <1>5, <2>2 DEF EndIf, EndMatch, EndLoop
  <2> QED
    BY <1>d, <2>1, <2>3
<1>6. ASSUME SecondPass  PROVE i \in 1..Depth /\ stack[i].pass > 0
  <2>1. Depth > 0 /\ Top \in Frame /\ Top.pass = 1
    BY <1>6 DEF SecondPass, TopIs
  <2>2. Again(Now)
    BY <1>6, NowIs DEF SecondPass, Again, EndOf, NextIter
  <2>3. stack' = SetTop(AgainFrame(Now))
    BY <1>6, NowIs DEF SecondPass, AgainFrame, EndOf, NextIter, InitialOf, InitialAtEnd
  <2>4. AgainFrame(Now) \in Frame
    <3>1. Now \in Config
      BY DEF TypeOK, Now, Config
    <3> QED
      BY <2>1, <3>1, NowIs, EndFacts
  <2> QED
    BY <1>t, <2>1, <2>3, <2>4
<1>7. ASSUME NEW t \in 1..MaxNest, Break(t)  PROVE i \in 1..Depth /\ stack[i].pass > 0
  <2>1. PICK k \in 1..Depth : stack' = [j \in 1..Depth |-> BrokenFrame(j, k, t)]
    BY <1>7 DEF Break
  <2>2. Depth' = Depth
    BY <1>0, <2>1 DEF Depth
  <2>3. ASSUME NEW j \in 1..Depth  PROVE stack'[j].pass = stack[j].pass
    <3> DEFINE o == IF j = k /\ ~MoveChecksOnly THEN MergeInto(stack[j].out, Current) ELSE stack[j].out
               l == stack[j].broken \/ j = t
    <3>1. stack'[j] = [stack[j] EXCEPT !.out = o, !.broken = l] /\ stack[j] \in Frame
      BY <1>0, <2>1 DEF BrokenFrame
    <3> HIDE DEF o, l
    <3> QED
      BY <3>1 DEF Frame
  <2> QED
    BY <2>2, <2>3
<1>8. ASSUME NEW t \in 1..MaxNest, Continue(t)  PROVE i \in 1..Depth /\ stack[i].pass > 0
  <2>1. PICK k \in 1..Depth : stack' = [stack EXCEPT ![k].cont = MergeInto(@, Current)]
    BY <1>8 DEF Continue
  <2> DEFINE f == [stack[k] EXCEPT !.cont = MergeInto(stack[k].cont, Current)]
  <2>2. f \in Frame /\ f.pass = stack[k].pass
    <3>1. MergeInto(stack[k].cont, Current) \in State
      BY <1>0, CurrentFacts, FrameParts, MergeIntoFacts
    <3>2. stack[k] \in Frame
      BY <1>0
    <3> QED
      BY ONLY <3>1, <3>2 DEF Frame
  <2>3. stack' = [stack EXCEPT ![k] = f] /\ stack \in Seq(Frame) /\ k \in 1..Len(stack)
    BY <2>1 DEF TypeOK, Depth
  <2> HIDE DEF f
  <2>4. Len(stack') = Len(stack) /\ \A j \in 1..Len(stack) : stack'[j] = IF j = k THEN f ELSE stack[j]
    BY <2>2, <2>3, ExceptSeq
  <2> QED
    BY <2>2, <2>4 DEF Depth
<1>9. ASSUME Loop \/ While
      PROVE  i = Depth + 1 \/ (i \in 1..Depth /\ stack[i].pass > 0)
  <2>1. Depth' = Depth + 1 /\ \A j \in 1..Depth : stack'[j] = stack[j]
    BY <1>9, LoopOpens
  <2> QED
    BY <1>0, <2>1
<1> QED
  BY <1>1, <1>2, <1>3, <1>4, <1>5, <1>6, <1>7, <1>8, <1>9 DEF Next

\* What a step never takes back.
LEMMA StepKeeps ==
    ASSUME TypeOK, Next
    PROVE  movesOnly' = movesOnly /\ (reported => reported') /\ (swallowed => swallowed')
<1>1. UNCHANGED movesOnly
  BY DEF Next, Use, Move, Assign, If, Else, EndIf, Match, Case, EndMatch, Loop, While, EnterLoop, Do,
         SecondPass, EndLoop, Break, Continue, Return, Goto, Label, checker, Function, Test, NextUnit
<1>2. UNCHANGED <<reported, swallowed>> \/ \E p \in Path : CheckUse(p)
  BY DEF Next, Use, Move, Assign, If, Else, EndIf, Match, Case, EndMatch, Loop, While, EnterLoop, Do,
         SecondPass, EndLoop, Break, Continue, Return, Goto, Label, checker, Function, Test, NextUnit
<1> QED
  BY <1>1, <1>2 DEF CheckUse, TypeOK

\* The checker's state is a configuration.
LEMMA NowFacts ==
    ASSUME TypeOK
    PROVE  /\ Now \in Config /\ Depth \in Nat
           /\ \A i \in 1..Depth : stack[i] \in Frame /\ stack[i].pass \in 0..2
<1>1. Now \in Config
  BY DEF TypeOK, Now, Config
<1>2. \A i \in 1..Depth : stack[i] \in Frame
  BY DEF TypeOK, Depth
<1> QED
  BY <1>1, <1>2, StackFacts, FrameParts

\* So is the next one.
LEMMA NowFactsNext ==
    ASSUME TypeOK'
    PROVE  Now' \in Config
<1>1. /\ moved' \subseteq Path /\ unreachable' \in BOOLEAN /\ stack' \in Seq(Frame)
      /\ pc' \in Nat \ {0}
  BY DEF TypeOK
<1> QED
  BY <1>1 DEF Now, Config

\* The log is read or grows.
LEMMA LogSoundStep ==
    ASSUME TypeOK, TypeOK', LogSound, Next
    PROVE  LogSound'
<1>0. log \in Seq(Event) /\ pc \in Nat \ {0} /\ Len(log) \in Nat /\ pc <= Len(log) + 1
  BY DEF TypeOK, LogSound
<1>t. log' \in Seq(Event) /\ pc' \in Nat \ {0} /\ Len(log') \in Nat
  BY DEF TypeOK
<1>s. ASSUME NEW e \in Event, Step(e)  PROVE pc' <= Len(log') + 1
  <2>1. CASE InLoop
    <3>1. pc <= Len(log')
      BY <1>s, <2>1, EventIsLogged DEF Step
    <3> QED
      BY <1>0, <1>t, <1>s, <2>1, <3>1 DEF Step
  <2>2. CASE ~InLoop
    BY <1>0, <1>s, <2>2 DEF Step, Logged
  <2> QED
    BY <2>1, <2>2
<1>1. pc' <= Len(log') + 1
  <2>1. CASE \E e \in Event : Step(e)
    BY <1>s, <2>1
  <2>2. CASE SecondPass
    <3>1. Depth \in 1..Depth /\ Top.pass = 1
      BY <2>2, NowFacts DEF SecondPass, TopIs
    <3>2. Top.from <= Len(log) + 1 /\ InLoop
      BY <3>1 DEF LogSound, Top, InLoop
    <3>3. Len(log') >= Len(log)
      BY <2>2, <3>2, EventFacts, EventIsLogged DEF SecondPass
    <3>4. pc' = Top.from
      BY <2>2 DEF SecondPass
    <3> QED
      BY <1>0, <1>t, <3>2, <3>3, <3>4
  <2>3. CASE EndLoop
    <3>1. CASE \E i \in 1..Depth-1 : stack[i].pass > 0
      <4>1. InLoop
        BY <3>1, NowFacts DEF InLoop
      <4>2. Read(<<"endloop">>) /\ log' = Logged(<<"endloop">>) /\ pc' = pc + 1
        BY <2>3, <3>1 DEF EndLoop
      <4>3. pc <= Len(log')
        BY <4>1, <4>2, EventFacts, EventIsLogged
      <4> QED
        BY <1>0, <1>t, <4>2, <4>3
    <3>2. CASE ~\E i \in 1..Depth-1 : stack[i].pass > 0
      <4>1. log' = <<>> /\ pc' = 1
        BY <2>3, <3>2 DEF EndLoop
      <4> QED
        BY <4>1
    <3> QED
      BY <3>1, <3>2
  <2>4. (\E e \in Event : Step(e)) \/ SecondPass \/ EndLoop
    <3>1. \A t \in 1..MaxNest : t \in Nat
      BY BoundAssumption
    <3>2. (\E p \in Path : Use(p) \/ Move(p) \/ Assign(p)) => \E e \in Event : Step(e)
      BY EventFacts DEF Use, Move, Assign
    <3>3. If \/ Else \/ EndIf \/ Case \/ EndMatch \/ Loop \/ While \/ Do \/ Return \/ Goto \/ Label
            \/ Function \/ Test => \E e \in Event : Step(e)
      BY EventFacts DEF If, Else, EndIf, Case, EndMatch, Loop, While, EnterLoop, Do, Return, Goto,
           Label, Function, Test, NextUnit
    <3>4. (\E d \in BOOLEAN : Match(d)) => \E e \in Event : Step(e)
      BY EventFacts DEF Match
    <3>5. (\E t \in 1..MaxNest : Break(t) \/ Continue(t)) => \E e \in Event : Step(e)
      BY <3>1, EventFacts DEF Break, Continue
    <3> QED
      BY <3>2, <3>3, <3>4, <3>5 DEF Next
  <2> QED
    BY <2>1, <2>2, <2>3, <2>4
<1>2. ASSUME NEW i \in 1..Depth', stack'[i].pass > 0  PROVE stack'[i].from <= Len(log') + 1
  <2>1. CASE i \in 1..Depth /\ stack[i].pass > 0
    <3>0. i <= Depth'
      BY NowFacts
    <3>1. PICK e \in Event : Tells(e)
      BY <2>1, <3>0, StepTells
    <3>2. Does(movesOnly, e, Now, Now') /\ Len(log') >= Len(log)
      BY <3>1 DEF Tells
    <3>3. Now \in Config /\ Now' \in Config
      BY NowFacts, NowFactsNext
    <3>4. Height(Now) = Depth /\ Height(Now') = Depth' /\ Now.stack = stack /\ Now'.stack = stack'
          /\ Crest(Now) = Top
      BY NowIs, NowIsNext DEF Height, Depth
    <3>5. Stays(stack[i], stack'[i]) \/ Restarts(i, Now, Now')
      BY <2>1, <3>0, <3>2, <3>3, <3>4, LoopStays
    <3>6. Restarts(i, Now, Now') => stack'[i].from = stack[i].from
      BY <2>1, <3>4, NowFacts DEF Restarts, Raises, AgainFrame, Frame, Top
    <3>7. stack'[i].from = stack[i].from
      BY <3>5, <3>6 DEF Stays
    <3>8. stack[i].from <= Len(log) + 1 /\ stack[i].from \in Nat
      BY <2>1, NowFacts, FrameParts DEF LogSound
    <3> QED
      BY <1>0, <1>t, <3>2, <3>7, <3>8
  <2>2. CASE i = Depth + 1 /\ (Loop \/ While)
    BY <1>1, <2>2, LoopOpens
  <2> QED
    BY <1>2, <2>1, <2>2, LoopsBegin
<1> QED
  BY <1>1, <1>2 DEF LogSound

\* What the second pass suppresses was reported before.
LEMMA SwallowedStep ==
    ASSUME TwoPasses, TypeOK', Next, movesOnly
    PROVE  swallowed' => reported'
<1> SUFFICES ASSUME swallowed', ~swallowed  PROVE reported
  BY StepKeeps DEF TwoPasses, SwallowedWasReported
<1>0. TypeOK /\ LogSound
  BY DEF TwoPasses
<1>1. \E p \in Path : CheckUse(p) /\ stack' = stack
  <2>1. UNCHANGED swallowed \/ \E p \in Path : CheckUse(p) /\ stack' = stack
    BY DEF Next, Use, Move, Assign, If, Else, EndIf, Match, Case, EndMatch, Loop, While, EnterLoop, Do,
         SecondPass, EndLoop, Break, Continue, Return, Goto, Label, checker, Function, Test, NextUnit
  <2> QED
    BY <1>0, <2>1 DEF TypeOK
<1>2. PICK i \in 1..Depth : Innermost(i) /\ stack[i].pass = 2
  BY <1>0, <1>1 DEF CheckUse, Hidden, TypeOK
<1>3. PICK e \in Event : Tells(e)
  <2>1. i <= Depth'
    BY <1>0, <1>1, <1>2, NowFacts DEF Depth
  <2> QED
    BY <1>0, <1>2, <2>1, StepTells
<1>4. e[1] \in {"use", "move"} /\ e[2] \in Path /\ CheckUse(e[2])
  <2>1. swallowed' # swallowed
    BY <1>0 DEF TypeOK
  <2> QED
    BY <1>3, <2>1 DEF Tells
<1>5. PICK q \in Owner[e[2]] \cap moved : Hidden(q)
  BY <1>0, <1>4 DEF CheckUse, TypeOK
<1>6. q \in stack[i].start
  <2>1. PICK j \in 1..Depth : Innermost(j) /\ q \in stack[j].start
    BY <1>5 DEF Hidden
  <2>2. j = i
    <3>1. Depth \in Nat
      BY <1>0, NowFacts
    <3>2. j < i => i \in j+1..Depth
      BY <3>1
    <3>3. i < j => j \in i+1..Depth
      BY <3>1
    <3> QED
      BY <1>2, <2>1, <3>1, <3>2, <3>3 DEF Innermost
  <2> QED
    BY <2>1, <2>2
<1>7. PICK n \in Nat : \E T \in [0..n -> Config], k \in 0..n :
            /\ FirstPass(reported, i, stack[i], log, n, T)
            /\ Ended(i, stack[i], log, T[n])
            /\ Paired(Watched(stack[i]), i, T[k], Now)
  BY <1>2 DEF TwoPasses, PassTwo
<1>8. PICK T \in [0..n -> Config], k \in 0..n :
            /\ FirstPass(reported, i, stack[i], log, n, T)
            /\ Ended(i, stack[i], log, T[n])
            /\ Paired(Watched(stack[i]), i, T[k], Now)
  BY <1>7
<1>9. q \in T[k].moved /\ T[k].pc = pc
  <2>1. /\ Now.moved \cap Watched(stack[i]) \subseteq T[k].moved /\ T[k].pc = Now.pc
    BY <1>8 DEF Paired
  <2> QED
    BY <1>5, <1>6, <2>1, NowIs DEF Watched
<1>10. \A j \in 1..Len(log) : log'[j] = log[j] /\ log'[pc] = e
  BY <1>3 DEF Tells
<1>11. k # n
  <2>1. k = n => log[pc] = <<"endloop">> /\ pc \in 1..Len(log)
    BY <1>8, <1>9 DEF Ended
  <2>2. <<"endloop">>[1] = "endloop"
    OBVIOUS
  <2> QED
    BY <1>4, <1>10, <2>1, <2>2
<1>12. pc \in 1..Len(log) /\ Answers(reported, log[pc], T[k])
  <2>1. k < n
    BY <1>11
  <2>2. T[k].pc \in 1..Len(log) /\ Answers(reported, log[T[k].pc], T[k])
    BY <1>8, <2>1 DEF FirstPass
  <2> QED
    BY <1>9, <2>2
<1>13. log[pc] = e
  BY <1>10, <1>12
<1> QED
  BY <1>4, <1>5, <1>9, <1>12, <1>13 DEF Answers

\* The event that a step takes is answered for.
LEMMA StepAnswers ==
    ASSUME TypeOK, NEW e \in Event, Tells(e), swallowed' => reported'
    PROVE  Answers(reported', e, Now)
<1> SUFFICES ASSUME e[1] \in {"use", "move"}, Owner[e[2]] \cap moved # {}  PROVE reported'
  BY NowIs DEF Answers
<1>1. CheckUse(e[2])
  BY DEF Tells
<1>2. PICK q \in Owner[e[2]] \cap moved : TRUE
  OBVIOUS
<1>3. reported' \/ swallowed'
  BY <1>1, <1>2 DEF CheckUse, TypeOK
<1> QED
  BY <1>3

\* A loop begins: its first pass has one state.
LEMMA PassOneBegins ==
    ASSUME TypeOK, TypeOK', NEW i, i = Depth + 1, Loop \/ While
    PROVE  (PassOne(i) /\ PassTwo(i))'
<1> DEFINE T == [k \in 0..0 |-> Now']
<1>1. /\ Depth' = i /\ stack'[i].pass = 1 /\ stack'[i].from = pc' /\ stack'[i].start = moved'
      /\ unreachable' = FALSE /\ stack'[i].cont = NoState /\ Depth' \in Nat /\ i \in 1..i
      /\ stack'[i].kind = (IF stack'[i].open THEN "cond" ELSE "body")
  <2>1. Depth \in Nat
    BY NowFacts
  <2>2. /\ Depth' = Depth + 1 /\ stack'[Depth + 1].pass = 1
        /\ stack'[Depth + 1].from = pc' /\ stack'[Depth + 1].start = moved'
        /\ unreachable' = FALSE /\ stack'[Depth + 1].cont = NoState
        /\ stack'[Depth + 1].kind = (IF stack'[Depth + 1].open THEN "cond" ELSE "body")
    BY LoopOpens
  <2> QED
    BY <2>1, <2>2
<1>2. T \in [0..0 -> Config] /\ T[0] = Now' /\ 0..0 = {0} /\ 0 \in Nat /\ 0 \in 0..0
  BY NowFactsNext
<1> HIDE DEF T
<1>3. /\ Now'.pc = pc' /\ Now'.moved = moved' /\ Now'.unreachable = unreachable' /\ Now'.stack = stack'
      /\ Height(Now') = i
  BY <1>1, NowIsNext DEF Height, Depth
<1>4. FirstPass(reported', i, stack'[i], log', 0, T)
  <2>1. T[0].stack[i] = stack'[i] /\ Height(T[0]) = i
    BY <1>2, <1>3
  <2>2. \A k \in 0..0 : k = 0 /\ ~(k < 0)
    OBVIOUS
  <2>3. T[0].pc = pc' /\ T[0].moved = moved' /\ T[0].unreachable = FALSE
    BY <1>1, <1>2, <1>3
  <2> QED
    BY <1>1, <2>1, <2>2, <2>3 DEF FirstPass
<1>5. SoFar(reported', i, stack'[i], log', Now')
  BY <1>2, <1>4 DEF SoFar
<1> QED
  BY <1>1, <1>5 DEF PassOne, PassTwo

\* The first pass goes on, or ends and the second one begins.
LEMMA PassOneGoesOn ==
    ASSUME TwoPasses, TypeOK', movesOnly, swallowed' => reported', reported => reported',
           NEW i \in 1..Depth, i <= Depth', stack[i].pass = 1, NEW e \in Event, Tells(e)
    PROVE  (PassOne(i) /\ PassTwo(i))'
<1>0. TypeOK /\ LogSound /\ movesOnly = TRUE
  BY DEF TwoPasses, TypeOK
<1>l. /\ log \in Seq(Event) /\ log' \in Seq(Event) /\ Len(log') >= Len(log) /\ pc \in 1..Len(log')
      /\ \A k \in 1..Len(log) : log'[k] = log[k]
      /\ log'[pc] = e /\ Does(TRUE, e, Now, Now') /\ pc <= Len(log')
  <2>1. log \in Seq(Event) /\ log' \in Seq(Event) /\ pc \in Nat \ {0}
    BY <1>0 DEF TypeOK
  <2>2. /\ Len(log') >= Len(log) /\ \A k \in 1..Len(log) : log'[k] = log[k]
        /\ pc <= Len(log') /\ log'[pc] = e /\ Does(movesOnly, e, Now, Now')
    BY DEF Tells
  <2>3. Does(TRUE, e, Now, Now')
    BY <1>0, <2>2
  <2>4. pc \in 1..Len(log')
    BY <2>1, <2>2
  <2> QED
    BY <2>1, <2>2, <2>3, <2>4
<1>n. /\ Now \in Config /\ Now' \in Config /\ Height(Now) = Depth /\ Height(Now') = Depth'
      /\ Now.stack = stack /\ Now'.stack = stack' /\ Now.pc = pc /\ Crest(Now) = Top
      /\ stack[i] \in Frame /\ Depth \in Nat
  BY <1>0, NowFacts, NowFactsNext, NowIs, NowIsNext DEF Height, Depth
<1>1. PICK n \in Nat : \E T \in [0..n -> Config] :
            /\ FirstPass(reported, i, stack[i], log, n, T)
            /\ T[n] = Now
  BY DEF TwoPasses, PassOne, SoFar
<1>2. PICK T \in [0..n -> Config] :
            /\ FirstPass(reported, i, stack[i], log, n, T)
            /\ T[n] = Now
  BY <1>1
<1>3. Stays(stack[i], stack'[i]) \/ (e[1] = "endloop" /\ Restarts(i, Now, Now'))
  BY <1>l, <1>n, LoopStays
<1>4. CASE Stays(stack[i], stack'[i])
  <2>1. /\ stack'[i].from = stack[i].from /\ stack'[i].start = stack[i].start
        /\ stack'[i].open = stack[i].open /\ stack'[i].pass = 1
    BY <1>4 DEF Stays
  <2>2. FirstPass(reported', i, stack'[i], log', n, T)
    BY <1>l, <1>2, <2>1, FirstPassKept
  <2>3. Answers(reported', e, Now)
    BY <1>0, StepAnswers
  <2>4. SoFar(reported', i, stack'[i], log', Now')
    <3>1. /\ T[n].pc \in 1..Len(log') /\ Does(TRUE, log'[T[n].pc], T[n], Now')
          /\ Answers(reported', log'[T[n].pc], T[n])
      BY <1>l, <1>n, <1>2, <2>3
    <3>2. i <= Height(Now') /\ Now'.stack[i].pass = 1 /\ Now'.stack[i].open = stack'[i].open
      BY <1>n, <2>1
    <3>3. log' \in Seq(Event) /\ Now' \in Config
      BY <1>l, <1>n
    <3> QED
      BY <2>2, <3>1, <3>2, <3>3, FirstPassGrows
  <2> QED
    BY <2>1, <2>4 DEF PassOne, PassTwo
<1>5. CASE e[1] = "endloop" /\ Restarts(i, Now, Now')
  <2> DEFINE f == stack'[i]
  <2>1. /\ i = Depth /\ Again(Now) /\ DoesAgain(Now, Now') /\ f = AgainFrame(Now)
        /\ Top = stack[i] /\ stack[i].kind = "body"
    BY <1>n, <1>5 DEF Restarts, Raises, Again, CrestIs, Top
  <2>2. /\ EndOf(Now) \in State /\ InitialOf(Now) \in State /\ NoState \in State
        /\ EndOf(Now).moved \subseteq Path
    BY <1>n, <2>1, EndFacts, StateFacts
  <2>3. /\ f.from = stack[i].from /\ f.start = stack[i].start /\ f.open = stack[i].open
        /\ f.pass = 2 /\ f.next = EndOf(Now) /\ f.cont = NoState
        /\ f.kind = (IF stack[i].open THEN "cond" ELSE "body")
    BY <1>n, <2>1, <2>2 DEF AgainFrame, Frame
  <2> HIDE DEF f
  <2>4. FirstPass(reported', i, f, log', n, T)
    BY <1>l, <1>2, <2>3, FirstPassKept
  <2>5. e = <<"endloop">>
    BY <1>5 DEF Event
  <2>6. Ended(i, f, log', T[n])
    BY <1>l, <1>n, <1>2, <2>1, <2>3, <2>5 DEF Ended
  <2>7. Paired(Watched(f), i, T[0], Now')
    <3>1. /\ Height(T[0]) = i /\ T[0].pc = f.from /\ T[0].moved = f.start /\ T[0].unreachable = FALSE
          /\ T[0].stack[i].kind = (IF f.open THEN "cond" ELSE "body")
          /\ T[0].stack[i].cont = NoState /\ T[0].stack[i].pass = 1 /\ T[0].stack[i].open = f.open
          /\ i \in 1..Height(T[0])
      <4>1. 0 \in 0..n
        OBVIOUS
      <4> QED
        BY <2>4, <4>1 DEF FirstPass
    <3>2. /\ Height(Now') = i /\ Now'.pc = f.from /\ Now'.moved = EndOf(Now).moved
          /\ Now'.unreachable = FALSE /\ Now'.stack[i] = f
      <4>1. Depth' = Depth
        BY <1>n, <1>5 DEF Restarts, Raises
      <4> QED
        BY <1>n, <2>1, <2>3, <4>1 DEF DoesAgain, f
    <3>3. Now'.moved \cap Watched(f) \subseteq T[0].moved
      BY <2>2, <2>3, <3>1, <3>2 DEF Watched
    <3>4. \A j \in i+1..i : FALSE
      BY <1>n
    <3>5. Less(Watched(f), NoState, NoState)
      BY LessItself
    <3> QED
      BY <2>3, <3>1, <3>2, <3>3, <3>4, <3>5 DEF Paired
  <2>8. \E m \in Nat : \E U \in [0..m -> Config], k \in 0..m :
            /\ FirstPass(reported', i, stack'[i], log', m, U)
            /\ Ended(i, stack'[i], log', U[m])
            /\ Paired(Watched(stack'[i]), i, U[k], Now')
    <3>1. 0 \in 0..n
      OBVIOUS
    <3> QED
      BY <2>4, <2>6, <2>7, <3>1 DEF f
  <2>9. stack'[i].pass = 2
    BY <2>3 DEF f
  <2> QED
    BY <2>8, <2>9 DEF PassOne, PassTwo
<1> QED
  BY <1>3, <1>4, <1>5

\* The end of the first pass is the end of the second.
LEMMA PairEnds ==
    ASSUME NEW flag, NEW f, NEW l, NEW S, NEW i, NEW n \in Nat, NEW T \in [0..n -> Config],
           NEW k \in 0..n, NEW d \in Config, Paired(S, i, T[k], d), FirstPass(flag, i, f, l, n, T),
           Height(d) = i, l[d.pc] = <<"endloop">>
    PROVE  k = n
<1> SUFFICES ASSUME k < n  PROVE FALSE
  OBVIOUS
<1>1. /\ T[k].pc \in 1..Len(l) /\ Does(TRUE, l[T[k].pc], T[k], T[k + 1])
      /\ T[k].pc = d.pc /\ Height(T[k]) = i /\ i \in 1..i
  BY DEF FirstPass, Paired
<1>2. k + 1 \in 0..n
  OBVIOUS
<1>3. i \in 1..Height(T[k + 1]) /\ T[k + 1].stack[i].pass = 1 /\ T[k] \in Config /\ T[k + 1] \in Config
  BY <1>2 DEF FirstPass
<1>4. Does(TRUE, <<"endloop">>, T[k], T[k + 1]) /\ <<"endloop">>[1] = "endloop"
  BY <1>1
<1>5. CASE Again(T[k]) /\ DoesAgain(T[k], T[k + 1])
  <2>1. Height(T[k]) > 0 /\ AgainFrame(T[k]) \in Frame /\ Crest(T[k]) \in Frame
    BY <1>1, <1>3, EndFacts, ConfigFacts
  <2>2. Raises(T[k], T[k + 1], AgainFrame(T[k]))
    BY <1>3, <1>5, <2>1, ReplacedFrames DEF DoesAgain
  <2>3. AgainFrame(T[k]).pass = 2
    BY <2>1 DEF AgainFrame, Frame
  <2> QED
    BY <1>1, <1>3, <2>2, <2>3 DEF Raises
<1>6. CASE DoesLeave(T[k], T[k + 1])
  <2>1. \E v \in State, s \in BOOLEAN : Drops(T[k], T[k + 1], v, s)
    <3>1. Height(T[k]) > 0
      BY <1>1, <1>3, ConfigFacts
    <3>2. InitialOf(T[k]) \in State /\ FinalOf(T[k]).some \in BOOLEAN
      BY <1>3, <3>1, EndFacts, StateFacts
    <3> QED
      BY <1>3, <1>6, <3>1, <3>2, PoppedFrames DEF DoesLeave
  <2>2. Height(T[k + 1]) = i - 1
    BY <1>1, <2>1 DEF Drops
  <2> QED
    BY <1>1, <1>3, <2>2
<1> QED
  BY <1>4, <1>5, <1>6 DEF Does

\* The second pass follows the first one.
LEMMA PassTwoGoesOn ==
    ASSUME TwoPasses, TypeOK', movesOnly, reported => reported',
           NEW i \in 1..Depth, i <= Depth', stack[i].pass = 2, NEW e \in Event, Tells(e)
    PROVE  (PassOne(i) /\ PassTwo(i))'
<1>0. TypeOK /\ LogSound /\ movesOnly = TRUE
  BY DEF TwoPasses, TypeOK
<1>l. /\ log \in Seq(Event) /\ log' \in Seq(Event) /\ Len(log') >= Len(log)
      /\ \A k \in 1..Len(log) : log'[k] = log[k]
      /\ log'[pc] = e /\ Does(TRUE, e, Now, Now')
  <2>1. log \in Seq(Event) /\ log' \in Seq(Event)
    BY <1>0 DEF TypeOK
  <2>2. /\ Len(log') >= Len(log) /\ \A k \in 1..Len(log) : log'[k] = log[k]
        /\ log'[pc] = e /\ Does(movesOnly, e, Now, Now')
    BY DEF Tells
  <2> QED
    BY <1>0, <2>1, <2>2
<1>n. /\ Now \in Config /\ Now' \in Config /\ Height(Now) = Depth /\ Height(Now') = Depth'
      /\ Now.stack = stack /\ Now'.stack = stack' /\ Now.pc = pc /\ Crest(Now) = Top
      /\ stack[i] \in Frame /\ Depth \in Nat
  BY <1>0, NowFacts, NowFactsNext, NowIs, NowIsNext DEF Height, Depth
<1>1. PICK n \in Nat : \E T \in [0..n -> Config], k \in 0..n :
            /\ FirstPass(reported, i, stack[i], log, n, T)
            /\ Ended(i, stack[i], log, T[n])
            /\ Paired(Watched(stack[i]), i, T[k], Now)
  BY DEF TwoPasses, PassTwo
<1>2. PICK T \in [0..n -> Config], k \in 0..n :
            /\ FirstPass(reported, i, stack[i], log, n, T)
            /\ Ended(i, stack[i], log, T[n])
            /\ Paired(Watched(stack[i]), i, T[k], Now)
  BY <1>1
<1>3. Stays(stack[i], stack'[i])
  <2>1. Restarts(i, Now, Now') => stack[i].pass = 1
    BY <1>n DEF Restarts, Again, Top
  <2>2. i \in 1..Height(Now) /\ i <= Height(Now')
    BY <1>n
  <2>3. Stays(Now.stack[i], Now'.stack[i]) \/ (e[1] = "endloop" /\ Restarts(i, Now, Now'))
    BY <1>l, <1>n, <2>2, LoopStays
  <2>4. stack[i].pass # 1
    OBVIOUS
  <2> QED
    BY <1>n, <2>1, <2>3, <2>4
<1>4. /\ stack'[i].from = stack[i].from /\ stack'[i].start = stack[i].start
      /\ stack'[i].open = stack[i].open /\ stack'[i].pass = 2 /\ stack'[i].next = stack[i].next
      /\ Watched(stack'[i]) = Watched(stack[i])
  BY <1>3 DEF Stays, Watched
<1>5. FirstPass(reported', i, stack'[i], log', n, T)
  BY <1>l, <1>2, <1>4, FirstPassKept
<1>6. Ended(i, stack'[i], log', T[n])
  BY <1>l, <1>2, <1>4 DEF Ended
<1>7. k # n
  <2> SUFFICES ASSUME k = n  PROVE FALSE
    OBVIOUS
  <2>1. /\ pc \in 1..Len(log) /\ log[pc] = <<"endloop">> /\ Height(Now) = i
    BY <1>2, <1>n DEF Ended, Paired
  <2>2. e[1] = "endloop"
    BY <1>l, <2>1
  <2>3. ~Again(Now)
    BY <1>n, <2>1 DEF Again, Crest
  <2>4. DoesLeave(Now, Now') /\ Height(Now) > 0
    BY <1>l, <1>n, <2>1, <2>2, <2>3 DEF Does
  <2>5. \E v \in State, s \in BOOLEAN : Drops(Now, Now', v, s)
    <3>1. InitialOf(Now) \in State /\ FinalOf(Now).some \in BOOLEAN
      BY <1>n, <2>4, EndFacts, StateFacts
    <3> QED
      BY <1>n, <2>4, <3>1, PoppedFrames DEF DoesLeave
  <2>6. Height(Now') = i - 1
    BY <2>1, <2>5 DEF Drops
  <2> QED
    BY <1>n, <2>6
<1>8. /\ k < n /\ k + 1 \in 0..n /\ T[k] \in Config /\ T[k + 1] \in Config
      /\ T[k].pc \in 1..Len(log) /\ Does(TRUE, log[T[k].pc], T[k], T[k + 1]) /\ T[k].pc = pc
      /\ i \in 1..Height(T[k + 1]) /\ T[k + 1].stack[i].pass = 1
  <2>1. k < n /\ k + 1 \in 0..n
    BY <1>7
  <2>2. T[k].pc = pc
    BY <1>2, <1>n DEF Paired
  <2> QED
    BY <1>2, <2>1, <2>2 DEF FirstPass
<1>9. Paired(Watched(stack[i]), i, T[k + 1], Now')
  <2>1. Does(TRUE, e, T[k], T[k + 1])
    BY <1>l, <1>8
  <2>2. Two(Watched(stack[i]), i, T[k], Now, T[k + 1], Now')
    BY <1>2, <1>8, <1>n DEF Two
  <2>3. Height(T[k + 1]) >= i
    BY <1>8, ConfigFacts
  <2> QED
    BY <1>l, <1>8, <2>1, <2>2, <2>3, PairStep
<1>10. \E U \in [0..n -> Config], m \in 0..n :
            /\ FirstPass(reported', i, stack'[i], log', n, U)
            /\ Ended(i, stack'[i], log', U[n])
            /\ Paired(Watched(stack'[i]), i, U[m], Now')
  BY <1>4, <1>5, <1>6, <1>8, <1>9
<1> QED
  BY <1>4, <1>10 DEF PassOne, PassTwo

\* The induction.
LEMMA TwoPassesStep == TwoPasses /\ [Next]_vars => TwoPasses'
<1> SUFFICES ASSUME TwoPasses, [Next]_vars  PROVE TwoPasses'
  OBVIOUS
<1>0. TypeOK /\ TypeOK'
  BY TypeStep DEF TwoPasses
<1>1. CASE Next
  <2>1. LogSound'
    BY <1>0, <1>1, LogSoundStep DEF TwoPasses
  <2>k. movesOnly' = movesOnly /\ (reported => reported')
    BY <1>0, <1>1, StepKeeps
  <2>2. SwallowedWasReported'
    BY <1>0, <1>1, <2>k, SwallowedStep DEF SwallowedWasReported
  <2>3. ASSUME movesOnly, NEW i \in 1..Depth'  PROVE (PassOne(i) /\ PassTwo(i))'
    <3>0. Depth \in Nat /\ i <= Depth' /\ stack'[i].pass \in Nat
      <4>1. stack' \in Seq(Frame)
        BY <1>0 DEF TypeOK
      <4>2. stack'[i] \in Frame
        BY <4>1 DEF Depth
      <4>3. stack'[i].pass \in 0..2
        BY <4>2, FrameParts
      <4> QED
        BY <1>0, <4>1, <4>3, NowFacts DEF Depth
    <3>1. CASE i \in 1..Depth /\ stack[i].pass > 0
      <4>1. PICK e \in Event : Tells(e)
        BY <1>0, <1>1, <3>0, <3>1, StepTells DEF TwoPasses
      <4>2. swallowed' => reported'
        BY <1>0, <1>1, <2>3, SwallowedStep
      <4>3. stack[i].pass \in {1, 2}
        BY <1>0, <3>1, NowFacts
      <4> QED
        BY <1>0, <2>3, <2>k, <3>0, <3>1, <4>1, <4>2, <4>3, PassOneGoesOn, PassTwoGoesOn
    <3>2. CASE i = Depth + 1 /\ (Loop \/ While)
      BY <1>0, <3>2, PassOneBegins
    <3>3. CASE ~(i \in 1..Depth /\ stack[i].pass > 0) /\ ~(i = Depth + 1 /\ (Loop \/ While))
      <4>1. ~(stack'[i].pass > 0)
        BY <1>0, <1>1, <3>3, LoopsBegin
      <4> QED
        BY <3>0, <4>1 DEF PassOne, PassTwo
    <3> QED
      BY <3>1, <3>2, <3>3
  <2> QED
    BY <1>0, <2>1, <2>k, <2>2, <2>3 DEF TwoPasses
<1>2. CASE UNCHANGED vars
  <2>1. /\ UNCHANGED <<moved, unreachable, stack, movesOnly, reported, swallowed, log, pc>>
        /\ Now' = Now /\ Depth' = Depth
    BY <1>2 DEF vars, checker, program, Now, Depth
  <2> QED
    BY <1>0, <2>1 DEF TwoPasses, LogSound, SwallowedWasReported, PassOne, PassTwo
<1> QED
  BY <1>1, <1>2

\* No loop is open at first.
LEMMA TwoPassesInit == TypeOK /\ Init => TwoPasses
<1> SUFFICES ASSUME TypeOK, Init  PROVE TwoPasses
  OBVIOUS
<1>1. Depth = 0 /\ Len(log) = 0 /\ pc = 1 /\ ~swallowed
  BY DEF Init, Depth
<1> QED
  BY <1>1 DEF TwoPasses, LogSound, SwallowedWasReported

\* In a build, what in_loop_pass2 silences was reported before, whatever edges the execution
\* takes: the second pass follows the first one state by state, and a place that was moved when
\* the loop began and is MOVED in the second pass was MOVED at the same statement in the first.
THEOREM SuppressedWasReported == Spec => []SwallowedWasReported
<1>1. Spec => []TypeOK
  BY TypeCorrect
<1>2. TypeOK /\ Init => TwoPasses
  BY TwoPassesInit
<1>3. TwoPasses /\ [Next]_vars => TwoPasses'
  BY TwoPassesStep
<1>4. TwoPasses => SwallowedWasReported
  BY DEF TwoPasses
<1> QED
  BY <1>1, <1>2, <1>3, <1>4, PTL DEF Spec

\* Where the second pass ends the first one has been, with at least what the second has.
LEMMA EndOfTwoPasses ==
    ASSUME TwoPasses, EndLoop, movesOnly, Top.pass = 2
    PROVE  /\ NextIter.moved \subseteq Top.next.moved
           /\ NextIter.some => Top.next.some
<1>0. TypeOK /\ Depth \in 1..Depth /\ Now \in Config /\ Depth \in Nat
  BY NowFacts DEF TwoPasses, EndLoop, TopIs
<1>n. Height(Now) = Depth /\ Now.pc = pc /\ Now.stack = stack /\ Crest(Now) = Top
      /\ Top = stack[Depth]
  BY NowIs DEF Top
<1>1. PICK n \in Nat : \E T \in [0..n -> Config], k \in 0..n :
          /\ FirstPass(reported, Depth, Top, log, n, T)
          /\ Ended(Depth, Top, log, T[n])
          /\ Paired(Watched(Top), Depth, T[k], Now)
  BY <1>0 DEF TwoPasses, PassTwo, Top
<1>2. PICK T \in [0..n -> Config], k \in 0..n :
          /\ FirstPass(reported, Depth, Top, log, n, T)
          /\ Ended(Depth, Top, log, T[n])
          /\ Paired(Watched(Top), Depth, T[k], Now)
  BY <1>1
<1>3. k = n
  <2>1. k < n => pc \in 1..Len(log)
    BY <1>2, <1>n DEF FirstPass, Paired
  <2>2. k = n => pc \in 1..Len(log)
    BY <1>2, <1>n DEF Ended, Paired
  <2>3. pc <= Len(log) /\ pc \in Nat
    BY <1>0, <2>1, <2>2 DEF TypeOK
  <2>4. log[pc] = <<"endloop">>
    BY <2>3 DEF EndLoop, Read
  <2> QED
    BY <1>0, <1>2, <1>n, <2>4, PairEnds
<1>4. Paired(Watched(Top), Depth, T[n], Now) /\ Top.next = EndOf(T[n]) /\ T[n] \in Config
  BY <1>2, <1>3 DEF Ended
<1>5. Less(Watched(Top), EndOf(T[n]), EndOf(Now)) /\ EndOf(Now) \in State
  <2>1. Alike(Watched(Top), Depth, T[n], Now)
    BY <1>0, <1>4, PairedParts
  <2>2. /\ HandedOver(T[n]) \in State /\ HandedOver(Now) \in State
        /\ Crest(T[n]).cont \in State /\ Crest(Now).cont \in State
    BY <1>0, <1>4, <2>1, ConfigFacts, FrameParts DEF Alike
  <2> QED
    BY <2>1, <2>2, LessMerge, MergeIntoFacts DEF Alike, EndOf
<1>6. NextIter = EndOf(Now)
  BY NowIs DEF NextIter, EndOf
<1> QED
  BY <1>4, <1>5, <1>6, StateFacts DEF Less, Watched

\* In a build the second pass ends in a state that the one it began with covers: a third pass
\* would find nothing new, for any body, any nesting and any set of places.
THEOREM TwoPassesAreEnough == Spec => TwoPassesSuffice
<1> DEFINE A == EndLoop /\ movesOnly /\ Top.pass = 2 => NextIter.moved \subseteq Top.next.moved
<1>1. Spec => []TypeOK
  BY TypeCorrect
<1>2. TypeOK /\ Init => TwoPasses
  BY TwoPassesInit
<1>3. TwoPasses /\ [Next]_vars => TwoPasses'
  BY TwoPassesStep
<1>4. TwoPasses => A
  BY EndOfTwoPasses
<1>5. TwoPasses /\ [Next]_vars => [A]_vars
  BY <1>4
<1> QED
  BY <1>1, <1>2, <1>3, <1>5, PTL DEF Spec, TwoPassesSuffice

-----------------------------------------------------------------------------
(* An execution of a build that leaves loops after their second iteration.   *)

\* The state of the second pass has what the first one handed over, and so has final_state.
LEMMA BuildStep == MergedEdges /\ TwoPasses /\ movesOnly /\ IInv /\ [Next]_vars => IInv'
<1> SUFFICES ASSUME MergedEdges, TwoPasses, movesOnly, IInv, [Next]_vars  PROVE IInv'
  OBVIOUS
<1>1. DeepCovered
  <2> SUFFICES ASSUME EndLoop, Top.open, Top.pass = 2, Running \/ loc = At("cont", Depth)
               PROVE  Covers(held, FinalState)
    BY DEF DeepCovered
  <2>1. TopIs({"body"})
    BY DEF EndLoop
  <2>2. Covers(held, NextIter) /\ Top.next \in State /\ Top.out \in State
    BY <2>1, AtEndOfBody
  <2>3. Covers(held, Top.next)
    BY <2>2, EndOfTwoPasses DEF Covers
  <2> QED
    BY <2>2, <2>3, MergeIntoFacts DEF FinalState, Covers
<1> QED
  BY <1>1, InvStep

\* In a build, a program that uses a moved value is rejected, and nothing it moved is lost, on
\* every execution along the edges that the checker merges states over and out of a loop whose
\* body ran twice or more: what the execution has moved away is MOVED where it goes on, the use
\* is flagged there, and if the second pass of a loop silenced the report, the first made it.
THEOREM BuildRejectsUseAfterMove ==
    ASSUME Edges \subseteq {"deep"}
    PROVE  Spec => [](movesOnly => Covered /\ UseAfterMoveRejected)
<1> DEFINE Inv == TwoPasses /\ (movesOnly => IInv)
<1>1. Spec => []TypeOK
  BY TypeCorrect
<1>2. TypeOK /\ Init => Inv
  BY TwoPassesInit, InvInit
<1>3. Inv /\ [Next]_vars => Inv'
  <2> SUFFICES ASSUME Inv, [Next]_vars  PROVE Inv'
    OBVIOUS
  <2>1. movesOnly' = movesOnly
    BY StepKeeps DEF TwoPasses, vars, checker
  <2> QED
    BY <2>1, TwoPassesStep, BuildStep DEF MergedEdges
<1>4. Inv => (movesOnly => Covered /\ UseAfterMoveRejected)
  BY InvImpliesCovered DEF TwoPasses, SwallowedWasReported, IInv, Flagged, UseAfterMoveRejected
<1> QED
  BY <1>1, <1>2, <1>3, <1>4, PTL DEF Spec
=============================================================================
