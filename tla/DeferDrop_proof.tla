--------------------------- MODULE DeferDrop_proof ---------------------------
(***************************************************************************)
(* DeferDrop implements Scopes for every value of its constants, as long as *)
(* programs have no construct that leaves blocks or redeclares names behind *)
(* the generator's back.                                                   *)
(*                                                                         *)
(* IInv is inductive.  The refinement mapping shows the outermost Blocks    *)
(* blocks, where the execution is, and the first Height entries of the      *)
(* defer stack: every action extends or cuts these two, which the step      *)
(* lemmas (WorkStep to RepeatStep) turn into the steps of Scopes.           *)
(***************************************************************************)
EXTENDS DeferDrop, SequenceTheorems, TLAPS

-----------------------------------------------------------------------------
(* Prefixes of sequences *)

\* The first n elements of a sequence.
LEMMA Prefix ==
    ASSUME NEW S, NEW s \in Seq(S), NEW n \in 0..Len(s)
    PROVE  /\ SubSeq(s, 1, n) \in Seq(S)
           /\ Len(SubSeq(s, 1, n)) = n
           /\ \A i \in 1..n : SubSeq(s, 1, n)[i] = s[i]
<1>1. n \in Int /\ 1 \in Int /\ \A i \in 1..n : s[i] \in S
  OBVIOUS
<1>2. /\ SubSeq(s, 1, n) \in Seq(S)
      /\ Len(SubSeq(s, 1, n)) = IF 1 <= n THEN n-1+1 ELSE 0
      /\ \A i \in 1 .. n-1+1 : SubSeq(s, 1, n)[i] = s[1+i-1]
  BY <1>1, SubSeqProperties
<1> QED  BY <1>2

\* A sequence that agrees with a prefix is that prefix.
LEMMA IsPrefix ==
    ASSUME NEW S, NEW s \in Seq(S), NEW t \in Seq(S), NEW n \in 0..Len(s),
           Len(t) = n, \A i \in 1..n : t[i] = s[i]
    PROVE  t = SubSeq(s, 1, n)
<1> DEFINE u == SubSeq(s, 1, n)
<1>1. u \in Seq(S) /\ Len(u) = n /\ \A i \in 1..n : u[i] = s[i]
  BY Prefix
<1> HIDE DEF u
<1>2. t = u
  BY <1>1, SeqEqual
<1> QED  BY <1>2 DEF u

\* The same for a sequence with one more element.
LEMMA IsAppend ==
    ASSUME NEW S, NEW s \in Seq(S), NEW t \in Seq(S), NEW e \in S,
           Len(t) = Len(s) + 1, \A i \in 1..Len(s) : t[i] = s[i], t[Len(s) + 1] = e
    PROVE  t = Append(s, e)
<1> DEFINE u == Append(s, e)
<1>1. u \in Seq(S) /\ Len(u) = Len(s) + 1 /\ \A i \in 1..Len(s) : u[i] = s[i]
  BY AppendProperties
<1>2. u[Len(s) + 1] = e
  BY AppendProperties
<1> HIDE DEF u
<1>3. \A i \in 1..Len(s) + 1 : t[i] = u[i]
  BY <1>1, <1>2
<1>4. t = u
  BY <1>1, <1>3, SeqEqual
<1> QED  BY <1>4 DEF u

-----------------------------------------------------------------------------
(* The invariant *)

\* The code generator's state as far as defers depend on it.
Typed == /\ deferStack \in Seq(Defer)
         /\ stack \in Seq(Frame)
         /\ Depth <= MaxNest

\* The saved defer counts ascend from 0 to the height of the defer stack.
Saved == /\ \A i \in 1..Depth : stack[i].saved <= Count
         /\ \A i, j \in 1..Depth : i <= j => stack[i].saved <= stack[j].saved
         /\ Depth > 0 => stack[1].saved = 0
         /\ Depth = 0 => Count = 0

\* An entry of the defer stack uses a variable of an open block, and the entries below a
\* block's mark use variables of the blocks around it.
Owned == \A k \in 1..Count :
            /\ deferStack[k].at \in 1..Depth
            /\ deferStack[k].name \in stack[deferStack[k].at].vars
            /\ \A i \in 1..Depth : k <= stack[i].saved => deferStack[k].at < i

\* No name is visible twice.
Distinct == \A i, j \in 1..Depth : i # j => stack[i].vars \cap stack[j].vars = {}

\* The function itself is the outermost frame.
Kinds == \A i \in 1..Depth : stack[i].kind \in {"params", "fn"} => i = 1

Skeleton == Typed /\ Saved /\ Owned /\ Distinct /\ Kinds

\* An execution out of sight goes on at an open branch or loop.
Where == /\ loc \in [slot : Slot, at : Nat]
         /\ loc.slot \in {"run", "off"} => loc.at = 0
         /\ loc.slot \notin {"run", "off"} => /\ loc.at \in 1..Depth
                                             /\ stack[loc.at].kind \in {"then", "else", "loop"}

IInv == Skeleton /\ pc \in Nat \ {0} /\ Where

-----------------------------------------------------------------------------
(* Operators of the generator *)

\* What the open frames look like after a push, a change of the top and a pop.
LEMMA StackFacts ==
    ASSUME Typed
    PROVE  /\ Depth \in Nat
           /\ Depth > 0 => Top \in Frame
           /\ \A f \in Frame : /\ Append(stack, f) \in Seq(Frame)
                               /\ Len(Append(stack, f)) = Depth + 1
                               /\ Append(stack, f)[Depth + 1] = f
                               /\ \A i \in 1..Depth : Append(stack, f)[i] = stack[i]
           /\ Depth > 0 => \A f \in Frame : /\ [stack EXCEPT ![Depth] = f] \in Seq(Frame)
                                            /\ Len([stack EXCEPT ![Depth] = f]) = Depth
                                            /\ [stack EXCEPT ![Depth] = f][Depth] = f
                                            /\ \A i \in 1..Depth-1 :
                                                 [stack EXCEPT ![Depth] = f][i] = stack[i]
           /\ Depth > 0 => /\ Below \in Seq(Frame)
                           /\ Len(Below) = Depth - 1
                           /\ \A i \in 1..Depth-1 : Below[i] = stack[i]
<1> USE DEF Depth, Top, Below
<1>0. stack \in Seq(Frame)  BY DEF Typed
<1>1. Depth \in Nat  BY <1>0
<1>2. Depth > 0 => Top \in Frame  BY <1>0
<1>3. ASSUME NEW f \in Frame
      PROVE  /\ Append(stack, f) \in Seq(Frame)
             /\ Len(Append(stack, f)) = Depth + 1
             /\ Append(stack, f)[Depth + 1] = f
             /\ \A i \in 1..Depth : Append(stack, f)[i] = stack[i]
  BY <1>0, AppendProperties
<1>4. ASSUME Depth > 0, NEW f \in Frame
      PROVE  /\ [stack EXCEPT ![Depth] = f] \in Seq(Frame)
             /\ Len([stack EXCEPT ![Depth] = f]) = Depth
             /\ [stack EXCEPT ![Depth] = f][Depth] = f
             /\ \A i \in 1..Depth-1 : [stack EXCEPT ![Depth] = f][i] = stack[i]
  BY <1>0, <1>4, ExceptSeq
<1>5. ASSUME Depth > 0
      PROVE  /\ Below \in Seq(Frame)
             /\ Len(Below) = Depth - 1
             /\ \A i \in 1..Depth-1 : Below[i] = stack[i]
  <2>1. Depth - 1 \in 0..Len(stack)  BY <1>0, <1>5
  <2> QED  BY <1>0, <2>1, Prefix
<1> QED  BY <1>1, <1>2, <1>3, <1>4, <1>5

\* What is pending after a block is closed and after a push.
LEMMA DeferFacts ==
    ASSUME Typed
    PROVE  /\ Count \in Nat
           /\ \A n \in 0..Count : /\ Trimmed(n) \in Seq(Defer)
                                  /\ Len(Trimmed(n)) = n
                                  /\ \A k \in 1..n : Trimmed(n)[k] = deferStack[k]
           /\ \A d \in Defer : /\ Pushed(d) \in Seq(Defer)
                               /\ \A k \in 1..Count : Pushed(d)[k] = deferStack[k]
                               /\ \/ Pushed(d) = deferStack
                                  \/ Len(Pushed(d)) = Count + 1 /\ Pushed(d)[Count + 1] = d
<1>1. deferStack \in Seq(Defer)  BY DEF Typed
<1>2. Count \in Nat  BY <1>1 DEF Count
<1>3. ASSUME NEW n \in 0..Count
      PROVE  /\ Trimmed(n) \in Seq(Defer)
             /\ Len(Trimmed(n)) = n
             /\ \A k \in 1..n : Trimmed(n)[k] = deferStack[k]
  BY <1>1, Prefix DEF Trimmed, Count
<1>4. ASSUME NEW d \in Defer
      PROVE  /\ Pushed(d) \in Seq(Defer)
             /\ \A k \in 1..Count : Pushed(d)[k] = deferStack[k]
             /\ \/ Pushed(d) = deferStack
                \/ Len(Pushed(d)) = Count + 1 /\ Pushed(d)[Count + 1] = d
  BY <1>1, AppendProperties DEF Pushed, Count
<1> QED  BY <1>2, <1>3, <1>4

\* Without shadowing a name denotes the variable of the only block that declares it.
LEMMA DenotesFacts ==
    ASSUME Typed, Distinct, NEW i \in 1..Depth, NEW n \in stack[i].vars
    PROVE  Denotes(n) = <<i, n>>
<1> DEFINE P(k) == n \in stack[k].vars /\ \A j \in k+1..Depth : n \notin stack[j].vars
<1>1. Depth \in Nat  BY StackFacts
<1>2. \A k \in 1..Depth : n \in stack[k].vars => k = i
  BY DEF Distinct
<1>3. P(i)  BY <1>1, <1>2
<1>4. \A k \in 1..Depth : P(k) => k = i  BY <1>2
<1>5. (CHOOSE k \in 1..Depth : P(k)) = i  BY <1>3, <1>4
<1> QED  BY <1>5 DEF Denotes

-----------------------------------------------------------------------------
(* The refinement mapping.  The execution is in the outermost Blocks blocks, *)
(* and what is deferred in them is the defer stack up to Height.              *)

Height == IF Blocks = Depth THEN Count ELSE stack[Blocks + 1].saved

\* What the mapping yields.
View == /\ Blocks \in 0..Depth /\ Height \in 0..Count
        /\ Marks \in Seq(Nat) /\ Len(Marks) = Blocks
        /\ \A i \in 1..Blocks : Marks[i] = stack[i].saved /\ Marks[i] \in 0..Height
        /\ Pending \in Seq(Defer) /\ Len(Pending) = Height
        /\ \A k \in 1..Height : Pending[k] = deferStack[k]
        /\ Blocks > 0 => Marks[1] = 0
        /\ Blocks = 0 => Height = 0

\* It does so in every state that the invariant allows.
LEMMA ViewFacts == IInv => View
<1> SUFFICES ASSUME IInv PROVE View
  OBVIOUS
<1>1. /\ Depth \in Nat /\ Count \in Nat
      /\ \A i \in 1..Depth : stack[i].saved \in 0..Count
  <2>1. Depth \in Nat /\ Count \in Nat  BY StackFacts, DeferFacts DEF IInv, Skeleton
  <2>2. \A i \in 1..Depth : stack[i] \in Frame  BY DEF IInv, Skeleton, Typed, Depth
  <2> QED  BY <2>1, <2>2 DEF IInv, Skeleton, Saved, Frame
<1>2. Where  BY DEF IInv, Skeleton
<1>3. Blocks \in 0..Depth
  BY <1>1, <1>2 DEF Blocks, Running, Where, Slot
<1>4. Height \in 0..Count
  BY <1>1, <1>3 DEF Height
<1>5. \A i \in 1..Blocks : stack[i].saved \in 0..Height
  <2>1. CASE Blocks = Depth  BY <1>1, <2>1 DEF Height
  <2>2. CASE Blocks < Depth
    BY <1>1, <1>3, <2>2 DEF Height, IInv, Skeleton, Saved
  <2> QED  BY <1>1, <1>3, <2>1, <2>2
<1>6. Marks \in Seq(Nat) /\ Len(Marks) = Blocks
      /\ \A i \in 1..Blocks : Marks[i] = stack[i].saved
  BY <1>3, <1>4, <1>5 DEF Marks
<1>7. Blocks = 0 => Height = 0
  BY <1>1, <1>3 DEF Height, IInv, Skeleton, Saved
<1>8. Pending \in Seq(Defer) /\ Len(Pending) = Height
      /\ \A k \in 1..Height : Pending[k] = deferStack[k]
  <2>1. CASE Running
    BY <2>1, <1>1 DEF Running, Pending, Height, Blocks, IInv, Skeleton, Typed, Count
  <2>2. CASE loc.slot = "off"
    <3>1. Pending = <<>> /\ Blocks = 0  BY <2>2 DEF Pending, Blocks, Running
    <3> QED  BY <3>1, <1>7
  <2>3. CASE ~Running /\ loc.slot # "off"
    <3>1. loc.at \in 1..Depth  BY <2>3, <1>2 DEF Where, Running
    <3>2. Pending = Trimmed(stack[loc.at].saved) /\ Blocks = loc.at - 1
      BY <2>3 DEF Pending, Blocks
    <3>3. Height = stack[loc.at].saved  BY <3>1, <3>2, <1>1 DEF Height
    <3> QED  BY <3>1, <3>2, <3>3, <1>1, DeferFacts DEF IInv, Skeleton
  <2> QED  BY <2>1, <2>2, <2>3
<1>9. Blocks > 0 => Marks[1] = 0
  BY <1>1, <1>3, <1>6 DEF IInv, Skeleton, Saved
<1> QED  BY <1>3, <1>4, <1>5, <1>6, <1>7, <1>8, <1>9 DEF View

\* The outermost n blocks are as they were, and so are the first h entries of the defer stack.
Same(n, h) == /\ \A i \in 1..n : stack'[i].saved = stack[i].saved
              /\ \A k \in 1..h : deferStack'[k] = deferStack[k]

\* The mapped state before and after a step.
LEMMA BothViews ==
    ASSUME IInv, IInv'
    PROVE  /\ Blocks \in Nat /\ Height \in Nat /\ Blocks' \in Nat /\ Height' \in Nat
           /\ Marks \in Seq(Nat) /\ Marks' \in Seq(Nat)
           /\ Pending \in Seq(Defer) /\ Pending' \in Seq(Defer)
           /\ Len(Marks) = Blocks /\ Len(Marks') = Blocks'
           /\ Len(Pending) = Height /\ Len(Pending') = Height'
           /\ \A i \in 1..Blocks : Marks[i] = stack[i].saved
           /\ \A i \in 1..Blocks' : Marks'[i] = stack'[i].saved
           /\ \A k \in 1..Height : Pending[k] = deferStack[k]
           /\ \A k \in 1..Height' : Pending'[k] = deferStack'[k]
<1>1. View /\ View'  BY ViewFacts, PTL
<1>2. Depth \in Nat /\ Depth' \in Nat /\ Count \in Nat /\ Count' \in Nat
  BY DEF IInv, Skeleton, Typed, Depth, Count
<1> QED  BY <1>1, <1>2 DEF View

\* The mapped state is extended or cut back as the blocks and the defer stack are.
LEMMA MapFacts ==
    ASSUME IInv, IInv'
    PROVE  /\ \A n \in 0..Blocks : Blocks' = n /\ (\A i \in 1..n : stack'[i].saved = stack[i].saved)
                  => Marks' = SubSeq(Marks, 1, n)
           /\ \A h \in 0..Height : Height' = h /\ (\A k \in 1..h : deferStack'[k] = deferStack[k])
                  => Pending' = SubSeq(Pending, 1, h)
<1> USE BothViews
<1>1. ASSUME NEW n \in 0..Blocks, Blocks' = n, \A i \in 1..n : stack'[i].saved = stack[i].saved
      PROVE  Marks' = SubSeq(Marks, 1, n)
  <2>1. ASSUME NEW i \in 1..n PROVE Marks'[i] = Marks[i]
    <3>1. i \in 1..Blocks /\ i \in 1..Blocks'  BY <1>1
    <3>2. Marks'[i] = stack'[i].saved /\ Marks[i] = stack[i].saved  BY <3>1
    <3> QED  BY <1>1, <3>2
  <2> QED  BY <1>1, <2>1, IsPrefix
<1>2. ASSUME NEW h \in 0..Height, Height' = h, \A k \in 1..h : deferStack'[k] = deferStack[k]
      PROVE  Pending' = SubSeq(Pending, 1, h)
  <2>1. \A i \in 1..h : Pending'[i] = Pending[i]  BY <1>2
  <2> QED  BY <1>2, <2>1, IsPrefix
<1> QED  BY <1>1, <1>2

\* It stays the same when the blocks and the defers that it shows do.
LEMMA SameFacts ==
    ASSUME IInv, IInv'
    PROVE  /\ (Blocks' = Blocks /\ \A i \in 1..Blocks : stack'[i].saved = stack[i].saved)
                  => Marks' = Marks
           /\ (Height' = Height /\ \A k \in 1..Height : deferStack'[k] = deferStack[k])
                  => Pending' = Pending
<1> USE BothViews
<1>1. ASSUME Blocks' = Blocks, \A i \in 1..Blocks : stack'[i].saved = stack[i].saved
      PROVE  Marks' = Marks
  <2>1. \A i \in 1..Len(Marks) : Marks'[i] = Marks[i]  BY <1>1
  <2> QED  BY <1>1, <2>1, SeqEqual
<1>2. ASSUME Height' = Height, \A k \in 1..Height : deferStack'[k] = deferStack[k]
      PROVE  Pending' = Pending
  <2>1. \A i \in 1..Len(Pending) : Pending'[i] = Pending[i]  BY <1>2
  <2> QED  BY <1>2, <2>1, SeqEqual
<1> QED  BY <1>1, <1>2

\* Nothing is left or registered.
LEMMA WorkStep ==
    ASSUME IInv, IInv', Blocks' = Blocks, Height' = Height, Same(Blocks, Height), ran' = <<>>
    PROVE  Promise!Next
<1>1. Marks' = Marks /\ Pending' = Pending
  BY SameFacts DEF Same
<1> QED  BY <1>1 DEF Promise!Next, Promise!Work

\* A block is entered.
LEMMA EnterStep ==
    ASSUME IInv, IInv', Blocks' = Blocks + 1, Height' = Height, Same(Blocks, Height),
           stack'[Blocks + 1].saved = Height, ran' = <<>>
    PROVE  Promise!Next
<1>1. Pending' = Pending
  BY SameFacts DEF Same
<1>2. Marks' = Append(Marks, Len(Pending))
  <2>1. /\ Marks \in Seq(Nat) /\ Marks' \in Seq(Nat) /\ Len(Pending) \in Nat
        /\ Len(Marks') = Len(Marks) + 1
    BY BothViews
  <2>2. ASSUME NEW i \in 1..Len(Marks) PROVE Marks'[i] = Marks[i]
    <3>1. i \in 1..Blocks /\ i \in 1..Blocks'  BY BothViews
    <3>2. Marks'[i] = stack'[i].saved /\ Marks[i] = stack[i].saved  BY <3>1, BothViews
    <3> QED  BY <3>1, <3>2 DEF Same
  <2>3. Marks'[Len(Marks) + 1] = Len(Pending)
    BY BothViews
  <2> QED  BY <2>1, <2>2, <2>3, IsAppend
<1> QED  BY <1>1, <1>2 DEF Promise!Next, Promise!Enter

\* An action is deferred in the innermost block.
LEMMA RegisterStep ==
    ASSUME IInv, IInv', NEW d \in Defer, Blocks > 0, Blocks' = Blocks, Height' = Height + 1,
           Same(Blocks, Height), deferStack'[Height + 1] = d, ran' = <<>>
    PROVE  Promise!Next
<1>1. Marks' = Marks
  BY SameFacts DEF Same
<1>2. Pending' = Append(Pending, d)
  <2>1. /\ Pending \in Seq(Defer) /\ Pending' \in Seq(Defer)
        /\ Len(Pending') = Len(Pending) + 1
    BY BothViews
  <2>2. \A i \in 1..Len(Pending) : Pending'[i] = Pending[i]
    BY BothViews DEF Same
  <2>3. Pending'[Len(Pending) + 1] = d
    BY BothViews
  <2> QED  BY <2>1, <2>2, <2>3, IsAppend
<1>3. Promise!Open > 0
  BY BothViews DEF Promise!Open
<1> QED  BY <1>1, <1>2, <1>3 DEF Promise!Next, Promise!Register

\* What a running execution runs when the blocks above `boundary` are left.
LEMMA EmittedFacts ==
    ASSUME IInv, Running, NEW boundary \in 0..Count
    PROVE  Promise!Unwound(boundary) = [i \in DOMAIN Emitted(boundary) |->
                                          Resolved(Emitted(boundary)[i])]
<1>1. Count \in Nat /\ Pending = deferStack /\ Len(Pending) = Count
  BY DeferFacts DEF IInv, Skeleton, Pending, Count
<1>2. \A k \in 1..Count : Resolved(deferStack[k]) = deferStack[k]
  <2> SUFFICES ASSUME NEW k \in 1..Count PROVE Resolved(deferStack[k]) = deferStack[k]
    OBVIOUS
  <2>1. /\ deferStack[k] \in Defer
        /\ deferStack[k].at \in 1..Depth
        /\ deferStack[k].name \in stack[deferStack[k].at].vars
    BY DEF IInv, Skeleton, Typed, Owned, Count
  <2>2. Denotes(deferStack[k].name) = <<deferStack[k].at, deferStack[k].name>>
    BY <2>1, DenotesFacts DEF IInv, Skeleton
  <2>3. Resolved(deferStack[k]) = [deferStack[k] EXCEPT !.at = deferStack[k].at]
    BY <2>2 DEF Resolved
  <2> QED  BY <2>1, <2>3 DEF Defer
<1>3. /\ DOMAIN Emitted(boundary) = 1..Count - boundary
      /\ \A i \in 1..Count - boundary : /\ Emitted(boundary)[i] = deferStack[Count - i + 1]
                                        /\ Count - i + 1 \in 1..Count
  BY <1>1 DEF Emitted
<1> QED  BY <1>1, <1>2, <1>3 DEF Promise!Unwound

\* The text emitted at an exit that leaves the blocks above `boundary`.
LEMMA UnwindFacts ==
    ASSUME IInv, Running, NEW boundary \in 0..Count, NEW c, NEW given, NEW d,
           Unwind(boundary, c, given, d)
    PROVE  ran' = Promise!Unwound(boundary)
BY EmittedFacts DEF Unwind

\* All but the n outermost blocks are left.
LEMMA LeaveStep ==
    ASSUME IInv, IInv', Running, NEW n \in 0..Blocks-1, Blocks' = n,
           Height' = stack[n + 1].saved, Same(n, stack[n + 1].saved),
           ran' = Promise!Unwound(stack[n + 1].saved)
    PROVE  Promise!Next
<1>1. /\ n \in 0..Blocks /\ n + 1 \in 1..Blocks
      /\ Marks[n + 1] = stack[n + 1].saved
      /\ stack[n + 1].saved \in 0..Height
      /\ Promise!Open = Blocks
  <2>1. View  BY ViewFacts
  <2>2. n + 1 \in 1..Blocks /\ n \in 0..Blocks  BY BothViews
  <2> QED  BY <2>1, <2>2 DEF View, Promise!Open
<1>2. Marks' = SubSeq(Marks, 1, n)
  BY <1>1, MapFacts DEF Same
<1>3. Pending' = SubSeq(Pending, 1, stack[n + 1].saved)
  BY <1>1, MapFacts DEF Same
<1>4. n \in 0..Promise!Open /\ n < Promise!Open
  BY <1>1, BothViews
<1>5. Promise!Leave(n)
  BY <1>1, <1>2, <1>3, <1>4 DEF Promise!Leave
<1> QED  BY <1>4, <1>5 DEF Promise!Next

\* The innermost block is left and entered again.
LEMMA RepeatStep ==
    ASSUME IInv, IInv', Running, Blocks > 0, Blocks' = Blocks,
           Height' = stack[Blocks].saved, Same(Blocks, stack[Blocks].saved),
           ran' = Promise!Unwound(stack[Blocks].saved)
    PROVE  Promise!Next
<1>1. /\ Blocks \in 1..Blocks
      /\ Marks[Blocks] = stack[Blocks].saved
      /\ stack[Blocks].saved \in 0..Height
      /\ Promise!Open = Blocks
  <2>1. View  BY ViewFacts
  <2>2. Blocks \in 1..Blocks  BY BothViews
  <2> QED  BY <2>1, <2>2 DEF View, Promise!Open
<1>2. Marks' = Marks
  BY SameFacts DEF Same
<1>3. Pending' = SubSeq(Pending, 1, stack[Blocks].saved)
  BY <1>1, MapFacts DEF Same
<1>4. Promise!Repeat
  BY <1>1, <1>2, <1>3 DEF Promise!Repeat
<1> QED  BY <1>4 DEF Promise!Next

-----------------------------------------------------------------------------
(* The shapes that a step can give the generator's state *)

\* The blocks and the defers that were there are still there.
Kept == /\ Depth' >= Depth
        /\ \A i \in 1..Depth : stack'[i].saved = stack[i].saved
        /\ \A k \in 1..Count : deferStack'[k] = deferStack[k]

\* The entry d is pushed on the defer stack, if it has room.
Grown(d) == \/ Count' = Count
            \/ Count' = Count + 1 /\ deferStack'[Count + 1] = d

\* The fields of a frame have their types.
LEMMA FrameFields ==
    ASSUME NEW s \in Seq(Frame), NEW i \in 1..Len(s)
    PROVE  s[i] \in Frame /\ s[i].saved \in Nat /\ s[i].vars \subseteq Name
<1>1. s[i] \in Frame  OBVIOUS
<1> QED  BY <1>1 DEF Frame

\* So have those of a deferred entry.
LEMMA DeferFields ==
    ASSUME NEW s \in Seq(Defer), NEW k \in 1..Len(s)
    PROVE  s[k] \in Defer /\ s[k].at \in 1..MaxNest /\ s[k].name \in Name
<1>1. s[k] \in Defer  OBVIOUS
<1> QED  BY <1>1 DEF Defer

\* The defer stack after a push.
LEMMA PushedFacts ==
    ASSUME Typed, NEW d \in Defer, deferStack' = Pushed(d)
    PROVE  /\ deferStack' \in Seq(Defer)
           /\ \A k \in 1..Count : deferStack'[k] = deferStack[k]
           /\ Count' \in Nat /\ Count' >= Count
           /\ \A k \in 1..Count' : k <= Count \/ (k = Count + 1 /\ deferStack'[k] = d)
           /\ Grown(d)
<1>1. Count \in Nat /\ Pushed(d) \in Seq(Defer)
      /\ \A k \in 1..Count : Pushed(d)[k] = deferStack[k]
  BY DeferFacts
<1>2. Count' = Len(Pushed(d))  BY DEF Count
<1>3. CASE Pushed(d) = deferStack
  <2>1. Count' = Count  BY <1>2, <1>3 DEF Count
  <2>2. Grown(d)  BY <2>1 DEF Grown
  <2> QED  BY <1>1, <2>1, <2>2
<1>4. CASE Len(Pushed(d)) = Count + 1 /\ Pushed(d)[Count + 1] = d
  <2>1. Count' = Count + 1 /\ deferStack'[Count + 1] = d  BY <1>2, <1>4
  <2>2. Grown(d)  BY <2>1 DEF Grown
  <2> QED  BY <1>1, <2>1, <2>2
<1> QED  BY <1>3, <1>4, DeferFacts

\* A variable is declared in the innermost block, and its drop deferred.
LEMMA DeclareShape ==
    ASSUME IInv, "shadow" \notin Risky, NEW n \in Name, Depth > 0, Declare(n)
    PROVE  /\ Skeleton' /\ Kept /\ Grown(Drop(n)) /\ Drop(n) \in Defer
           /\ Depth' = Depth
           /\ \A i \in 1..Depth : stack'[i].kind = stack[i].kind
<1> DEFINE f == [Top EXCEPT !.vars = @ \cup {n}]
<1>1. /\ Typed /\ Saved /\ Owned /\ Distinct /\ Kinds
      /\ Depth \in 1..MaxNest /\ Count \in Nat
  BY StackFacts, DeferFacts DEF IInv, Skeleton, Typed
<1>2. Drop(n) \in Defer
  BY <1>1 DEF Drop, Defer
<1>3. /\ f \in Frame /\ f.saved = Top.saved /\ f.kind = Top.kind
      /\ f.vars = Top.vars \cup {n}
      /\ stack' = [stack EXCEPT ![Depth] = f]
  <2>1. Top \in Frame  BY <1>1, StackFacts
  <2>2. stack' = [stack EXCEPT ![Depth].vars = @ \cup {n}]  BY DEF Declare
  <2> QED  BY <2>1, <2>2, <1>1 DEF Frame, Top, Typed
<1> HIDE DEF f
<1>4. /\ stack' \in Seq(Frame) /\ Depth' = Depth /\ stack'[Depth] = f
      /\ \A i \in 1..Depth-1 : stack'[i] = stack[i]
  BY <1>1, <1>3, StackFacts DEF Depth
<1>5. \A i \in 1..Depth : /\ stack'[i].saved = stack[i].saved
                          /\ stack'[i].kind = stack[i].kind
                          /\ stack[i].vars \subseteq stack'[i].vars
                          /\ stack'[i].vars \subseteq stack[i].vars \cup {n}
                          /\ i # Depth => stack'[i].vars = stack[i].vars
  BY <1>1, <1>3, <1>4 DEF Top
<1>6. /\ deferStack' \in Seq(Defer)
      /\ \A k \in 1..Count : deferStack'[k] = deferStack[k]
      /\ Count' \in Nat /\ Count' >= Count
      /\ \A k \in 1..Count' : k <= Count \/ (k = Count + 1 /\ deferStack'[k] = Drop(n))
      /\ Grown(Drop(n))
  <2>1. deferStack' = Pushed(Drop(n))  BY DEF Declare
  <2> QED  BY <2>1, <1>1, <1>2, PushedFacts
<1>7. Typed'  BY <1>1, <1>4, <1>6 DEF Typed
<1>8. Saved'
  <2>1. \A i \in 1..Depth : stack[i].saved \in Nat /\ stack[i].saved <= Count
    BY <1>1, FrameFields DEF Typed, Depth, Saved
  <2>2. \A i \in 1..Depth' : stack'[i].saved <= Count'
    BY <2>1, <1>1, <1>4, <1>5, <1>6
  <2>3. \A i, j \in 1..Depth' : i <= j => stack'[i].saved <= stack'[j].saved
    BY <1>1, <1>4, <1>5 DEF Saved
  <2>4. Depth' > 0 /\ stack'[1].saved = 0
    BY <1>1, <1>4, <1>5 DEF Saved
  <2> QED  BY <2>2, <2>3, <2>4 DEF Saved
<1>9. Owned'
  <2> SUFFICES ASSUME NEW k \in 1..Count'
               PROVE  /\ deferStack'[k].at \in 1..Depth'
                      /\ deferStack'[k].name \in stack'[deferStack'[k].at].vars
                      /\ \A i \in 1..Depth' : k <= stack'[i].saved => deferStack'[k].at < i
    BY DEF Owned
  <2>1. CASE k <= Count
    <3>1. k \in 1..Count /\ deferStack'[k] = deferStack[k]  BY <2>1, <1>1, <1>6
    <3>2. /\ deferStack[k].at \in 1..Depth
          /\ deferStack[k].name \in stack[deferStack[k].at].vars
          /\ \A i \in 1..Depth : k <= stack[i].saved => deferStack[k].at < i
      BY <3>1, <1>1 DEF Owned
    <3> QED  BY <3>1, <3>2, <1>4, <1>5
  <2>2. CASE k = Count + 1 /\ deferStack'[k] = Drop(n)
    <3>1. Drop(n).at = Depth /\ Drop(n).name = n  BY DEF Drop
    <3>2. \A i \in 1..Depth : stack'[i].saved <= Count  BY <1>1, <1>5 DEF Saved
    <3>3. n \in stack'[Depth].vars  BY <1>3, <1>4
    <3>4. \A i \in 1..Depth : stack'[i].saved \in Nat
      BY <1>1, <1>5, FrameFields DEF Typed, Depth
    <3> QED  BY <2>2, <3>1, <3>2, <3>3, <3>4, <1>1, <1>4, <1>6
  <2> QED  BY <2>1, <2>2, <1>6
<1>10. Distinct'
  <2>1. \A i \in 1..Depth : n \notin stack[i].vars
    BY DEF Declare, Visible
  <2>2. ASSUME NEW i \in 1..Depth, NEW j \in 1..Depth, i # j
        PROVE  stack'[i].vars \cap stack'[j].vars = {}
    <3>1. stack[i].vars \cap stack[j].vars = {}  BY <2>2, <1>1 DEF Distinct
    <3>2. i # Depth \/ j # Depth  BY <2>2
    <3> QED  BY <3>1, <3>2, <2>1, <1>5
  <2> QED  BY <2>2, <1>4 DEF Distinct
<1>11. Kinds'  BY <1>1, <1>4, <1>5 DEF Kinds
<1> QED  BY <1>1, <1>2, <1>4, <1>5, <1>6, <1>7, <1>8, <1>9, <1>10, <1>11 DEF Skeleton, Kept

\* A deferred statement that uses a visible variable is registered.
LEMMA DeferShape ==
    ASSUME IInv, NEW n \in Name, Visible(n), stack' = stack,
           deferStack' = Pushed([kind |-> "stmt", at |-> Denotes(n)[1], name |-> n])
    PROVE  /\ Skeleton' /\ Kept /\ Depth' = Depth
           /\ \E d \in Defer : Grown(d)
<1>1. /\ Typed /\ Saved /\ Owned /\ Distinct /\ Kinds
      /\ Depth \in Nat /\ Depth <= MaxNest /\ Count \in Nat
  BY StackFacts, DeferFacts DEF IInv, Skeleton, Typed
<1>2. PICK a \in 1..Depth : n \in stack[a].vars
  BY DEF Visible
<1> DEFINE d == [kind |-> "stmt", at |-> a, name |-> n]
<1>3. Denotes(n)[1] = a
  BY <1>1, <1>2, DenotesFacts
<1>4. d \in Defer /\ d.at = a /\ d.name = n /\ deferStack' = Pushed(d)
  <2>1. a \in 1..MaxNest  BY <1>1, BoundAssumption
  <2>2. d \in Defer  BY <2>1 DEF Defer
  <2> QED  BY <2>2, <1>3
<1> HIDE DEF d
<1>5. Depth' = Depth  BY DEF Depth
<1>6. /\ deferStack' \in Seq(Defer)
      /\ \A k \in 1..Count : deferStack'[k] = deferStack[k]
      /\ Count' \in Nat /\ Count' >= Count
      /\ \A k \in 1..Count' : k <= Count \/ (k = Count + 1 /\ deferStack'[k] = d)
      /\ Grown(d)
  BY <1>1, <1>4, PushedFacts
<1>7. Typed'  BY <1>1, <1>5, <1>6 DEF Typed
<1>8. Saved'
  <2>1. Depth = 0 => FALSE  BY <1>2
  <2>2. \A i \in 1..Depth : stack[i].saved \in Nat  BY <1>1, FrameFields DEF Typed, Depth
  <2> QED  BY <2>1, <2>2, <1>1, <1>5, <1>6 DEF Saved
<1>9. Owned'
  <2> SUFFICES ASSUME NEW k \in 1..Count'
               PROVE  /\ deferStack'[k].at \in 1..Depth
                      /\ deferStack'[k].name \in stack[deferStack'[k].at].vars
                      /\ \A i \in 1..Depth : k <= stack[i].saved => deferStack'[k].at < i
    BY <1>5 DEF Owned
  <2>1. CASE k <= Count
    BY <2>1, <1>1, <1>6 DEF Owned
  <2>2. CASE k = Count + 1 /\ deferStack'[k] = d
    <3>1. \A i \in 1..Depth : stack[i].saved \in Nat /\ stack[i].saved <= Count
      BY <1>1, FrameFields DEF Saved, Typed, Depth
    <3> QED  BY <2>2, <3>1, <1>1, <1>2, <1>4
  <2> QED  BY <2>1, <2>2, <1>6
<1>10. Distinct' /\ Kinds'  BY <1>1, <1>5 DEF Distinct, Kinds
<1>11. Skeleton'  BY <1>7, <1>8, <1>9, <1>10 DEF Skeleton
<1>12. Kept  BY <1>1, <1>5, <1>6 DEF Kept
<1> QED  BY <1>4, <1>5, <1>6, <1>11, <1>12

\* A block is opened in the frames s, which differ from the open ones in nothing that matters.
LEMMA PushShape ==
    ASSUME IInv, NEW s \in Seq(Frame), Len(s) = Depth, Depth \in 1..MaxNest-1,
           \A i \in 1..Depth : /\ s[i].saved = stack[i].saved /\ s[i].vars = stack[i].vars
                               /\ s[i].kind \in {"params", "fn"} => i = 1,
           NEW kind \in FrameKind \ {"params", "fn"}, NEW from \in Nat \ {0},
           stack' = Append(s, NewFrame(kind, from)), deferStack' = deferStack
    PROVE  /\ Skeleton' /\ Kept /\ Depth' = Depth + 1 /\ Count' = Count
           /\ \A i \in 1..Depth : stack'[i] = s[i]
           /\ stack'[Depth + 1].saved = Count /\ stack'[Depth + 1].kind = kind
<1> DEFINE f == NewFrame(kind, from)
<1>1. /\ Typed /\ Saved /\ Owned /\ Distinct /\ Kinds
      /\ Depth \in Nat /\ MaxNest \in Nat /\ Count \in Nat /\ Count' = Count
  BY StackFacts, DeferFacts, BoundAssumption DEF IInv, Skeleton, Count
<1>2. f \in Frame /\ f.saved = Count /\ f.kind = kind /\ f.vars = {}
  <2>1. f = [kind |-> kind, saved |-> Count, vars |-> {}, from |-> from]  BY DEF NewFrame
  <2> QED  BY <2>1, <1>1 DEF Frame
<1>3. stack' = Append(s, f)  OBVIOUS
<1> HIDE DEF f
<1>4. /\ stack' \in Seq(Frame) /\ Depth' = Depth + 1 /\ stack'[Depth + 1] = f
      /\ \A i \in 1..Depth : stack'[i] = s[i]
  BY <1>1, <1>2, <1>3, AppendProperties DEF Depth
<1>5. \A i \in 1..Depth' : \/ i = Depth + 1
                           \/ i \in 1..Depth /\ stack'[i].saved = stack[i].saved
                                             /\ stack'[i].vars = stack[i].vars
  BY <1>1, <1>4
<1>6. \A i \in 1..Depth : stack[i].saved \in Nat /\ stack[i].saved <= Count
  BY <1>1, FrameFields DEF Typed, Depth, Saved
<1>7. Typed'  BY <1>1, <1>4 DEF Typed
<1>8. Saved'
  <2>1. \A i \in 1..Depth' : stack'[i].saved <= Count'
    BY <1>1, <1>2, <1>4, <1>5, <1>6
  <2>2. ASSUME NEW i \in 1..Depth', NEW j \in 1..Depth', i <= j
        PROVE  stack'[i].saved <= stack'[j].saved
    <3>1. CASE j = Depth + 1
      <4>1. stack'[j].saved = Count  BY <3>1, <1>2, <1>4
      <4> QED  BY <4>1, <2>1, <1>1
    <3>2. CASE j # Depth + 1
      <4>1. i \in 1..Depth /\ j \in 1..Depth  BY <3>2, <2>2, <1>1, <1>4
      <4> QED  BY <4>1, <2>2, <1>1, <1>4 DEF Saved
    <3> QED  BY <3>1, <3>2
  <2>3. Depth' > 0 /\ Depth' # 0 /\ stack'[1].saved = 0
    BY <1>1, <1>4 DEF Saved
  <2> QED  BY <2>1, <2>2, <2>3 DEF Saved
<1>9. Owned'
  <2> SUFFICES ASSUME NEW k \in 1..Count
               PROVE  /\ deferStack[k].at \in 1..Depth'
                      /\ deferStack[k].name \in stack'[deferStack[k].at].vars
                      /\ \A i \in 1..Depth' : k <= stack'[i].saved => deferStack[k].at < i
    BY <1>1 DEF Owned
  <2>1. /\ deferStack[k].at \in 1..Depth
        /\ deferStack[k].name \in stack[deferStack[k].at].vars
        /\ \A i \in 1..Depth : k <= stack[i].saved => deferStack[k].at < i
    BY <1>1 DEF Owned
  <2> QED  BY <2>1, <1>1, <1>4, <1>5
<1>10. Distinct'
  <2>1. ASSUME NEW i \in 1..Depth', NEW j \in 1..Depth', i # j
        PROVE  stack'[i].vars \cap stack'[j].vars = {}
    <3>1. CASE i = Depth + 1 \/ j = Depth + 1  BY <3>1, <1>2, <1>4
    <3>2. CASE i \in 1..Depth /\ j \in 1..Depth  BY <3>2, <2>1, <1>1, <1>4 DEF Distinct
    <3> QED  BY <3>1, <3>2, <1>5
  <2> QED  BY <2>1 DEF Distinct
<1>11. Kinds'
  BY <1>1, <1>2, <1>4, <1>5 DEF Kinds
<1>12. Skeleton'  BY <1>7, <1>8, <1>9, <1>10, <1>11 DEF Skeleton
<1>13. Kept  BY <1>1, <1>4 DEF Kept
<1> QED  BY <1>1, <1>2, <1>4, <1>12, <1>13

\* The innermost block is left: its defers are forgotten.
LEMMA CutFacts ==
    ASSUME IInv, Depth > 0, deferStack' = Trimmed(Top.saved)
    PROVE  /\ deferStack' \in Seq(Defer)
           /\ Count' = Top.saved /\ Top.saved \in 0..Count
           /\ \A k \in 1..Top.saved : /\ deferStack'[k] = deferStack[k]
                                      /\ deferStack[k].at \in 1..Depth-1
                                      /\ deferStack[k].name \in stack[deferStack[k].at].vars
                                      /\ \A i \in 1..Depth-1 :
                                           k <= stack[i].saved => deferStack[k].at < i
<1>1. Typed /\ Owned /\ Saved /\ Depth \in Nat /\ Count \in Nat /\ Depth \in 1..Depth
  BY StackFacts, DeferFacts DEF IInv, Skeleton
<1>2. Top.saved \in 0..Count
  BY <1>1, FrameFields DEF Typed, Saved, Top, Depth
<1>3. deferStack' \in Seq(Defer) /\ Count' = Top.saved
      /\ \A k \in 1..Top.saved : deferStack'[k] = deferStack[k]
  BY <1>1, <1>2, DeferFacts DEF Count
<1>4. ASSUME NEW k \in 1..Top.saved
      PROVE  /\ deferStack[k].at \in 1..Depth-1
             /\ deferStack[k].name \in stack[deferStack[k].at].vars
             /\ \A i \in 1..Depth-1 : k <= stack[i].saved => deferStack[k].at < i
  <2>1. k \in 1..Count /\ k <= stack[Depth].saved  BY <1>1, <1>2 DEF Top
  <2>2. /\ deferStack[k].at \in 1..Depth
        /\ deferStack[k].name \in stack[deferStack[k].at].vars
        /\ \A i \in 1..Depth : k <= stack[i].saved => deferStack[k].at < i
    BY <2>1, <1>1 DEF Owned
  <2> QED  BY <2>1, <2>2, <1>1
<1> QED  BY <1>2, <1>3, <1>4

\* It is left for good.
LEMMA PopShape ==
    ASSUME IInv, Depth > 0, deferStack' = Trimmed(Top.saved), stack' = Below
    PROVE  /\ Skeleton' /\ Depth' = Depth - 1 /\ Count' = Top.saved
           /\ \A i \in 1..Depth-1 : stack'[i] = stack[i]
           /\ \A k \in 1..Top.saved : deferStack'[k] = deferStack[k]
<1>1. /\ Typed /\ Saved /\ Owned /\ Distinct /\ Kinds
      /\ Depth \in Nat /\ MaxNest \in Nat
  BY StackFacts, BoundAssumption DEF IInv, Skeleton
<1>2. /\ stack' \in Seq(Frame) /\ Depth' = Depth - 1
      /\ \A i \in 1..Depth-1 : stack'[i] = stack[i]
  BY <1>1, StackFacts DEF Depth
<1>3. Typed'  BY <1>1, <1>2, CutFacts DEF Typed
<1>4. Saved'
  <2>1. \A i \in 1..Depth : stack[i].saved <= Top.saved
    BY <1>1 DEF Saved, Top
  <2>2. Depth = 1 => Top.saved = 0  BY <1>1 DEF Saved, Top
  <2>3. Depth > 0 => stack[1].saved = 0  BY <1>1 DEF Saved
  <2>4. \A i, j \in 1..Depth : i <= j => stack[i].saved <= stack[j].saved  BY <1>1 DEF Saved
  <2> QED  BY <2>1, <2>2, <2>3, <2>4, <1>1, <1>2, CutFacts DEF Saved
<1>5. Owned'
  <2> SUFFICES ASSUME NEW k \in 1..Top.saved
               PROVE  /\ deferStack'[k].at \in 1..Depth'
                      /\ deferStack'[k].name \in stack'[deferStack'[k].at].vars
                      /\ \A i \in 1..Depth' : k <= stack'[i].saved => deferStack'[k].at < i
    BY CutFacts DEF Owned
  <2>1. deferStack'[k] = deferStack[k]  BY CutFacts
  <2>2. /\ deferStack[k].at \in 1..Depth-1
        /\ deferStack[k].name \in stack[deferStack[k].at].vars
        /\ \A i \in 1..Depth-1 : k <= stack[i].saved => deferStack[k].at < i
    BY CutFacts
  <2>3. stack'[deferStack[k].at] = stack[deferStack[k].at]  BY <2>2, <1>2
  <2>4. \A i \in 1..Depth' : k <= stack'[i].saved => deferStack[k].at < i
    BY <2>2, <1>1, <1>2
  <2>5. 1..Depth' = 1..Depth-1  BY <1>2
  <2> QED  BY <2>1, <2>2, <2>3, <2>4, <2>5
<1>6. Distinct' /\ Kinds'
  BY <1>1, <1>2 DEF Distinct, Kinds
<1>7. Skeleton'  BY <1>3, <1>4, <1>5, <1>6 DEF Skeleton
<1> QED  BY <1>2, <1>7, CutFacts

\* It is left and another branch, or the next iteration, is entered.
LEMMA ClearShape ==
    ASSUME IInv, Depth > 0, deferStack' = Trimmed(Top.saved),
           NEW f \in Frame, f.saved = Top.saved, f.vars = {}, f.kind \notin {"params", "fn"},
           stack' = [stack EXCEPT ![Depth] = f]
    PROVE  /\ Skeleton' /\ Depth' = Depth /\ Count' = Top.saved /\ stack'[Depth] = f
           /\ \A i \in 1..Depth-1 : stack'[i] = stack[i]
           /\ \A k \in 1..Top.saved : deferStack'[k] = deferStack[k]
<1>1. /\ Typed /\ Saved /\ Owned /\ Distinct /\ Kinds
      /\ Depth \in Nat /\ MaxNest \in Nat
  BY StackFacts, BoundAssumption DEF IInv, Skeleton
<1>2. /\ stack' \in Seq(Frame) /\ Depth' = Depth /\ stack'[Depth] = f
      /\ \A i \in 1..Depth-1 : stack'[i] = stack[i]
  BY <1>1, StackFacts DEF Depth
<1>3. Typed'  BY <1>1, <1>2, CutFacts DEF Typed
<1>4. Saved'
  <2>1. \A i \in 1..Depth : stack[i].saved <= Top.saved
    BY <1>1 DEF Saved, Top
  <2>2. Depth = 1 => Top.saved = 0  BY <1>1 DEF Saved, Top
  <2>3. Depth > 0 => stack[1].saved = 0  BY <1>1 DEF Saved
  <2>4. \A i, j \in 1..Depth : i <= j => stack[i].saved <= stack[j].saved  BY <1>1 DEF Saved
  <2>5. \A i \in 1..Depth : stack'[i].saved = stack[i].saved
    BY <1>1, <1>2 DEF Top
  <2> QED  BY <2>1, <2>2, <2>3, <2>4, <2>5, <1>1, <1>2, CutFacts DEF Saved
<1>5. Owned'
  <2> SUFFICES ASSUME NEW k \in 1..Top.saved
               PROVE  /\ deferStack'[k].at \in 1..Depth'
                      /\ deferStack'[k].name \in stack'[deferStack'[k].at].vars
                      /\ \A i \in 1..Depth' : k <= stack'[i].saved => deferStack'[k].at < i
    BY CutFacts DEF Owned
  <2>1. deferStack'[k] = deferStack[k]  BY CutFacts
  <2>2. /\ deferStack[k].at \in 1..Depth-1
        /\ deferStack[k].name \in stack[deferStack[k].at].vars
        /\ \A i \in 1..Depth-1 : k <= stack[i].saved => deferStack[k].at < i
    BY CutFacts
  <2>3. stack'[deferStack[k].at] = stack[deferStack[k].at]  BY <2>2, <1>2
  <2>4. ASSUME NEW i \in 1..Depth, k <= stack'[i].saved
        PROVE  deferStack[k].at < i
    <3>1. CASE i = Depth  BY <3>1, <2>2, <1>1
    <3>2. CASE i # Depth
      <4>1. i \in 1..Depth-1  BY <3>2, <1>1
      <4> QED  BY <4>1, <2>2, <2>4, <1>2
    <3> QED  BY <3>1, <3>2
  <2>5. /\ deferStack'[k].at \in 1..Depth'
        /\ deferStack'[k].name \in stack'[deferStack'[k].at].vars
    <3>1. deferStack[k].at \in 1..Depth'  BY <2>2, <1>1, <1>2
    <3> QED  BY <3>1, <2>1, <2>2, <2>3
  <2>6. 1..Depth' = 1..Depth  BY <1>2
  <2> QED  BY <2>1, <2>4, <2>5, <2>6
<1>6. Distinct' /\ Kinds'
  BY <1>1, <1>2 DEF Distinct, Kinds
<1>7. Skeleton'  BY <1>3, <1>4, <1>5, <1>6 DEF Skeleton
<1> QED  BY <1>2, <1>7, CutFacts

-----------------------------------------------------------------------------
(* Steps of the generator as steps of the promise *)

\* The blocks that the execution is in, and what is deferred in them.
Place == /\ Running => Blocks = Depth /\ Height = Count /\ loc = Run
         /\ loc.slot = "off" => Blocks = 0 /\ Height = 0
         /\ (~Running /\ loc.slot # "off") =>
               /\ loc.at \in 1..Depth /\ Blocks = loc.at - 1
               /\ Height = stack[loc.at].saved
               /\ stack[loc.at].kind \in {"then", "else", "loop"}
         /\ Depth \in Nat /\ Count \in Nat

\* They are so in every state that the invariant allows.
LEMMA PlaceFacts == IInv => Place
<1> SUFFICES ASSUME IInv PROVE Place
  OBVIOUS
<1>1. Where /\ View /\ Depth \in Nat /\ Count \in Nat
  BY ViewFacts, StackFacts, DeferFacts DEF IInv, Skeleton
<1>2. ASSUME Running PROVE Blocks = Depth /\ Height = Count /\ loc = Run
  <2>1. Blocks = Depth /\ loc.slot = "run"  BY <1>2 DEF Blocks, Running
  <2>2. loc \in [slot : Slot, at : Nat] /\ loc.at = 0  BY <2>1, <1>1 DEF Where
  <2>3. loc = Run  BY <2>1, <2>2 DEF Run, At
  <2> QED  BY <2>1, <2>3 DEF Height
<1>3. ASSUME loc.slot = "off" PROVE Blocks = 0 /\ Height = 0
  <2>1. Blocks = 0  BY <1>3 DEF Blocks, Running
  <2> QED  BY <2>1, <1>1 DEF View
<1>4. ASSUME ~Running, loc.slot # "off"
      PROVE  /\ loc.at \in 1..Depth /\ Blocks = loc.at - 1
             /\ Height = stack[loc.at].saved
             /\ stack[loc.at].kind \in {"then", "else", "loop"}
  <2>1. /\ loc.at \in 1..Depth /\ Blocks = loc.at - 1
        /\ stack[loc.at].kind \in {"then", "else", "loop"}
    BY <1>1, <1>4 DEF Where, Blocks, Running
  <2>2. Blocks # Depth /\ Blocks + 1 = loc.at  BY <2>1, <1>1
  <2> QED  BY <2>1, <2>2 DEF Height
<1> QED  BY <1>1, <1>2, <1>3, <1>4 DEF Place

\* What an execution that is out of sight has left stays left.
LEMMA AwayStep ==
    ASSUME IInv, Skeleton', pc' \in Nat \ {0}, ~Running, loc' = loc, ran' = <<>>,
           \A i \in 1..Depth : i <= loc.at => /\ i \in 1..Depth'
                                              /\ stack'[i].saved = stack[i].saved
                                              /\ \/ stack'[i].kind = stack[i].kind
                                                 \/ stack[i].kind = "params",
           \A k \in 1..Height : deferStack'[k] = deferStack[k]
    PROVE  IInv' /\ Promise!Next
<1>1. Place /\ Where  BY PlaceFacts DEF IInv
<1>2. Where'
  <2>1. CASE loc.slot \in {"run", "off"}  BY <2>1, <1>1 DEF Where
  <2>2. CASE loc.slot \notin {"run", "off"}
    <3>1. loc.at \in 1..Depth /\ stack[loc.at].kind \in {"then", "else", "loop"}
      BY <2>2, <1>1 DEF Where
    <3>2. loc.at \in 1..Depth' /\ stack'[loc.at].kind = stack[loc.at].kind
      BY <3>1, <1>1 DEF Place
    <3> QED  BY <2>2, <3>1, <3>2, <1>1 DEF Where
  <2> QED  BY <2>1, <2>2
<1>3. IInv'  BY <1>2 DEF IInv
<1>4. Place'  BY <1>3, PlaceFacts, PTL
<1>5. ~Running' /\ loc'.slot = loc.slot /\ loc'.at = loc.at  BY DEF Running
<1>6. Blocks' = Blocks /\ Height' = Height
  <2>1. CASE loc.slot = "off"
    BY <2>1, <1>1, <1>4, <1>5 DEF Place
  <2>2. CASE loc.slot # "off"
    <3>1. loc.at \in 1..Depth /\ Height = stack[loc.at].saved /\ Blocks = loc.at - 1
      BY <2>2, <1>1 DEF Place
    <3>2. Height' = stack'[loc.at].saved /\ Blocks' = loc.at - 1
      BY <2>2, <1>4, <1>5 DEF Place
    <3>3. stack'[loc.at].saved = stack[loc.at].saved  BY <3>1, <1>1 DEF Place
    <3> QED  BY <3>1, <3>2, <3>3
  <2> QED  BY <2>1, <2>2
<1>7. Same(Blocks, Height)
  <2>1. CASE loc.slot = "off"  BY <2>1, <1>1 DEF Place, Same
  <2>2. CASE loc.slot # "off"  BY <2>2, <1>1 DEF Place, Same
  <2> QED  BY <2>1, <2>2
<1> QED  BY <1>3, <1>6, <1>7, WorkStep

\* The generator's state does not change.
LEMMA StayStep ==
    ASSUME IInv, UNCHANGED <<deferStack, stack, loc>>, pc' \in Nat \ {0}, ran' = <<>>
    PROVE  IInv' /\ Promise!Next
<1>1. Depth' = Depth /\ Count' = Count /\ Blocks' = Blocks /\ Height' = Height
  BY DEF Depth, Count, Blocks, Height, Running
<1>2. IInv'
  BY DEF IInv, Skeleton, Typed, Saved, Owned, Distinct, Kinds, Where, Depth, Count
<1>3. Same(Blocks, Height)  BY DEF Same
<1> QED  BY <1>1, <1>2, <1>3, WorkStep

\* An entry is pushed on the defer stack.
LEMMA GrowStep ==
    ASSUME IInv, Skeleton', pc' \in Nat \ {0}, Kept, Depth' = Depth, Depth > 0,
           \A i \in 1..Depth : stack'[i].kind = stack[i].kind,
           NEW d \in Defer, Grown(d), loc' = loc, ran' = <<>>
    PROVE  IInv' /\ Promise!Next
<1>1. Place /\ View  BY PlaceFacts, ViewFacts
<1>2. CASE Running
  <2>1. Where'
    <3>1. loc.slot = "run" /\ loc.at = 0  BY <1>1, <1>2 DEF Place, Run, At
    <3> QED  BY <3>1 DEF IInv, Where
  <2>2. IInv'  BY <2>1 DEF IInv
  <2>3. Place' /\ Running'
    <3>1. Running'  BY <1>2 DEF Running
    <3> QED  BY <2>2, <3>1, PlaceFacts, PTL
  <2>4. /\ Blocks = Depth /\ Height = Count
        /\ Blocks' = Depth /\ Height' = Count' /\ Same(Blocks, Height)
    BY <1>1, <1>2, <2>3 DEF Place, Same, Kept
  <2>5. CASE Count' = Count
    BY <2>2, <2>4, <2>5, WorkStep
  <2>6. CASE Count' = Count + 1 /\ deferStack'[Count + 1] = d
    BY <2>2, <2>4, <2>6, RegisterStep
  <2> QED  BY <2>2, <2>5, <2>6 DEF Grown
<1>3. CASE ~Running
  <2>1. \A k \in 1..Height : deferStack'[k] = deferStack[k]
    BY <1>1 DEF Place, View, Kept
  <2>2. \A i \in 1..Depth : i <= loc.at => /\ i \in 1..Depth'
                                           /\ stack'[i].saved = stack[i].saved
                                           /\ \/ stack'[i].kind = stack[i].kind
                                              \/ stack[i].kind = "params"
    BY DEF Kept
  <2> QED  BY <1>3, <2>1, <2>2, AwayStep
<1> QED  BY <1>2, <1>3

\* A block is opened, and the execution enters it or not.
LEMMA OpenStep ==
    ASSUME IInv, Skeleton', pc' \in Nat \ {0}, Kept, Depth' = Depth + 1, Count' = Count,
           \A i \in 1..Depth : stack'[i].kind = stack[i].kind \/ stack[i].kind = "params",
           stack'[Depth + 1].saved = Count,
           \/ loc' = loc
           \/ /\ Running /\ stack'[Depth + 1].kind \in {"then", "loop"}
              /\ loc' \in {At("else", Depth + 1), At("out", Depth + 1)},
           ran' = <<>>
    PROVE  IInv' /\ Promise!Next
<1>1. Place /\ View  BY PlaceFacts, ViewFacts
<1>2. CASE Running /\ loc' = loc
  <2>1. Where'
    <3>1. loc.slot = "run" /\ loc.at = 0  BY <1>1, <1>2 DEF Place, Run, At
    <3> QED  BY <3>1, <1>2 DEF IInv, Where
  <2>2. IInv'  BY <2>1 DEF IInv
  <2>3. Running'  BY <1>2 DEF Running
  <2>4. Place'  BY <2>2, PlaceFacts, PTL
  <2>5. /\ Blocks' = Blocks + 1 /\ Height' = Height /\ Same(Blocks, Height)
        /\ stack'[Blocks + 1].saved = Height
    BY <1>1, <1>2, <2>3, <2>4 DEF Place, Same, Kept
  <2> QED  BY <2>2, <2>5, EnterStep
<1>3. CASE /\ Running /\ stack'[Depth + 1].kind \in {"then", "loop"}
           /\ loc' \in {At("else", Depth + 1), At("out", Depth + 1)}
  <2>1. loc'.slot \in {"else", "out"} /\ loc'.at = Depth + 1
    BY <1>3 DEF At
  <2>2. Where'
    <3>1. loc' \in [slot : Slot, at : Nat]  BY <1>1, <1>3 DEF At, Slot, Place
    <3> QED  BY <2>1, <3>1, <1>1, <1>3 DEF Where, Place
  <2>3. IInv'  BY <2>2 DEF IInv
  <2>4. Place'  BY <2>3, PlaceFacts, PTL
  <2>5. Blocks' = Depth /\ Height' = Count
    BY <1>1, <2>1, <2>4 DEF Place, Running
  <2>6. Blocks' = Blocks /\ Height' = Height /\ Same(Blocks, Height)
    BY <1>1, <1>3, <2>5 DEF Place, Same, Kept
  <2> QED  BY <2>3, <2>6, WorkStep
<1>4. CASE ~Running /\ loc' = loc
  <2>1. \A k \in 1..Height : deferStack'[k] = deferStack[k]
    BY <1>1 DEF Place, View, Kept
  <2>2. \A i \in 1..Depth : i <= loc.at => /\ i \in 1..Depth'
                                           /\ stack'[i].saved = stack[i].saved
                                           /\ \/ stack'[i].kind = stack[i].kind
                                              \/ stack[i].kind = "params"
    BY <1>1 DEF Kept, Place
  <2> QED  BY <1>4, <2>1, <2>2, AwayStep
<1> QED  BY <1>2, <1>3, <1>4

\* The outermost n blocks and their defers are left alone, the execution resumes or stays away.
LEMMA LeftStep ==
    ASSUME IInv, IInv', Running, NEW n \in 0..Depth-1, NEW c, NEW given, NEW d,
           Unwind(stack[n + 1].saved, c, given, d),
           Blocks' = n, Height' = stack[n + 1].saved, Same(n, stack[n + 1].saved)
    PROVE  Promise!Next
<1>1. Place /\ Typed /\ Saved  BY PlaceFacts DEF IInv, Skeleton
<1>2. n + 1 \in 1..Depth /\ n \in 0..Blocks-1
  BY <1>1 DEF Place
<1>3. stack[n + 1].saved \in 0..Count
  BY <1>1, <1>2, FrameFields DEF Place, Saved, Typed, Depth
<1>4. ran' = Promise!Unwound(stack[n + 1].saved)
  BY <1>3, UnwindFacts
<1> QED  BY <1>2, <1>4, LeaveStep

\* What is pending for an execution out of sight, compared with the innermost block.
LEMMA AwayFacts ==
    ASSUME IInv, ~Running, Depth > 0
    PROVE  /\ Height \in Nat /\ Height <= Top.saved /\ loc.at \in 0..Depth
           /\ loc.at = Depth => Height = Top.saved /\ Blocks = Depth - 1
<1>1. Place /\ Saved /\ Typed /\ Where  BY PlaceFacts DEF IInv, Skeleton
<1>2. \A i \in 1..Depth : stack[i].saved \in Nat /\ stack[i].saved <= Top.saved
  BY <1>1, FrameFields DEF Place, Saved, Typed, Top, Depth
<1>3. CASE loc.slot = "off"
  <2>1. loc.at = 0 /\ Height = 0 /\ Top.saved \in Nat
    BY <1>1, <1>2, <1>3 DEF Where, Place, Top
  <2> QED  BY <2>1, <1>1 DEF Place
<1>4. CASE loc.slot # "off"
  <2>1. loc.at \in 1..Depth /\ Height = stack[loc.at].saved /\ Blocks = loc.at - 1
    BY <1>1, <1>4 DEF Place
  <2> QED  BY <2>1, <1>1, <1>2 DEF Place, Top
<1> QED  BY <1>3, <1>4

\* The innermost block is closed.
LEMMA CloseStep ==
    ASSUME IInv, Depth > 0, pc' \in Nat \ {0}, CloseText,
           deferStack' = Trimmed(Top.saved), stack' = Below,
           loc' = IF Running THEN Run ELSE Resumed
    PROVE  IInv' /\ Promise!Next
<1>1. Place /\ Depth \in 1..Depth /\ Depth - 1 \in 0..Depth-1 /\ stack[Depth] = Top
  BY PlaceFacts DEF Place, Top
<1>2. /\ Skeleton' /\ Depth' = Depth - 1 /\ Count' = Top.saved
      /\ \A i \in 1..Depth-1 : stack'[i] = stack[i]
      /\ \A k \in 1..Top.saved : deferStack'[k] = deferStack[k]
  BY PopShape
<1>3. Same(Depth - 1, Top.saved)  BY <1>2 DEF Same
<1>4. CASE loc' = Run
  <2>1. Where'  BY <1>4 DEF Where, Run, At, Slot
  <2>2. IInv'  BY <2>1, <1>2 DEF IInv
  <2>3. Running'  BY <1>4 DEF Running, Run, At
  <2>4. Place'  BY <2>2, PlaceFacts, PTL
  <2>5. Blocks' = Depth - 1 /\ Height' = Top.saved
    BY <2>3, <2>4, <1>2 DEF Place
  <2>6. CASE Running
    <3>1. Unwind(Top.saved, cell, {}, Depth - 1)  BY <2>6 DEF CloseText
    <3>2. DEFINE n == Depth - 1
    <3>3. n \in 0..Depth-1 /\ stack[n + 1] = Top /\ Blocks' = n  BY <1>1, <2>5 DEF Place
    <3>4. Same(n, Top.saved)  BY <1>3
    <3> HIDE DEF n
    <3> QED  BY <3>1, <3>3, <3>4, <2>2, <2>5, <2>6, LeftStep
  <2>7. CASE ~Running
    <3>1. ran' = <<>>  BY <2>7 DEF CloseText, Idle
    <3>2. loc.at = Depth
      <4>1. loc.at # Depth => loc' = loc  BY <2>7 DEF Resumed
      <4> QED  BY <4>1, <2>3, <2>7 DEF Running
    <3>3. Height = Top.saved /\ Blocks = Depth - 1  BY <3>2, <2>7, AwayFacts
    <3> QED  BY <3>1, <3>3, <2>2, <2>5, <1>3, WorkStep
  <2> QED  BY <2>6, <2>7
<1>5. CASE loc' # Run
  <2>1. ~Running /\ loc' = loc /\ loc.at # Depth  BY <1>5 DEF Resumed
  <2>2. ran' = <<>>  BY <2>1 DEF CloseText, Idle
  <2>3. Top.saved \in Nat /\ \A k \in 1..Height : k \in 1..Top.saved
    BY <2>1, <1>2, AwayFacts, CutFacts
  <2>4. \A i \in 1..Depth : i <= loc.at => i \in 1..Depth-1
    BY <2>1, <1>1, AwayFacts
  <2> QED  BY <2>1, <2>2, <2>3, <2>4, <1>2, AwayStep
<1> QED  BY <1>4, <1>5

\* The innermost block is left and its place taken by another branch or the next iteration f:
\* the execution leaves it for good, stays in it, comes back to it, or stays away.
LEMMA SwitchStep ==
    ASSUME IInv, Depth > 0, pc' \in Nat \ {0}, CloseText,
           deferStack' = Trimmed(Top.saved),
           NEW f \in Frame, f.saved = Top.saved, f.vars = {}, f.kind \in {"else", "loop"},
           stack' = [stack EXCEPT ![Depth] = f],
           \/ Running /\ loc' \in {Run, At("out", Depth)}
           \/ ~Running /\ loc.at = Depth /\ loc' \in {Run, loc}
           \/ ~Running /\ loc' = loc
    PROVE  IInv' /\ Promise!Next
<1>1. Place /\ Depth \in 1..Depth /\ Depth - 1 \in 0..Depth-1 /\ stack[Depth] = Top
  BY PlaceFacts DEF Place, Top
<1>2. /\ Skeleton' /\ Depth' = Depth /\ Count' = Top.saved /\ stack'[Depth] = f
      /\ \A i \in 1..Depth-1 : stack'[i] = stack[i]
      /\ \A k \in 1..Top.saved : deferStack'[k] = deferStack[k]
  BY ClearShape
<1>3. Same(Depth, Top.saved)  BY <1>1, <1>2 DEF Same, Place
<1>4. Same(Depth - 1, Top.saved)  BY <1>2 DEF Same
<1>5. ASSUME loc' = Run
      PROVE  IInv' /\ Blocks' = Depth /\ Height' = Top.saved
  <2>1. Where'  BY <1>5 DEF Where, Run, At, Slot
  <2>2. IInv'  BY <2>1, <1>2 DEF IInv
  <2>3. Running'  BY <1>5 DEF Running, Run, At
  <2>4. Place'  BY <2>2, PlaceFacts, PTL
  <2> QED  BY <2>2, <2>3, <2>4, <1>2 DEF Place
<1>6. ASSUME ~Running
      PROVE  /\ ran' = <<>>
             /\ loc.at = Depth => Height = Top.saved /\ Blocks = Depth - 1
             /\ loc.at \in 0..Depth
             /\ \A k \in 1..Height : deferStack'[k] = deferStack[k]
  <2>1. Top.saved \in Nat  BY CutFacts
  <2> QED  BY <1>6, <2>1, <1>1, <1>2, AwayFacts DEF CloseText, Idle, Place
<1>7. CASE Running /\ loc' = Run
  <2>1. Unwind(Top.saved, cell, {}, Depth - 1)  BY <1>7 DEF CloseText
  <2>2. Blocks = Depth  BY <1>1, <1>7 DEF Place
  <2>3. ran' = Promise!Unwound(Top.saved)
    BY <2>1, <1>7, UnwindFacts, CutFacts
  <2> QED  BY <2>2, <2>3, <1>1, <1>3, <1>5, <1>7, RepeatStep
<1>8. CASE Running /\ loc' = At("out", Depth)
  <2>1. Unwind(Top.saved, cell, {}, Depth - 1)  BY <1>8 DEF CloseText
  <2>2. loc' = [slot |-> "out", at |-> Depth]  BY <1>8 DEF At
  <2>3. Where'
    BY <2>2, <1>1, <1>2 DEF Where, Slot, Place
  <2>4. IInv'  BY <2>3, <1>2 DEF IInv
  <2>5. Place'  BY <2>4, PlaceFacts, PTL
  <2>6. Blocks' = Depth - 1 /\ Height' = Top.saved
    BY <2>2, <2>5, <1>2 DEF Place, Running
  <2>7. DEFINE n == Depth - 1
  <2>8. n \in 0..Depth-1 /\ stack[n + 1] = Top /\ Blocks' = n  BY <1>1, <2>6 DEF Place
  <2>9. Same(n, Top.saved)  BY <1>4
  <2> HIDE DEF n
  <2> QED  BY <2>1, <2>4, <2>6, <2>8, <2>9, <1>8, LeftStep
<1>9. CASE ~Running /\ loc.at = Depth /\ loc' = Run
  <2>1. Height = Top.saved /\ Blocks = Depth - 1 /\ ran' = <<>>  BY <1>6, <1>9
  <2>2. Blocks + 1 = Depth  BY <2>1, <1>1 DEF Place
  <2> QED  BY <2>1, <2>2, <1>2, <1>4, <1>5, <1>9, EnterStep
<1>10. CASE ~Running /\ loc' = loc
  <2>1. CASE loc.at # Depth
    <3>1. \A i \in 1..Depth : i <= loc.at => i \in 1..Depth-1  BY <2>1, <1>1, <1>6, <1>10 DEF Place
    <3> QED  BY <3>1, <1>2, <1>6, <1>10, AwayStep
  <2>2. CASE loc.at = Depth
    <3>1. Where'
      BY <2>2, <1>1, <1>2, <1>10 DEF Where, IInv, Place
    <3>2. IInv'  BY <3>1, <1>2 DEF IInv
    <3>3. Place' /\ ~Running' /\ loc'.slot # "off"
      <4>1. ~Running' /\ loc'.slot # "off"
        BY <2>2, <1>1, <1>10 DEF Running, IInv, Where, Place
      <4> QED  BY <4>1, <3>2, PlaceFacts, PTL
    <3>4. Height' = Top.saved /\ Blocks' = Depth - 1
      BY <2>2, <3>3, <1>2, <1>10 DEF Place
    <3> QED  BY <2>2, <3>2, <3>4, <1>4, <1>6, <1>10, WorkStep
  <2> QED  BY <2>1, <2>2
<1> QED  BY <1>7, <1>8, <1>9, <1>10

\* An execution that jumps resumes at an open loop, or it has returned.
LEMMA JumpKeeps ==
    ASSUME IInv, UNCHANGED <<deferStack, stack>>, pc' \in Nat \ {0},
           \/ loc' = loc
           \/ loc' = Off
           \/ \E t \in 1..MaxNest : LoopAt(t) /\ loc' \in {At("out", t), At("next", t)}
    PROVE  IInv'
<1>1. Place  BY PlaceFacts
<1>2. Depth' = Depth /\ Count' = Count  BY DEF Depth, Count
<1>3. Skeleton'
  BY <1>2 DEF IInv, Skeleton, Typed, Saved, Owned, Distinct, Kinds, Depth, Count
<1>4. Where'
  <2>1. CASE loc' = loc  BY <2>1, <1>2 DEF IInv, Where
  <2>2. CASE loc' = Off  BY <2>2 DEF Off, At, Where, Slot
  <2>3. ASSUME NEW t \in 1..MaxNest, LoopAt(t), loc' \in {At("out", t), At("next", t)}
        PROVE  Where'
    <3>1. loc' \in {[slot |-> "out", at |-> t], [slot |-> "next", at |-> t]}
      BY <2>3 DEF At
    <3>2. t \in 1..Depth' /\ stack'[t].kind = "loop"  BY <2>3, <1>2 DEF LoopAt
    <3> QED  BY <3>1, <3>2 DEF Where, Slot
  <2> QED  BY <2>1, <2>2, <2>3
<1> QED  BY <1>3, <1>4 DEF IInv

\* A jump leaves all but n blocks, in the execution only.
LEMMA JumpStep ==
    ASSUME IInv, IInv', NEW n \in 0..Depth-1, UNCHANGED <<deferStack, stack>>,
           NEW c, NEW given, NEW d,
           Running => /\ Unwind(stack[n + 1].saved, c, given, d)
                      /\ \/ loc' = Off /\ n = 0
                         \/ loc' \in {At("out", n + 1), At("next", n + 1)},
           ~Running => ran' = <<>> /\ loc' = loc
    PROVE  Promise!Next
<1>1. CASE ~Running
  <2>1. pc' \in Nat \ {0}  BY DEF IInv
  <2> QED  BY <1>1, <2>1, StayStep
<1>2. CASE Running
  <2>1. Place /\ Place' /\ Saved  BY PlaceFacts, PTL DEF IInv, Skeleton
  <2>2. Blocks' = n /\ Height' = stack[n + 1].saved
    <3>1. CASE loc' = Off /\ n = 0
      <4>1. loc'.slot = "off"  BY <3>1 DEF Off, At
      <4> QED  BY <3>1, <4>1, <2>1 DEF Place, Saved
    <3>2. CASE loc' \in {At("out", n + 1), At("next", n + 1)}
      <4>1. loc'.slot \in {"out", "next"} /\ loc'.at = n + 1  BY <3>2 DEF At
      <4> QED  BY <4>1, <2>1 DEF Place, Running
    <3> QED  BY <1>2, <3>1, <3>2
  <2>3. Same(n, stack[n + 1].saved)  BY DEF Same
  <2> QED  BY <1>2, <2>2, <2>3, LeftStep
<1> QED  BY <1>1, <1>2

\* The function returns after running everything that is pending.
LEMMA ReturnStep ==
    ASSUME IInv, IInv', InBody, UNCHANGED codegen, NEW c, NEW given,
           IF Running THEN Unwind(0, c, given, 0) ELSE Idle,
           loc' = IF Running THEN Off ELSE loc
    PROVE  Promise!Next
<1>1. Place /\ Saved  BY PlaceFacts DEF IInv, Skeleton
<1>2. 0 \in 0..Depth-1 /\ 0 + 1 = 1 /\ stack[1].saved = 0
  BY <1>1 DEF InBody, Saved, Place
<1>3. UNCHANGED <<deferStack, stack>>  BY DEF codegen
<1>4. Running => Unwind(stack[0 + 1].saved, c, given, 0) /\ loc' = Off
  BY <1>2
<1>5. ~Running => ran' = <<>> /\ loc' = loc  BY DEF Idle
<1> QED  BY <1>2, <1>3, <1>4, <1>5, JumpStep

\* The end of the function.
LEMMA EndStep ==
    ASSUME IInv, End, pc' \in Nat \ {0}
    PROVE  IInv' /\ Promise!Next
<1>1. Place /\ Saved /\ Kinds /\ Where  BY PlaceFacts DEF IInv, Skeleton
<1>2. Depth = 1 /\ stack[1].kind = "fn" /\ stack[1].saved = 0
  BY <1>1 DEF End, TopIs, Top, Kinds, Saved, Place
<1>3. Depth' = 0 /\ Count' = 0  BY DEF End, Depth, Count
<1>4. Skeleton'
  <2>1. Typed'  BY <1>3, BoundAssumption DEF End, Typed
  <2> QED  BY <2>1, <1>3 DEF Skeleton, Saved, Owned, Distinct, Kinds
<1>5. loc' = [slot |-> "off", at |-> 0]  BY DEF End, Off, At
<1>6. IInv'  BY <1>4, <1>5 DEF IInv, Where, Slot
<1>7. Place'  BY <1>6, PlaceFacts, PTL
<1>8. Blocks' = 0 /\ Height' = 0  BY <1>5, <1>7 DEF Place
<1>9. Same(0, 0)  BY DEF Same
<1>10. CASE Running
  <2>1. Unwind(0, cell, {}, 0)  BY <1>10 DEF End
  <2>2. 0 \in 0..Depth-1 /\ 0 + 1 = 1  BY <1>2
  <2>3. ran' = Promise!Unwound(0)
    BY <2>1, <1>1, <1>10, UnwindFacts DEF Place
  <2>4. Blocks = 1 /\ 0 \in 0..Blocks-1  BY <1>1, <1>2, <1>10 DEF Place
  <2> QED  BY <2>2, <2>3, <2>4, <1>2, <1>6, <1>8, <1>9, <1>10, LeaveStep
<1>11. CASE ~Running
  <2>1. loc.slot = "off"  BY <1>1, <1>2, <1>11 DEF Place
  <2>2. Blocks = 0 /\ Height = 0 /\ ran' = <<>>
    BY <2>1, <1>1, <1>11 DEF Place, End, Idle
  <2> QED  BY <2>2, <1>6, <1>8, <1>9, WorkStep
<1> QED  BY <1>10, <1>11

-----------------------------------------------------------------------------
(* The actions *)

\* An event moves the program on.
LEMMA PcStep ==
    ASSUME IInv, NEW event, Step(event)
    PROVE  pc' \in Nat \ {0}
BY DEF IInv, Step

\* The jumps, which leave the promise to the program: labels, `expr?` and slices break it.
Jumps == \/ \E t \in 1..MaxNest : Break(t) \/ Continue(t)
         \/ \E how \in {"plain", "try", "slice"} : Return(how)

\* Every other step of the generator and the execution keeps the invariant and the promise.
LEMMA WorkSteps ==
    ASSUME IInv, "shadow" \notin Risky, Next, ~Jumps
    PROVE  IInv' /\ Promise!Next
<1>1. Place /\ Typed /\ Saved /\ Kinds  BY PlaceFacts DEF IInv, Skeleton
<1>2. "shadow" \notin Risky  OBVIOUS
<1>3. InBody => Depth > 0  BY DEF InBody
<1>4. ASSUME NEW n \in Name, Param(n) PROVE IInv' /\ Promise!Next
  <2>1. Depth > 0 /\ Declare(n) /\ loc' = loc /\ ran' = <<>>  BY <1>4 DEF Param, TopIs
  <2>2. pc' \in Nat \ {0}  BY <1>4, PcStep DEF Param
  <2> QED  BY <2>1, <2>2, <1>2, DeclareShape, GrowStep
<1>5. ASSUME NEW n \in Name, NEW src \in Name \cup {Fresh}, Let(n, src)
      PROVE  IInv' /\ Promise!Next
  <2>1. Depth > 0 /\ Declare(n) /\ loc' = loc /\ ran' = <<>>  BY <1>3, <1>5 DEF Let
  <2>2. pc' \in Nat \ {0}  BY <1>5, PcStep DEF Let
  <2> QED  BY <2>1, <2>2, <1>2, DeclareShape, GrowStep
<1>6. ASSUME NEW n \in Name, DeferStmt(n) PROVE IInv' /\ Promise!Next
  <2>1. /\ Depth > 0 /\ Visible(n) /\ stack' = stack /\ loc' = loc /\ ran' = <<>>
        /\ deferStack' = Pushed([kind |-> "stmt", at |-> Denotes(n)[1], name |-> n])
    BY <1>3, <1>6 DEF DeferStmt, Idle
  <2>2. pc' \in Nat \ {0}  BY <1>6, PcStep DEF DeferStmt
  <2>3. PICK d \in Defer : Grown(d)  BY <2>1, DeferShape
  <2>4. Skeleton' /\ Kept /\ Depth' = Depth  BY <2>1, DeferShape
  <2> QED  BY <2>1, <2>2, <2>3, <2>4, GrowStep
<1>7. ASSUME NEW n \in Name, NEW src \in Name \cup {Fresh}, Assign(n, src)
      PROVE  IInv' /\ Promise!Next
  BY <1>7, PcStep, StayStep DEF Assign
<1>8. ASSUME NEW n \in Name, Move(n) PROVE IInv' /\ Promise!Next
  BY <1>8, PcStep, StayStep DEF Move
<1>9. ASSUME Body PROVE IInv' /\ Promise!Next
  <2> DEFINE s == [stack EXCEPT ![1].kind = "fn"]
  <2>1. /\ TopIs({"params"}) /\ stack' = Append(s, NewFrame("block", 1))
        /\ deferStack' = deferStack /\ loc' = loc /\ ran' = <<>>
    BY <1>9 DEF Body, Idle
  <2>2. Depth = 1 /\ stack[1].kind = "params" /\ stack[1] \in Frame
    <3>1. Depth > 0 /\ Depth \in Nat /\ stack[Depth].kind = "params"
      BY <2>1, <1>1 DEF TopIs, Top, Place
    <3>2. Depth = 1  BY <3>1, <1>1 DEF Kinds
    <3> QED  BY <3>1, <3>2, <1>1, FrameFields DEF Typed, Depth
  <2>3. /\ s \in Seq(Frame) /\ Len(s) = Depth /\ s[1].saved = stack[1].saved
        /\ s[1].vars = stack[1].vars
    <3> DEFINE f == [stack[1] EXCEPT !.kind = "fn"]
    <3>1. f \in Frame /\ f.saved = stack[1].saved /\ f.vars = stack[1].vars
      BY <2>2 DEF Frame, FrameKind
    <3>2. s = [stack EXCEPT ![1] = f]  BY <2>2
    <3> HIDE DEF f
    <3> QED  BY <3>1, <3>2, <2>2, <1>1, ExceptSeq DEF Typed, Depth
  <2>4. Depth \in 1..MaxNest-1  BY <2>2, BoundAssumption
  <2>5. pc' \in Nat \ {0}  BY <1>9, PcStep DEF Body
  <2>6. "block" \in FrameKind \ {"params", "fn"} /\ 1 \in Nat \ {0}  BY DEF FrameKind
  <2>7. \A i \in 1..Depth : /\ s[i].saved = stack[i].saved /\ s[i].vars = stack[i].vars
                            /\ s[i].kind \in {"params", "fn"} => i = 1
    BY <2>2, <2>3
  <2> HIDE DEF s
  <2>8. /\ Skeleton' /\ Kept /\ Depth' = Depth + 1 /\ Count' = Count
        /\ stack'[Depth + 1].saved = Count
    BY <2>1, <2>3, <2>4, <2>6, <2>7, PushShape
  <2>9. \A i \in 1..Depth : stack[i].kind = "params"  BY <2>2
  <2> QED  BY <2>1, <2>5, <2>8, <2>9, OpenStep
<1>10. ASSUME NEW kind \in {"block", "then", "loop"}, NEW from \in Nat \ {0}, InBody,
              Push(NewFrame(kind, from)), deferStack' = deferStack, pc' \in Nat \ {0},
              ran' = <<>>,
              \/ loc' = loc
              \/ /\ Running /\ kind \in {"then", "loop"}
                 /\ loc' \in {At("else", Depth + 1), At("out", Depth + 1)}
       PROVE  IInv' /\ Promise!Next
  <2>1. Depth \in 1..MaxNest-1 /\ stack' = Append(stack, NewFrame(kind, from))
    BY <1>1, <1>3, <1>10, BoundAssumption DEF Push, Place
  <2>2. kind \in FrameKind \ {"params", "fn"}  BY DEF FrameKind
  <2>3. /\ stack \in Seq(Frame) /\ Len(stack) = Depth
        /\ \A i \in 1..Depth : stack[i].kind \in {"params", "fn"} => i = 1
    BY <1>1 DEF Typed, Kinds, Depth
  <2>4. /\ Skeleton' /\ Kept /\ Depth' = Depth + 1 /\ Count' = Count
        /\ \A i \in 1..Depth : stack'[i] = stack[i]
        /\ stack'[Depth + 1].saved = Count /\ stack'[Depth + 1].kind = kind
    BY <2>1, <2>2, <2>3, <1>10, PushShape
  <2> QED  BY <2>4, <1>10, OpenStep
<1>11. ASSUME OpenBlock PROVE IInv' /\ Promise!Next
  <2>1. pc' \in Nat \ {0}  BY <1>11, PcStep DEF OpenBlock
  <2> QED  BY <2>1, <1>10, <1>11 DEF OpenBlock, Idle
<1>12. ASSUME If PROVE IInv' /\ Promise!Next
  <2>1. pc' \in Nat \ {0}  BY <1>12, PcStep DEF If
  <2>2. loc' = loc \/ (Running /\ loc' = At("else", Depth + 1))
    BY <1>1, <1>12 DEF If, Place
  <2> QED  BY <2>1, <2>2, <1>10, <1>12 DEF If, Idle
<1>13. ASSUME Loop PROVE IInv' /\ Promise!Next
  <2>1. pc' \in Nat \ {0}  BY <1>13, PcStep DEF Loop
  <2>2. loc' = loc \/ (Running /\ loc' = At("out", Depth + 1))
    BY <1>1, <1>13 DEF Loop, Place
  <2> QED  BY <2>1, <2>2, <1>10, <1>13 DEF Loop, Idle
<1>14. ASSUME Close PROVE IInv' /\ Promise!Next
  <2>1. /\ Depth > 0 /\ CloseText /\ deferStack' = Trimmed(Top.saved) /\ stack' = Below
        /\ loc' = Resumed
    BY <1>14 DEF Close, TopIs
  <2>2. Running => Resumed = Run
    BY <2>1, <1>1 DEF Resumed, Place
  <2>3. pc' \in Nat \ {0}  BY <1>14, PcStep DEF Close
  <2> QED  BY <2>1, <2>2, <2>3, CloseStep
<1>15. ASSUME EndLoop PROVE IInv' /\ Promise!Next
  <2>1. /\ Depth > 0 /\ CloseText /\ deferStack' = Trimmed(Top.saved) /\ stack' = Below
        /\ loc' = IF Running THEN Run ELSE Resumed
    BY <1>15 DEF EndLoop, TopIs
  <2>2. pc' \in Nat \ {0}  BY <1>15 DEF EndLoop, IInv
  <2> QED  BY <2>1, <2>2, CloseStep
<1>16. ASSUME Else PROVE IInv' /\ Promise!Next
  <2> DEFINE f == [[Top EXCEPT !.kind = "else"] EXCEPT !.vars = {}]
  <2>1. /\ Depth > 0 /\ CloseText /\ deferStack' = Trimmed(Top.saved)
        /\ stack' = [stack EXCEPT ![Depth] = [@ EXCEPT !.kind = "else", !.vars = {}]]
        /\ loc' = IF Running THEN At("out", Depth)
                  ELSE IF loc = At("else", Depth) THEN Run ELSE loc
    BY <1>16 DEF Else, TopIs
  <2>2. Top \in Frame  BY <2>1, <1>1, StackFacts
  <2>3. f \in Frame /\ f.saved = Top.saved /\ f.vars = {} /\ f.kind = "else"
    BY <2>2 DEF Frame, FrameKind
  <2>4. stack' = [stack EXCEPT ![Depth] = f]  BY <2>1 DEF Top
  <2> HIDE DEF f
  <2>5. pc' \in Nat \ {0}  BY <1>16, PcStep DEF Else
  <2>6. loc = At("else", Depth) => loc.at = Depth  BY DEF At
  <2> QED  BY <2>1, <2>3, <2>4, <2>5, <2>6, SwitchStep
<1>17. ASSUME NextIteration PROVE IInv' /\ Promise!Next
  <2> DEFINE f == [Top EXCEPT !.vars = {}]
  <2>1. /\ Depth > 0 /\ Top.kind = "loop" /\ CloseText /\ deferStack' = Trimmed(Top.saved)
        /\ stack' = [stack EXCEPT ![Depth].vars = {}]
        /\ Running \/ loc = At("next", Depth)
        /\ loc' = Run /\ pc' = Top.from
    BY <1>17 DEF NextIteration, TopIs
  <2>2. Top \in Frame  BY <2>1, <1>1, StackFacts
  <2>3. /\ f \in Frame /\ f.saved = Top.saved /\ f.vars = {} /\ f.kind = "loop"
        /\ pc' \in Nat \ {0}
    BY <2>1, <2>2 DEF Frame
  <2>4. stack' = [stack EXCEPT ![Depth] = f]  BY <2>1 DEF Top
  <2> HIDE DEF f
  <2>5. loc = At("next", Depth) => loc.at = Depth  BY DEF At
  <2> QED  BY <2>1, <2>3, <2>4, <2>5, SwitchStep
<1>18. ASSUME End PROVE IInv' /\ Promise!Next
  BY <1>18, PcStep, EndStep DEF End
<1>19. ASSUME NEW n \in Name, ReturnVar(n) PROVE IInv' /\ Promise!Next
  <2>1. pc' \in Nat \ {0}  BY <1>19, PcStep DEF ReturnVar
  <2>2. IInv'
    BY <2>1, <1>19, JumpKeeps DEF ReturnVar, codegen
  <2> DEFINE c == [cell EXCEPT ![Denotes(n)] = [flag |-> FALSE, val |-> NoValue]]
             given == {cell[Denotes(n)].val}
  <2>3. /\ InBody /\ UNCHANGED codegen
        /\ IF Running THEN Unwind(0, c, given, 0) ELSE Idle
        /\ loc' = IF Running THEN Off ELSE loc
    BY <1>19 DEF ReturnVar
  <2> HIDE DEF c, given
  <2> QED  BY <2>2, <2>3, ReturnStep
<1> QED
  BY <1>4, <1>5, <1>6, <1>7, <1>8, <1>9, <1>11, <1>12, <1>13, <1>14, <1>15, <1>16, <1>17,
     <1>18, <1>19 DEF Next, Jumps

\* A jump keeps the invariant.
LEMMA JumpsKeep ==
    ASSUME IInv, Jumps
    PROVE  IInv'
<1>1. ASSUME NEW event, NEW slot \in {"out", "next"}, NEW t \in 1..MaxNest,
             Jump(event, slot, t)
      PROVE  IInv'
  <2>1. pc' \in Nat \ {0}  BY <1>1, PcStep DEF Jump
  <2> QED  BY <2>1, <1>1, JumpKeeps DEF Jump, codegen
<1>2. ASSUME NEW how \in {"plain", "try", "slice"}, Return(how) PROVE IInv'
  <2>1. pc' \in Nat \ {0}  BY <1>2, PcStep DEF Return
  <2> QED  BY <2>1, <1>2, JumpKeeps DEF Return, codegen
<1> QED  BY <1>1, <1>2 DEF Jumps, Break, Continue

\* It keeps the promise, too, when it names the innermost loop or returns no slice and no error.
LEMMA JumpsPromise ==
    ASSUME IInv, Risky \subseteq {"assign"}, Jumps
    PROVE  Promise!Next
<1>1. /\ Place /\ IInv' /\ "label" \notin Risky
      /\ \A how \in {"try", "slice"} : how \notin Risky
  BY PlaceFacts, JumpsKeep
<1>2. ASSUME NEW event, NEW slot \in {"out", "next"}, NEW t \in 1..MaxNest,
             Jump(event, slot, t)
      PROVE  Promise!Next
  <2>1. LoopAt(t) /\ Innermost(t) /\ t \in 1..Depth
    BY <1>1, <1>2 DEF Jump, LoopAt
  <2>2. PICK i \in 1..Depth :
            /\ Innermost(i)
            /\ IF Running THEN Unwind(stack[i].saved, cell, {}, t - 1) ELSE Idle
    BY <1>2 DEF Jump
  <2>3. i = t
    BY <2>1, <2>2, <1>1 DEF Innermost, LoopAt, Place
  <2>4. /\ UNCHANGED <<deferStack, stack>>
        /\ loc' = IF Running THEN At(slot, t) ELSE loc
    BY <1>2 DEF Jump, codegen
  <2> DEFINE n == t - 1
  <2>5. n \in 0..Depth-1 /\ n + 1 = t  BY <2>1, <1>1 DEF Place
  <2>6. Running => /\ Unwind(stack[n + 1].saved, cell, {}, t - 1)
                   /\ loc' \in {At("out", n + 1), At("next", n + 1)}
    BY <2>1, <2>2, <2>3, <2>4, <2>5
  <2>7. ~Running => ran' = <<>> /\ loc' = loc
    BY <2>2, <2>4 DEF Idle
  <2> HIDE DEF n
  <2> QED  BY <2>4, <2>5, <2>6, <2>7, <1>1, JumpStep
<1>3. ASSUME NEW how \in {"plain", "try", "slice"}, Return(how) PROVE Promise!Next
  <2>1. how = "plain"  BY <1>1, <1>3 DEF Return
  <2> QED  BY <2>1, <1>1, <1>3, ReturnStep DEF Return
<1> QED  BY <1>2, <1>3 DEF Jumps, Break, Continue

\* Every step keeps the invariant, and without risky constructs it keeps the promise.
LEMMA NextStep ==
    ASSUME IInv, "shadow" \notin Risky, Next
    PROVE  IInv' /\ (Risky \subseteq {"assign"} => Promise!Next)
BY WorkSteps, JumpsKeep, JumpsPromise

-----------------------------------------------------------------------------
(* The theorems *)

\* The invariant holds at the start of the function.
LEMMA InitStep == Init => IInv /\ Promise!Init
<1> SUFFICES ASSUME Init PROVE IInv /\ Promise!Init
  OBVIOUS
<1> DEFINE f == [kind |-> "params", saved |-> 0, vars |-> {}, from |-> 1]
<1>1. f \in Frame /\ f.kind = "params" /\ f.saved = 0 /\ f.vars = {}
  BY DEF Frame, FrameKind
<1>2. /\ stack = <<f>> /\ deferStack = <<>> /\ pc = 1 /\ ran = <<>>
      /\ loc = [slot |-> "run", at |-> 0]
  BY DEF Init, Run, At
<1> HIDE DEF f
<1>3. Depth = 1 /\ Count = 0 /\ stack[1] = f /\ stack \in Seq(Frame)
  BY <1>1, <1>2 DEF Depth, Count
<1>4. Typed  BY <1>2, <1>3, BoundAssumption DEF Typed
<1>5. Saved /\ Owned /\ Distinct /\ Kinds
  BY <1>1, <1>3 DEF Saved, Owned, Distinct, Kinds
<1>6. IInv
  BY <1>2, <1>4, <1>5 DEF IInv, Skeleton, Where, Slot
<1>7. Blocks = 1 /\ Pending = <<>>
  BY <1>2, <1>3 DEF Blocks, Pending, Running
<1>8. Marks = <<0>>
  BY <1>1, <1>3, <1>7 DEF Marks
<1> QED  BY <1>2, <1>6, <1>7, <1>8 DEF Promise!Init

\* The code generated by emit_defers_down_to at every exit keeps the promise of `defer`, in every
\* program without labelled jumps, `expr?`, returned slice literals and redeclared names:
\* leaving blocks runs what is deferred in them and nothing else, last one first, on the
\* variables that were meant.
THEOREM KeepsPromise ==
    ASSUME Risky \subseteq {"assign"}
    PROVE  Spec => DefersRunOnExit
<1>1. Init => IInv /\ Promise!Init
  BY InitStep
<1>2. IInv /\ [Next]_vars => IInv' /\ [Promise!Next]_(Promise!scopes)
  <2> SUFFICES ASSUME IInv, [Next]_vars PROVE IInv' /\ [Promise!Next]_(Promise!scopes)
    OBVIOUS
  <2>1. CASE Next
    <3>1. "shadow" \notin Risky  OBVIOUS
    <3> QED  BY <2>1, <3>1, NextStep
  <2>2. CASE UNCHANGED vars
    <3>1. UNCHANGED <<deferStack, stack, loc, pc, ran>>
      BY <2>2 DEF vars, codegen, program
    <3>2. IInv'
      BY <3>1 DEF IInv, Skeleton, Typed, Saved, Owned, Distinct, Kinds, Where, Depth, Count
    <3>3. Pending' = Pending /\ Marks' = Marks
      BY <3>1 DEF Pending, Marks, Blocks, Running, Trimmed, Depth
    <3> QED  BY <3>1, <3>2, <3>3 DEF Promise!scopes
  <2> QED  BY <2>1, <2>2
<1> QED  BY <1>1, <1>2, PTL DEF Spec, DefersRunOnExit, Promise!Spec

-----------------------------------------------------------------------------
(* Memory                                                                  *)
(*                                                                         *)
(* What the drops that the generated code runs do to memory: every variable *)
(* and value has its type, no value is dropped twice as long as no visible *)
(* name is redeclared, and none is lost in a program without risky         *)
(* constructs whose functions defer fewer than MAX_DEFER actions at a time. *)
(*                                                                         *)
(* The C variables in scope are those of the blocks that the execution is  *)
(* in; a set drop flag says that its variable is the only owner of a value *)
(* that is alive.  Every exit clears away the variables whose drops it     *)
(* runs, which is why no flag survives the value it speaks of.             *)

(* The invariant *)

\* The C variables of the d outermost blocks.
Scope(d) == {w \in (1..d) \X Name : w[2] \in stack[w[1]].vars}

Cell == [flag : BOOLEAN, val : Value \cup {NoValue}]

\* In memory c, where the values in gone are dead, a variable with its flag set is the only
\* owner of a live value.
Sane(c, gone) ==
    /\ \A w \in DOMAIN c : c[w] \in Cell
    /\ \A w \in DOMAIN c : c[w].flag => c[w].val \in Value \ gone
    /\ \A w, u \in DOMAIN c : c[w].flag /\ c[u].flag /\ c[w].val = c[u].val => w = u

\* The memory is sane, and its variables are those in scope.
Store == /\ DOMAIN cell = Scope(Blocks)
         /\ Sane(cell, dead)
         /\ dead \subseteq Held(cell)
         /\ twice = FALSE /\ lost \in BOOLEAN

IsDrop(k) == deferStack[k].kind = "drop"

\* A name has one pending drop, and that was deferred in the block that declares it.
Drops == /\ \A k, l \in 1..Count :
              IsDrop(k) /\ IsDrop(l) /\ deferStack[k].name = deferStack[l].name => k = l
         /\ \A k \in 1..Count : IsDrop(k) =>
              \A i \in 1..Depth : deferStack[k].at < i => k <= stack[i].saved

\* The parameters are declared before anything runs.
Entry == Depth > 0 /\ stack[1].kind = "params" => Depth = 1 /\ Running

\* The rest of the state.
Recorded == useCpp \in BOOLEAN /\ log \in Seq(Event) /\ size \in Nat /\ ran \in Seq(Defer)

MInv == IInv /\ Drops /\ Entry /\ Recorded /\ Store

-----------------------------------------------------------------------------
(* Memory *)

\* The values that memory c holds.
LEMMA HeldFacts ==
    ASSUME NEW c, NEW gone, Sane(c, gone)
    PROVE  /\ Held(c) \subseteq Value
           /\ \A w \in DOMAIN c : c[w].val # NoValue => c[w].val \in Held(c)
           /\ \A w \in DOMAIN c : c[w].flag => c[w].val \in Held(c)
BY ValueAssumption DEF Held, Sane, Cell

\* A variable gets the value of a live owner, or a value that nobody has.
LEMMA Filled ==
    ASSUME NEW c, NEW gone, Sane(c, gone), NEW w \in DOMAIN c, NEW val \in Value \ gone,
           \A u \in DOMAIN c : c[u].flag => c[u].val # val, NEW flag \in BOOLEAN,
           NEW e, e = [c EXCEPT ![w] = [flag |-> flag, val |-> val]]
    PROVE  Sane(e, gone) /\ DOMAIN e = DOMAIN c
<1>1. DOMAIN e = DOMAIN c /\ \A u \in DOMAIN c : u # w => e[u] = c[u]  OBVIOUS
<1>2. e[w] = [flag |-> flag, val |-> val]  OBVIOUS
<1>3. e[w] \in Cell /\ e[w].flag = flag /\ e[w].val = val  BY <1>2 DEF Cell
<1>4. \A u \in DOMAIN e : e[u] \in Cell  BY <1>1, <1>3 DEF Sane
<1>5. \A u \in DOMAIN e : e[u].flag => e[u].val \in Value \ gone  BY <1>1, <1>3 DEF Sane
<1>6. \A u, t \in DOMAIN e : e[u].flag /\ e[t].flag /\ e[u].val = e[t].val => u = t
  BY <1>1, <1>3 DEF Sane
<1> QED  BY <1>1, <1>4, <1>5, <1>6 DEF Sane

\* So does a variable that comes into scope.
LEMMA Added ==
    ASSUME NEW c, NEW gone, Sane(c, gone), NEW w, w \notin DOMAIN c, NEW val \in Value \ gone,
           \A u \in DOMAIN c : c[u].flag => c[u].val # val,
           NEW e,
           e = [u \in DOMAIN c \cup {w} |->
                   IF u = w THEN [flag |-> TRUE, val |-> val] ELSE c[u]]
    PROVE  /\ Sane(e, gone) /\ DOMAIN e = DOMAIN c \cup {w}
           /\ e[w] = [flag |-> TRUE, val |-> val] /\ \A u \in DOMAIN c : e[u] = c[u]
<1>1. DOMAIN e = DOMAIN c \cup {w} /\ \A u \in DOMAIN c : e[u] = c[u]  OBVIOUS
<1>2. e[w] = [flag |-> TRUE, val |-> val]  OBVIOUS
<1>3. e[w] \in Cell /\ e[w].flag = TRUE /\ e[w].val = val  BY <1>2 DEF Cell
<1>4. \A u \in DOMAIN e : e[u] \in Cell  BY <1>1, <1>3 DEF Sane
<1>5. \A u \in DOMAIN e : e[u].flag => e[u].val \in Value \ gone  BY <1>1, <1>3 DEF Sane
<1>6. \A u, t \in DOMAIN e : e[u].flag /\ e[t].flag /\ e[u].val = e[t].val => u = t
  BY <1>1, <1>3 DEF Sane
<1> QED  BY <1>1, <1>2, <1>4, <1>5, <1>6 DEF Sane

\* A variable whose value moves away: its flag is cleared, and nobody owns the value.
Unflagged(c, w) == [c EXCEPT ![w].flag = FALSE]

\* Memory stays sane, even if the value is gone.
LEMMA Surrendered ==
    ASSUME NEW c, NEW gone, Sane(c, gone), NEW w \in DOMAIN c, c[w].flag
    PROVE  /\ Sane(Unflagged(c, w), gone \cup {c[w].val}) /\ Sane(Unflagged(c, w), gone)
           /\ DOMAIN Unflagged(c, w) = DOMAIN c
           /\ \A u \in DOMAIN c : Unflagged(c, w)[u].val = c[u].val
           /\ \A u \in DOMAIN c : u # w => Unflagged(c, w)[u] = c[u]
           /\ Unflagged(c, w)[w].flag = FALSE
           /\ Held(Unflagged(c, w)) = Held(c)
<1> DEFINE e == Unflagged(c, w)
<1>0. e = [c EXCEPT ![w].flag = FALSE]  BY DEF Unflagged
<1> HIDE DEF e
<1>1. DOMAIN e = DOMAIN c /\ \A u \in DOMAIN c : u # w => e[u] = c[u]  BY <1>0
<1>2. c[w] \in Cell  BY DEF Sane
<1>3. e[w] = [c[w] EXCEPT !.flag = FALSE]  BY <1>0
<1>4. e[w] \in Cell /\ e[w].flag = FALSE /\ e[w].val = c[w].val
  BY <1>2, <1>3 DEF Cell
<1>5. \A u \in DOMAIN e : e[u] \in Cell  BY <1>1, <1>4 DEF Sane
<1>6. \A u \in DOMAIN e : e[u].flag => e[u].val \in Value \ (gone \cup {c[w].val})
  BY <1>1, <1>4 DEF Sane
<1>7. \A u, t \in DOMAIN e : e[u].flag /\ e[t].flag /\ e[u].val = e[t].val => u = t
  BY <1>1, <1>4 DEF Sane
<1>8. \A u \in DOMAIN c : e[u].val = c[u].val  BY <1>1, <1>4
<1>9. Held(e) = Held(c)  BY <1>1, <1>8 DEF Held
<1>10. Sane(e, gone \cup {c[w].val}) /\ Sane(e, gone)
  BY <1>5, <1>6, <1>7 DEF Sane
<1> QED  BY <1>1, <1>4, <1>8, <1>9, <1>10 DEF e

\* A variable whose value is returned: it is zeroed.
LEMMA Emptied ==
    ASSUME NEW c, NEW gone, Sane(c, gone), NEW w \in DOMAIN c, c[w].flag,
           NEW e, e = [c EXCEPT ![w] = [flag |-> FALSE, val |-> NoValue]]
    PROVE  /\ Sane(e, gone \cup {c[w].val}) /\ DOMAIN e = DOMAIN c
           /\ \A u \in DOMAIN c : e[u] = c[u] \/ (e[u].val = NoValue /\ c[u].val \in {c[w].val})
<1>1. DOMAIN e = DOMAIN c /\ \A u \in DOMAIN c : u # w => e[u] = c[u]  OBVIOUS
<1>2. e[w] = [flag |-> FALSE, val |-> NoValue]  OBVIOUS
<1>3. e[w] \in Cell /\ e[w].flag = FALSE /\ e[w].val = NoValue  BY <1>2 DEF Cell
<1>4. \A u \in DOMAIN e : e[u] \in Cell  BY <1>1, <1>3 DEF Sane
<1>5. \A u \in DOMAIN e : e[u].flag => e[u].val \in Value \ (gone \cup {c[w].val})
  BY <1>1, <1>3 DEF Sane
<1>6. \A u, t \in DOMAIN e : e[u].flag /\ e[t].flag /\ e[u].val = e[t].val => u = t
  BY <1>1, <1>3 DEF Sane
<1>7. \A u \in DOMAIN c : e[u] = c[u] \/ (e[u].val = NoValue /\ c[u].val \in {c[w].val})
  BY <1>1, <1>3
<1> QED  BY <1>1, <1>4, <1>5, <1>6, <1>7 DEF Sane

\* With fewer dead values memory is as sane.
LEMMA FewerDead ==
    ASSUME NEW c, NEW gone, Sane(c, gone), NEW less, less \subseteq gone
    PROVE  Sane(c, less)
BY DEF Sane

\* Memory changes, and what dies was alive.
LEMMA BecomeStore ==
    ASSUME Store, NEW c, NEW gone, Become(c, gone), gone \cap dead = {}, Sane(c, dead \cup gone),
           DOMAIN c = Scope(Blocks)'
    PROVE  Store'
<1>1. /\ cell' = c /\ dead' = (dead \cup gone) \cap Held(c)
      /\ twice' = FALSE /\ lost' \in BOOLEAN
  BY DEF Become, Store
<1>2. Sane(c, dead')  BY <1>1, FewerDead
<1>3. Sane(cell, dead)'  BY <1>1, <1>2 DEF Sane
<1>4. (dead \subseteq Held(cell))'  BY <1>1 DEF Held
<1> QED  BY <1>1, <1>3, <1>4 DEF Store

-----------------------------------------------------------------------------
(* The variables in scope *)

\* They stay the same as long as the blocks around the execution declare the same names.
LEMMA ScopeSame ==
    ASSUME NEW n \in Nat, Blocks' = n, \A i \in 1..n : stack'[i].vars = stack[i].vars
    PROVE  Scope(Blocks)' = Scope(n)
<1>1. \A w \in (1..n) \X Name : w[1] \in 1..n  OBVIOUS
<1> QED  BY <1>1 DEF Scope

\* An entry of the defer stack is about a variable in the generator's scope.
LEMMA EntryFacts ==
    ASSUME IInv, NEW k \in 1..Count
    PROVE  /\ deferStack[k] \in Defer /\ deferStack[k].at \in 1..Depth
           /\ deferStack[k].name \in stack[deferStack[k].at].vars
           /\ Denotes(deferStack[k].name) = <<deferStack[k].at, deferStack[k].name>>
           /\ Denotes(deferStack[k].name) \in Scope(Depth)
<1>1. /\ deferStack[k] \in Defer /\ deferStack[k].at \in 1..Depth
      /\ deferStack[k].name \in stack[deferStack[k].at].vars
  BY DEF IInv, Skeleton, Typed, Owned, Count
<1>2. Denotes(deferStack[k].name) = <<deferStack[k].at, deferStack[k].name>>
  BY <1>1, DenotesFacts DEF IInv, Skeleton
<1>3. deferStack[k].name \in Name  BY <1>1 DEF Defer
<1> QED  BY <1>1, <1>2, <1>3 DEF Scope

\* So is a visible name.
LEMMA VisibleFacts ==
    ASSUME IInv, NEW n \in Name, Visible(n)
    PROVE  Denotes(n) \in Scope(Depth) /\ Denotes(n)[2] = n /\ Denotes(n)[1] \in 1..Depth
<1>1. PICK i \in 1..Depth : n \in stack[i].vars  BY DEF Visible
<1>2. Denotes(n) = <<i, n>>  BY <1>1, DenotesFacts DEF IInv, Skeleton
<1> QED  BY <1>1, <1>2 DEF Scope

\* The variables of the d outermost blocks remain.
LEMMA WithinFacts ==
    ASSUME NEW d \in 0..Depth, Depth \in Nat, NEW c, DOMAIN c = Scope(Depth)
    PROVE  /\ DOMAIN Within(c, d) = Scope(d)
           /\ \A w \in Scope(d) : w \in Scope(Depth) /\ w[1] <= d /\ Within(c, d)[w] = c[w]
           /\ \A w \in Scope(Depth) : w[1] <= d => w \in Scope(d)
           /\ Held(Within(c, d)) \subseteq Held(c)
<1>1. \A w \in (1..Depth) \X Name : w[1] \in 1..Depth /\ w[2] \in Name /\ w = <<w[1], w[2]>>
  OBVIOUS
<1>2. \A w \in (1..d) \X Name : w[1] \in 1..d /\ w[2] \in Name /\ w = <<w[1], w[2]>>
  OBVIOUS
<1>3. \A w \in Scope(d) : w \in Scope(Depth) /\ w[1] <= d
  BY <1>2 DEF Scope
<1>4. \A w \in Scope(Depth) : w[1] <= d => w \in Scope(d)
  BY <1>1 DEF Scope
<1>5. DOMAIN Within(c, d) = {w \in Scope(Depth) : w[1] <= d}  BY DEF Within
<1>6. DOMAIN Within(c, d) = Scope(d)  BY <1>3, <1>4, <1>5
<1>7. \A w \in Scope(d) : Within(c, d)[w] = c[w]  BY <1>5, <1>6 DEF Within
<1>8. Held(Within(c, d)) \subseteq Held(c)  BY <1>3, <1>6, <1>7 DEF Held
<1> QED  BY <1>3, <1>4, <1>6, <1>7, <1>8

-----------------------------------------------------------------------------
(* Leaving blocks *)

\* The deferred code above `boundary` and the variables that it drops in memory c.
Dropped(boundary, c) ==
    {k \in boundary + 1..Count : IsDrop(k) /\ c[Denotes(deferStack[k].name)].flag}

\* The values that they hold.
Gone(boundary, c) == {c[Denotes(deferStack[k].name)].val : k \in Dropped(boundary, c)}

\* Those are alive, and each is dropped once.
Apart(boundary, c, given) ==
    /\ \A k \in Dropped(boundary, c) : c[Denotes(deferStack[k].name)].val \notin dead \cup given
    /\ \A k, l \in Dropped(boundary, c) : k # l =>
         c[Denotes(deferStack[k].name)].val # c[Denotes(deferStack[l].name)].val

\* What Unwind does, in terms of the defer stack.
LEMMA UnwindEffect ==
    ASSUME Count \in Nat, NEW boundary \in 0..Count, NEW c, NEW given, NEW d,
           Unwind(boundary, c, given, d), twice = FALSE, Apart(boundary, c, given)
    PROVE  /\ cell' = Within(c, d)
           /\ dead' = (dead \cup given \cup Gone(boundary, c)) \cap Held(cell')
           /\ lost' = (lost \/ ~(Held(cell) \ Held(cell')
                                    \subseteq dead \cup given \cup Gone(boundary, c)))
           /\ twice' = FALSE
<1> DEFINE text == Emitted(boundary)
           drops == {i \in DOMAIN text : text[i].kind = "drop" /\ c[Denotes(text[i].name)].flag}
           freed == [i \in drops |-> c[Denotes(text[i].name)].val]
           all == {freed[i] : i \in drops}
<1>1. /\ cell' = Within(c, d)
      /\ dead' = (dead \cup given \cup all) \cap Held(cell')
      /\ lost' = (lost \/ ~(Held(cell) \ Held(cell') \subseteq dead \cup given \cup all))
      /\ twice' = \/ twice \/ all \cap (dead \cup given) # {}
                  \/ \E i, j \in drops : i # j /\ freed[i] = freed[j]
  BY DEF Unwind
<1>2. DOMAIN text = 1..Count - boundary
  BY DEF Emitted
<1>3. \A i \in 1..Count - boundary : /\ text[i] = deferStack[Count - i + 1]
                                     /\ Count - i + 1 \in boundary + 1..Count
  BY DEF Emitted
<1> HIDE DEF text
<1>4. \A i \in drops : /\ Count - i + 1 \in Dropped(boundary, c)
                       /\ freed[i] = c[Denotes(deferStack[Count - i + 1].name)].val
                       /\ i \in 1..Count - boundary
  BY <1>2, <1>3 DEF Dropped, IsDrop
<1>5. \A k \in Dropped(boundary, c) : /\ Count - k + 1 \in drops
                                      /\ freed[Count - k + 1] = c[Denotes(deferStack[k].name)].val
  <2> SUFFICES ASSUME NEW k \in Dropped(boundary, c)
               PROVE  /\ Count - k + 1 \in drops
                      /\ freed[Count - k + 1] = c[Denotes(deferStack[k].name)].val
    OBVIOUS
  <2>1. k \in boundary + 1..Count /\ Count - (Count - k + 1) + 1 = k
        /\ Count - k + 1 \in 1..Count - boundary
    BY DEF Dropped
  <2>2. text[Count - k + 1] = deferStack[k]  BY <2>1, <1>3
  <2> QED  BY <2>1, <2>2, <1>2 DEF Dropped, IsDrop
<1>6. all = Gone(boundary, c)
  <2> HIDE DEF drops, freed
  <2>1. \A v \in all : v \in Gone(boundary, c)  BY <1>4 DEF Gone
  <2>2. \A v \in Gone(boundary, c) : v \in all  BY <1>5 DEF Gone
  <2> QED  BY <2>1, <2>2
<1>7. all \cap (dead \cup given) = {}
  <2> HIDE DEF drops, freed
  <2> QED  BY <1>6 DEF Gone, Apart
<1>8. ~(\E i, j \in drops : i # j /\ freed[i] = freed[j])
  <2> HIDE DEF drops, freed
  <2>1. \A i, j \in drops : i # j => Count - i + 1 # Count - j + 1
    BY <1>4
  <2> QED  BY <2>1, <1>4 DEF Apart
<1> QED  BY <1>1, <1>6, <1>7, <1>8

\* The memory is c when the execution leaves all blocks but d, where the values in `given` were
\* given away.  The deferred code above `boundary` belongs to the blocks it leaves.
Leaving(boundary, c, given, d) ==
    /\ boundary \in 0..Count /\ d \in 0..Depth
    /\ \A k \in boundary + 1..Count : IsDrop(k) => deferStack[k].at > d
    /\ DOMAIN c = Scope(Depth) /\ Sane(c, dead \cup given)
    /\ Unwind(boundary, c, given, d)

\* The variables that it drops are owners, each of another value.
LEMMA DroppedFacts ==
    ASSUME IInv, Drops, NEW boundary, NEW c, NEW given, NEW d, Leaving(boundary, c, given, d),
           NEW k \in Dropped(boundary, c)
    PROVE  /\ Denotes(deferStack[k].name) \in DOMAIN c
           /\ Denotes(deferStack[k].name) \notin Scope(d)
           /\ c[Denotes(deferStack[k].name)].val \in Value \ (dead \cup given)
           /\ \A w \in DOMAIN c : c[w].flag /\ c[w].val = c[Denotes(deferStack[k].name)].val
                                    => w = Denotes(deferStack[k].name)
           /\ \A l \in Dropped(boundary, c) : k # l =>
               c[Denotes(deferStack[k].name)].val # c[Denotes(deferStack[l].name)].val
<1>1. Count \in Nat /\ Depth \in Nat  BY StackFacts, DeferFacts DEF IInv, Skeleton
<1>2. \A l \in Dropped(boundary, c) :
         /\ l \in 1..Count /\ IsDrop(l) /\ deferStack[l].at > d
         /\ c[Denotes(deferStack[l].name)].flag
         /\ Denotes(deferStack[l].name) \in Scope(Depth)
         /\ Denotes(deferStack[l].name) = <<deferStack[l].at, deferStack[l].name>>
         /\ deferStack[l].at \in 1..Depth
  <2> SUFFICES ASSUME NEW l \in Dropped(boundary, c)
               PROVE  /\ l \in 1..Count /\ IsDrop(l) /\ deferStack[l].at > d
                      /\ c[Denotes(deferStack[l].name)].flag
                      /\ Denotes(deferStack[l].name) \in Scope(Depth)
                      /\ Denotes(deferStack[l].name) = <<deferStack[l].at, deferStack[l].name>>
                      /\ deferStack[l].at \in 1..Depth
    OBVIOUS
  <2>1. l \in 1..Count /\ l \in boundary + 1..Count /\ IsDrop(l)
        /\ c[Denotes(deferStack[l].name)].flag
    BY <1>1 DEF Dropped, Leaving
  <2> QED  BY <2>1, EntryFacts DEF Leaving
<1>3. ASSUME Denotes(deferStack[k].name) \in Scope(d) PROVE FALSE
  <2>1. deferStack[k].at \in 1..d  BY <1>2, <1>3 DEF Scope
  <2> QED  BY <2>1, <1>1, <1>2 DEF Leaving
<1>4. ASSUME NEW l \in Dropped(boundary, c), k # l,
             c[Denotes(deferStack[k].name)].val = c[Denotes(deferStack[l].name)].val
      PROVE  FALSE
  <2>1. Denotes(deferStack[k].name) = Denotes(deferStack[l].name)
    BY <1>2, <1>4 DEF Leaving, Sane
  <2>2. deferStack[k].name = deferStack[l].name  BY <2>1, <1>2
  <2> QED  BY <2>2, <1>2, <1>4 DEF Drops
<1> QED  BY <1>2, <1>3, <1>4 DEF Leaving, Sane

\* Leaving blocks keeps the memory sane: no flag that remains speaks of a value that died.
LEMMA UnwindStore ==
    ASSUME IInv, Drops, Store, NEW boundary, NEW c, NEW given, NEW d,
           Leaving(boundary, c, given, d), Scope(Blocks)' = Scope(d)
    PROVE  Store'
<1>1. Count \in Nat /\ Depth \in Nat /\ boundary \in 0..Count /\ d \in 0..Depth
      /\ Unwind(boundary, c, given, d) /\ DOMAIN c = Scope(Depth) /\ Sane(c, dead \cup given)
  BY StackFacts, DeferFacts DEF IInv, Skeleton, Leaving
<1>2. /\ cell' = Within(c, d)
      /\ dead' = (dead \cup given \cup Gone(boundary, c)) \cap Held(cell')
      /\ twice' = FALSE
      /\ lost' \in BOOLEAN
  <2>1. twice = FALSE  BY DEF Store
  <2>2. Apart(boundary, c, given)  BY DroppedFacts DEF Apart
  <2> QED  BY <1>1, <2>1, <2>2, UnwindEffect
<1>3. /\ DOMAIN cell' = Scope(d)
      /\ \A w \in Scope(d) : w \in DOMAIN c /\ cell'[w] = c[w]
  BY <1>1, <1>2, WithinFacts
<1>4. \A w \in DOMAIN cell' : cell'[w] \in Cell  BY <1>1, <1>3 DEF Sane
<1>5. \A w \in DOMAIN cell' : cell'[w].flag => cell'[w].val \in Value \ dead'
  <2> SUFFICES ASSUME NEW w \in Scope(d), c[w].flag
               PROVE  c[w].val \in Value /\ c[w].val \notin dead \cup given \cup Gone(boundary, c)
    BY <1>2, <1>3
  <2>1. w \in DOMAIN c  BY <1>3
  <2>2. c[w].val \in Value /\ c[w].val \notin dead \cup given  BY <2>1, <1>1 DEF Sane
  <2>3. ASSUME c[w].val \in Gone(boundary, c) PROVE FALSE
    <3>1. PICK k \in Dropped(boundary, c) : c[w].val = c[Denotes(deferStack[k].name)].val
      BY <2>3 DEF Gone
    <3> QED  BY <3>1, <2>1, DroppedFacts
  <2> QED  BY <2>2, <2>3
<1>6. \A w, u \in DOMAIN cell' : cell'[w].flag /\ cell'[u].flag /\ cell'[w].val = cell'[u].val
                                   => w = u
  BY <1>1, <1>3 DEF Sane
<1>7. dead' \subseteq Held(cell')  BY <1>2
<1>8. Sane(cell, dead)'  BY <1>4, <1>5, <1>6 DEF Sane, Cell
<1>9. (DOMAIN cell = Scope(Blocks))'  BY <1>3
<1>10. (dead \subseteq Held(cell))'  BY <1>7 DEF Held
<1> QED  BY <1>2, <1>8, <1>9, <1>10 DEF Store

-----------------------------------------------------------------------------
(* Nothing is lost *)

\* Every variable in the generator's scope has a pending drop.
AllPending == \A w \in Scope(Depth) :
                  \E k \in 1..Count : /\ IsDrop(k)
                                      /\ deferStack[k].at = w[1] /\ deferStack[k].name = w[2]

\* Every value in memory c is in gone or has an owner.
Tended(c, gone) == \A v \in Held(c) : v \in gone \/ \E w \in DOMAIN c : c[w].flag /\ c[w].val = v

\* Every value in memory is dead or has an owner.
Alive == Tended(cell, dead)

\* Memory changes, and what goes away was dead or dies.
LEMMA BecomeAlive ==
    ASSUME NEW c, NEW gone, Become(c, gone), lost = FALSE,
           Held(cell) \subseteq Held(c) \cup dead \cup gone, Tended(c, dead \cup gone)
    PROVE  Alive' /\ lost' = FALSE
<1>1. /\ cell' = c /\ dead' = (dead \cup gone) \cap Held(c)
      /\ lost' = (lost \/ ~(Held(cell) \ Held(c) \subseteq dead \cup gone))
  BY DEF Become
<1>2. lost' = FALSE  BY <1>1
<1>3. Held(cell)' = Held(c)  BY <1>1 DEF Held
<1>4. ASSUME NEW v \in Held(cell)'
      PROVE  v \in dead' \/ \E w \in DOMAIN cell' : cell'[w].flag /\ cell'[w].val = v
  BY <1>1, <1>3 DEF Tended
<1> QED  BY <1>2, <1>4 DEF Alive, Tended

\* The variables in blocks above d have their drops pending above `boundary`.
Covered(boundary, d) ==
    \A w \in Scope(Depth) : w[1] > d =>
        \E k \in boundary + 1..Count :
            IsDrop(k) /\ deferStack[k].at = w[1] /\ deferStack[k].name = w[2]

\* In memory c the values in `given` are cleared away.
Cleared(c, given) ==
    \A w \in Scope(Depth) : c[w] = cell[w] \/ (c[w].val = NoValue /\ cell[w].val \in given)

\* Leaving blocks drops every owner in them, since their drops are all pending.
LEMMA UnwindAlive ==
    ASSUME IInv, Drops, Store, Alive, lost = FALSE, NEW boundary, NEW c, NEW given, NEW d,
           Leaving(boundary, c, given, d), DOMAIN cell = Scope(Depth),
           Covered(boundary, d), Cleared(c, given)
    PROVE  Alive' /\ lost' = FALSE
<1>1. Count \in Nat /\ Depth \in Nat /\ boundary \in 0..Count /\ d \in 0..Depth
      /\ Unwind(boundary, c, given, d) /\ DOMAIN c = Scope(Depth) /\ Sane(c, dead \cup given)
  BY StackFacts, DeferFacts DEF IInv, Skeleton, Leaving
<1>2. /\ cell' = Within(c, d)
      /\ dead' = (dead \cup given \cup Gone(boundary, c)) \cap Held(cell')
      /\ lost' = (lost \/ ~(Held(cell) \ Held(cell')
                               \subseteq dead \cup given \cup Gone(boundary, c)))
  <2>1. twice = FALSE  BY DEF Store
  <2>2. Apart(boundary, c, given)  BY DroppedFacts DEF Apart
  <2> QED  BY <1>1, <2>1, <2>2, UnwindEffect
<1>3. /\ DOMAIN cell' = Scope(d)
      /\ \A w \in Scope(d) : w \in DOMAIN c /\ cell'[w] = c[w]
      /\ \A w \in Scope(Depth) : w[1] <= d => w \in Scope(d)
  BY <1>1, <1>2, WithinFacts
<1>4. ASSUME NEW v \in Held(cell), v \notin dead
      PROVE  \/ v \in given \cup Gone(boundary, c)
             \/ \E w \in DOMAIN cell' : cell'[w].flag /\ cell'[w].val = v
  <2>1. PICK w \in Scope(Depth) : cell[w].flag /\ cell[w].val = v  BY <1>4 DEF Alive, Tended
  <2>2. v # NoValue  BY DEF Held
  <2>3. CASE c[w] # cell[w]  BY <2>1, <2>3 DEF Cleared
  <2>4. CASE c[w] = cell[w] /\ w \in Scope(d)  BY <2>1, <2>4, <1>3
  <2>5. CASE c[w] = cell[w] /\ w \notin Scope(d)
    <3>1. w[1] \in 1..Depth  BY <2>1 DEF Scope
    <3>2. w[1] > d  BY <3>1, <2>1, <2>5, <1>1, <1>3
    <3>3. PICK k \in boundary + 1..Count :
            IsDrop(k) /\ deferStack[k].at = w[1] /\ deferStack[k].name = w[2]
      BY <3>2, <2>1 DEF Covered
    <3>4. Denotes(deferStack[k].name) = w
      <4>1. k \in 1..Count  BY <1>1
      <4>2. w = <<w[1], w[2]>>  BY <2>1 DEF Scope
      <4> QED  BY <4>1, <4>2, <3>3, EntryFacts
    <3>5. k \in Dropped(boundary, c)  BY <3>3, <3>4, <2>1, <2>5 DEF Dropped
    <3> QED  BY <3>4, <3>5, <2>1, <2>5 DEF Gone
  <2> QED  BY <2>3, <2>4, <2>5
<1>5. \A w \in DOMAIN cell' : cell'[w].val # NoValue => cell'[w].val \in Held(cell')
  BY DEF Held
<1>6. ASSUME NEW v \in Held(cell') PROVE v \in Held(cell)
  <2>1. PICK u \in Scope(d) : cell'[u].val = v /\ v # NoValue  BY <1>3 DEF Held
  <2>2. u \in Scope(Depth) /\ c[u].val = v  BY <2>1, <1>1, <1>3
  <2>3. c[u] = cell[u]  BY <2>1, <2>2 DEF Cleared
  <2> QED  BY <2>1, <2>2, <2>3 DEF Held
<1>7. lost' = FALSE
  <2>1. ASSUME NEW v \in Held(cell) \ Held(cell')
        PROVE  v \in dead \cup given \cup Gone(boundary, c)
    <3>1. v # NoValue  BY DEF Held
    <3> QED  BY <3>1, <1>4, <1>5
  <2> QED  BY <2>1, <1>2
<1>8. ASSUME NEW v \in Held(cell')
      PROVE  v \in dead' \/ \E w \in DOMAIN cell' : cell'[w].flag /\ cell'[w].val = v
  BY <1>2, <1>4, <1>6
<1>9. Alive'
  <2>1. Held(cell)' = Held(cell')  BY DEF Held
  <2> QED  BY <2>1, <1>8 DEF Alive, Tended
<1> QED  BY <1>7, <1>9

-----------------------------------------------------------------------------
(* What is recorded of the program and of the deferred code that ran *)

\* An event is logged.
LEMMA StepFacts ==
    ASSUME Recorded, NEW event \in Event, Step(event)
    PROVE  log' \in Seq(Event) /\ size' \in Nat
BY DEF Recorded, Step, Read, Logged

\* The saved counts are heights of the defer stack.
LEMMA SavedFacts ==
    ASSUME IInv
    PROVE  /\ Depth \in Nat /\ Count \in Nat
           /\ \A i \in 1..Depth : stack[i].saved \in 0..Count
           /\ Depth > 0 => Top.saved \in 0..Count /\ Top.saved = stack[Depth].saved
<1>1. Depth \in Nat /\ Count \in Nat  BY StackFacts, DeferFacts DEF IInv, Skeleton
<1>2. \A i \in 1..Depth : stack[i].saved \in 0..Count
  BY <1>1, FrameFields DEF IInv, Skeleton, Typed, Saved, Depth
<1> QED  BY <1>1, <1>2 DEF Top

\* The code that ran consists of deferred entries.
LEMMA RanFacts ==
    ASSUME IInv, NEW boundary \in 0..Count, NEW c, NEW given, NEW d,
           IF Running THEN Unwind(boundary, c, given, d) ELSE Idle
    PROVE  ran' \in Seq(Defer)
<1>1. CASE ~Running  BY <1>1 DEF Idle
<1>2. CASE Running
  <2>1. Count \in Nat  BY SavedFacts
  <2>2. ran' = [i \in DOMAIN Emitted(boundary) |-> Resolved(Emitted(boundary)[i])]
    BY <1>2 DEF Unwind
  <2>3. DOMAIN Emitted(boundary) = 1..Count - boundary /\ Count - boundary \in Nat
    BY <2>1 DEF Emitted
  <2>4. ASSUME NEW i \in 1..Count - boundary PROVE Resolved(Emitted(boundary)[i]) \in Defer
    <3>1. Emitted(boundary)[i] = deferStack[Count - i + 1] /\ Count - i + 1 \in 1..Count
      BY <2>1 DEF Emitted
    <3>2. /\ deferStack[Count - i + 1] \in Defer
          /\ Denotes(deferStack[Count - i + 1].name)[1] = deferStack[Count - i + 1].at
      BY <3>1, EntryFacts
    <3>3. Resolved(deferStack[Count - i + 1]) = deferStack[Count - i + 1]
      BY <3>2 DEF Resolved, Defer
    <3> QED  BY <3>1, <3>2, <3>3
  <2> QED  BY <2>2, <2>3, <2>4
<1> QED  BY <1>1, <1>2

\* What is recorded has its type.
LEMMA RecordedStep ==
    ASSUME IInv, Recorded, Next
    PROVE  Recorded'
<1>1. /\ Depth \in Nat /\ Count \in Nat
      /\ \A i \in 1..Depth : stack[i].saved \in 0..Count
      /\ Depth > 0 => Top.saved \in 0..Count /\ Top.saved = stack[Depth].saved
  BY SavedFacts
<1>2. <<>> \in Seq(Defer) /\ 0 \in 0..Count /\ Count \in 0..Count  BY <1>1
<1>3. ASSUME Depth > 0, CloseText PROVE ran' \in Seq(Defer)
  BY <1>1, <1>3, RanFacts DEF CloseText
<1>4. ASSUME NEW n \in Name, Param(n) \/ Move(n) \/ DeferStmt(n) \/ ReturnVar(n)
      PROVE  Recorded'
  <2>1. /\ <<"param", n>> \in Event /\ <<"move", n>> \in Event /\ <<"defer", n>> \in Event
        /\ <<"return", n>> \in Event
    BY DEF Event
  <2>2. log' \in Seq(Event) /\ size' \in Nat
    BY <1>4, <2>1, StepFacts DEF Param, Move, DeferStmt, ReturnVar
  <2>3. useCpp' = useCpp
    BY <1>4 DEF Param, Move, DeferStmt, ReturnVar, codegen
  <2>4. ran' \in Seq(Defer)
    <3>1. CASE Param(n) \/ Move(n) \/ DeferStmt(n)
      BY <3>1, <1>2 DEF Param, Move, DeferStmt, Idle
    <3>2. CASE ReturnVar(n)
      BY <3>2, <1>2, RanFacts DEF ReturnVar
    <3> QED  BY <3>1, <3>2, <1>4
  <2> QED  BY <2>2, <2>3, <2>4 DEF Recorded
<1>5. ASSUME NEW n \in Name, NEW src \in Name \cup {Fresh}, Let(n, src) \/ Assign(n, src)
      PROVE  Recorded'
  <2>1. <<"let", n, src>> \in Event /\ <<"assign", n, src>> \in Event
    BY DEF Event
  <2>2. log' \in Seq(Event) /\ size' \in Nat
    BY <1>5, <2>1, StepFacts DEF Let, Assign
  <2> QED  BY <1>2, <1>5, <2>2 DEF Let, Assign, Recorded
<1>6. ASSUME Body \/ OpenBlock \/ If \/ Loop PROVE Recorded'
  <2>1. <<"body">> \in Event /\ <<"open">> \in Event /\ <<"if">> \in Event /\ <<"loop">> \in Event
    BY DEF Event
  <2>2. log' \in Seq(Event) /\ size' \in Nat
    BY <1>6, <2>1, StepFacts DEF Body, OpenBlock, If, Loop
  <2> QED  BY <1>2, <1>6, <2>2 DEF Body, OpenBlock, If, Loop, Recorded, Idle
<1>7. ASSUME Else \/ Close \/ End PROVE Recorded'
  <2>1. <<"else">> \in Event /\ <<"close">> \in Event /\ <<"end">> \in Event  BY DEF Event
  <2>2. log' \in Seq(Event) /\ size' \in Nat
    BY <1>7, <2>1, StepFacts DEF Else, Close, End
  <2>3. ran' \in Seq(Defer)
    <3>1. CASE Else \/ Close  BY <3>1, <1>3 DEF Else, Close, TopIs
    <3>2. CASE End  BY <3>2, <1>2, RanFacts DEF End
    <3> QED  BY <3>1, <3>2, <1>7
  <2> QED  BY <1>7, <2>2, <2>3 DEF Else, Close, End, Recorded
<1>8. ASSUME EndLoop \/ NextIteration PROVE Recorded'
  <2>1. <<"endloop">> \in Event  BY DEF Event
  <2>2. Read(<<"endloop">>) => size' \in Nat  BY DEF Read, Recorded
  <2>3. Logged(<<"endloop">>) \in Seq(Event)  BY <2>1 DEF Logged, Recorded
  <2>4. <<>> \in Seq(Event)  OBVIOUS
  <2>5. ran' \in Seq(Defer)  BY <1>3, <1>8 DEF EndLoop, NextIteration, TopIs
  <2> QED  BY <1>8, <2>2, <2>3, <2>4, <2>5 DEF EndLoop, NextIteration, Recorded
<1>9. ASSUME NEW name \in {"break", "continue"}, NEW slot, NEW t \in 1..MaxNest,
             Jump(name, slot, t)
      PROVE  Recorded'
  <2>1. <<name, t>> \in Event  BY BoundAssumption DEF Event
  <2>2. log' \in Seq(Event) /\ size' \in Nat  BY <1>9, <2>1, StepFacts DEF Jump
  <2>3. ran' \in Seq(Defer)
    <3>1. PICK i \in 1..Depth :
            IF Running THEN Unwind(stack[i].saved, cell, {}, t - 1) ELSE Idle
      BY <1>9 DEF Jump
    <3> QED  BY <3>1, <1>1, RanFacts
  <2> QED  BY <1>9, <2>2, <2>3 DEF Jump, codegen, Recorded
<1>10. ASSUME NEW how \in {"plain", "try", "slice"}, Return(how) PROVE Recorded'
  <2>1. <<"return", how>> \in Event  BY DEF Event
  <2>2. log' \in Seq(Event) /\ size' \in Nat  BY <1>10, <2>1, StepFacts DEF Return
  <2>3. (IF how = "plain" THEN 0 ELSE Count) \in 0..Count  BY <1>2
  <2>4. ran' \in Seq(Defer)  BY <2>3, <1>10, RanFacts DEF Return
  <2> QED  BY <1>10, <2>2, <2>4 DEF Return, codegen, Recorded
<1> QED
  BY <1>4, <1>5, <1>6, <1>7, <1>8, <1>9, <1>10 DEF Next, Break, Continue

-----------------------------------------------------------------------------
(* The pending drops *)

\* The generator's state does not change.
LEMMA StayDrops ==
    ASSUME Drops, UNCHANGED <<deferStack, stack>>
    PROVE  Drops' /\ (AllPending => AllPending')
<1>1. Depth' = Depth /\ Count' = Count  BY DEF Depth, Count
<1>2. Scope(Depth)' = Scope(Depth)  BY <1>1 DEF Scope
<1>3. Drops'  BY <1>1 DEF Drops, IsDrop
<1>4. AllPending => AllPending'  BY <1>1, <1>2 DEF AllPending, IsDrop
<1> QED  BY <1>3, <1>4

\* An entry is pushed: a statement, or the drop of a variable that was not visible.
LEMMA GrowDrops ==
    ASSUME IInv, Drops, NEW e \in Defer, deferStack' = Pushed(e), Depth' = Depth,
           \A i \in 1..Depth : stack'[i].saved = stack[i].saved,
           e.kind = "drop" => e.at = Depth /\ ~Visible(e.name)
    PROVE  Drops'
<1>1. /\ Depth \in Nat /\ Count \in Nat
      /\ \A i \in 1..Depth : stack[i].saved \in 0..Count
  BY SavedFacts
<1>2. /\ \A k \in 1..Count : deferStack'[k] = deferStack[k]
      /\ Count' \in Nat /\ Count' >= Count
      /\ \A k \in 1..Count' : k <= Count \/ (k = Count + 1 /\ deferStack'[k] = e)
  BY PushedFacts DEF IInv, Skeleton
<1>3. \A k \in 1..Count : deferStack[k].name # e.name \/ e.kind # "drop"
  BY EntryFacts DEF Visible
<1>4. ASSUME NEW k \in 1..Count', NEW l \in 1..Count',
             deferStack'[k].kind = "drop", deferStack'[l].kind = "drop",
             deferStack'[k].name = deferStack'[l].name
      PROVE  k = l
  <2>1. CASE k \in 1..Count /\ l \in 1..Count
    BY <2>1, <1>2, <1>4 DEF Drops, IsDrop
  <2>2. CASE k \in 1..Count /\ l = Count + 1 /\ deferStack'[l] = e
    BY <2>2, <1>2, <1>3, <1>4
  <2>3. CASE l \in 1..Count /\ k = Count + 1 /\ deferStack'[k] = e
    BY <2>3, <1>2, <1>3, <1>4
  <2>4. CASE k = Count + 1 /\ l = Count + 1  BY <2>4
  <2> QED  BY <2>1, <2>2, <2>3, <2>4, <1>1, <1>2
<1>5. ASSUME NEW k \in 1..Count', deferStack'[k].kind = "drop", NEW i \in 1..Depth,
             deferStack'[k].at < i
      PROVE  k <= stack'[i].saved
  <2>1. CASE k \in 1..Count
    BY <2>1, <1>2, <1>5 DEF Drops, IsDrop
  <2>2. CASE k = Count + 1 /\ deferStack'[k] = e
    BY <2>2, <1>1, <1>5
  <2> QED  BY <2>1, <2>2, <1>1, <1>2
<1> QED  BY <1>4, <1>5 DEF Drops, IsDrop

\* A variable is declared.  With room on the defer stack its drop is pending.
LEMMA DeclareDrops ==
    ASSUME IInv, "shadow" \notin Risky, Drops, NEW n \in Name, Depth > 0, Declare(n)
    PROVE  /\ Drops'
           /\ <<Depth, n>> \notin Scope(Depth)
           /\ Scope(Depth)' = Scope(Depth) \cup {<<Depth, n>>}
           /\ Scope(Depth - 1)' = Scope(Depth - 1)
           /\ Depth' = Depth /\ stack'[1].kind = stack[1].kind
           /\ \A i \in 1..Depth - 1 : stack'[i].vars = stack[i].vars
           /\ Count < MaxDefer /\ AllPending => AllPending'
<1>1. /\ Skeleton' /\ Kept /\ Drop(n) \in Defer /\ Depth' = Depth
      /\ \A i \in 1..Depth : stack'[i].kind = stack[i].kind
  BY DeclareShape
<1>2. Depth \in Nat /\ Count \in Nat /\ Typed
  BY SavedFacts DEF IInv, Skeleton
<1>3. /\ deferStack' = Pushed(Drop(n)) /\ ~Visible(n)
      /\ stack' = [stack EXCEPT ![Depth].vars = @ \cup {n}]
  BY DEF Declare
<1>4. /\ \A i \in 1..Depth - 1 : stack'[i].vars = stack[i].vars
      /\ stack'[Depth].vars = stack[Depth].vars \cup {n}
  <2> DEFINE f == [Top EXCEPT !.vars = @ \cup {n}]
  <2>1. Top \in Frame  BY <1>2, StackFacts
  <2>2. f \in Frame /\ f.vars = Top.vars \cup {n}  BY <2>1, <1>2 DEF Frame
  <2>3. stack' = [stack EXCEPT ![Depth] = f]  BY <2>1, <1>2, <1>3 DEF Frame, Top, Typed
  <2> HIDE DEF f
  <2> QED  BY <2>2, <2>3, <1>2, StackFacts DEF Top
<1>5. Drops'
  <2>1. Drop(n).kind = "drop" /\ Drop(n).at = Depth /\ Drop(n).name = n  BY DEF Drop
  <2>2. \A i \in 1..Depth : stack'[i].saved = stack[i].saved  BY <1>1 DEF Kept
  <2> QED  BY <2>1, <2>2, <1>1, <1>3, GrowDrops
<1>6. <<Depth, n>> \notin Scope(Depth)
  BY <1>2, <1>3 DEF Scope, Visible
<1>7. ASSUME NEW i \in 1..Depth, NEW m \in Name
      PROVE  m \in stack'[i].vars <=> (m \in stack[i].vars \/ (i = Depth /\ m = n))
  <2>1. i \in 1..Depth - 1 \/ i = Depth  BY <1>2
  <2> QED  BY <2>1, <1>2, <1>4
<1>8. Scope(Depth)' = {w \in (1..Depth) \X Name : w[2] \in stack'[w[1]].vars}
      /\ Scope(Depth - 1)' = {w \in (1..Depth - 1) \X Name : w[2] \in stack'[w[1]].vars}
  BY <1>1 DEF Scope
<1>9. Scope(Depth)' = Scope(Depth) \cup {<<Depth, n>>}
  <2>1. \A w \in (1..Depth) \X Name : /\ w = <<w[1], w[2]>> /\ w[1] \in 1..Depth /\ w[2] \in Name
                                     /\ w = <<Depth, n>> <=> (w[1] = Depth /\ w[2] = n)
    OBVIOUS
  <2>2. <<Depth, n>> \in (1..Depth) \X Name  BY <1>2
  <2> QED  BY <2>1, <2>2, <1>7, <1>8 DEF Scope
<1>10. Scope(Depth - 1)' = Scope(Depth - 1)
  <2>1. \A w \in (1..Depth - 1) \X Name : w[1] \in 1..Depth - 1  OBVIOUS
  <2> QED  BY <2>1, <1>4, <1>8 DEF Scope
<1>11. ASSUME Count < MaxDefer, AllPending PROVE AllPending'
  <2>1. deferStack' = Append(deferStack, Drop(n)) /\ deferStack \in Seq(Defer)
    BY <1>2, <1>3, <1>11 DEF Pushed, Typed
  <2>2. /\ Count' = Count + 1 /\ deferStack'[Count + 1] = Drop(n)
        /\ \A k \in 1..Count : deferStack'[k] = deferStack[k]
    BY <2>1, <1>1, AppendProperties DEF Count
  <2>3. ASSUME NEW w \in Scope(Depth)'
        PROVE  \E k \in 1..Count' : /\ deferStack'[k].kind = "drop"
                                    /\ deferStack'[k].at = w[1] /\ deferStack'[k].name = w[2]
    <3>1. CASE w \in Scope(Depth)
      <4>1. PICK k \in 1..Count : deferStack[k].kind = "drop" /\ deferStack[k].at = w[1]
                                  /\ deferStack[k].name = w[2]
        BY <3>1, <1>11 DEF AllPending, IsDrop
      <4>2. k \in 1..Count' /\ deferStack'[k] = deferStack[k]  BY <2>2, <1>2
      <4> QED  BY <4>1, <4>2
    <3>2. CASE w = <<Depth, n>>
      <4>1. Count + 1 \in 1..Count'  BY <2>2, <1>2
      <4> QED  BY <4>1, <3>2, <2>2 DEF Drop
    <3> QED  BY <3>1, <3>2, <1>9
  <2> QED  BY <2>3 DEF AllPending, IsDrop
<1> QED  BY <1>1, <1>2, <1>4, <1>5, <1>6, <1>9, <1>10, <1>11

\* A statement is deferred.
LEMMA DeferStmtDrops ==
    ASSUME IInv, Drops, NEW n \in Name, Visible(n), stack' = stack,
           deferStack' = Pushed([kind |-> "stmt", at |-> Denotes(n)[1], name |-> n])
    PROVE  Drops' /\ (AllPending => AllPending')
<1> DEFINE e == [kind |-> "stmt", at |-> Denotes(n)[1], name |-> n]
<1>1. /\ Depth \in Nat /\ Depth <= MaxNest /\ Typed /\ Denotes(n)[1] \in 1..Depth
  BY VisibleFacts, SavedFacts DEF IInv, Skeleton, Typed
<1>2. e \in Defer /\ e.kind = "stmt" /\ deferStack' = Pushed(e)
  <2>1. Denotes(n)[1] \in 1..MaxNest  BY <1>1, BoundAssumption
  <2> QED  BY <2>1 DEF Defer
<1> HIDE DEF e
<1>3. Depth' = Depth /\ Scope(Depth)' = Scope(Depth)  BY DEF Depth, Scope
<1>4. Drops'  BY <1>2, <1>3, GrowDrops
<1>5. ASSUME AllPending PROVE AllPending'
  <2>1. /\ Count \in Nat /\ Count' \in Nat /\ Count' >= Count
        /\ \A k \in 1..Count : deferStack'[k] = deferStack[k]
    BY <1>1, <1>2, PushedFacts, SavedFacts
  <2>2. \A k \in 1..Count : k \in 1..Count'  BY <2>1
  <2>3. ASSUME NEW w \in Scope(Depth)
        PROVE  \E k \in 1..Count' : /\ deferStack'[k].kind = "drop"
                                    /\ deferStack'[k].at = w[1] /\ deferStack'[k].name = w[2]
    <3>1. PICK k \in 1..Count : deferStack[k].kind = "drop" /\ deferStack[k].at = w[1]
                                /\ deferStack[k].name = w[2]
      BY <1>5 DEF AllPending, IsDrop
    <3> QED  BY <3>1, <2>1, <2>2
  <2> QED  BY <2>3, <1>3 DEF AllPending, IsDrop
<1> QED  BY <1>4, <1>5

\* A block is opened.
LEMMA PushDrops ==
    ASSUME IInv, Drops, deferStack' = deferStack, Depth' = Depth + 1,
           \A i \in 1..Depth : /\ stack'[i].saved = stack[i].saved
                               /\ stack'[i].vars = stack[i].vars,
           stack'[Depth + 1].saved = Count, stack'[Depth + 1].vars = {}
    PROVE  /\ Drops' /\ (AllPending => AllPending')
           /\ Scope(Depth)' = Scope(Depth)
<1>1. Depth \in Nat /\ Count \in Nat /\ Count' = Count  BY SavedFacts DEF Count
<1>2. \A i \in 1..Depth' : i \in 1..Depth \/ i = Depth + 1  BY <1>1
<1>3. Drops'
  <2>1. \A k \in 1..Count : IsDrop(k) =>
           \A i \in 1..Depth' : deferStack[k].at < i => k <= stack'[i].saved
    BY <1>1, <1>2 DEF Drops
  <2> QED  BY <2>1, <1>1 DEF Drops, IsDrop
<1>4. Scope(Depth)' = Scope(Depth)
  <2>1. Scope(Depth)' = {w \in (1..Depth') \X Name : w[2] \in stack'[w[1]].vars}
    BY DEF Scope
  <2>2. \A w \in (1..Depth') \X Name : w[2] \in stack'[w[1]].vars =>
           w \in (1..Depth) \X Name
    BY <1>2
  <2>3. \A w \in (1..Depth) \X Name : w \in (1..Depth') \X Name /\ w[1] \in 1..Depth
    BY <1>1
  <2> QED  BY <2>1, <2>2, <2>3 DEF Scope
<1>5. AllPending => AllPending'  BY <1>1, <1>4 DEF AllPending, IsDrop
<1> QED  BY <1>3, <1>4, <1>5

\* The innermost block is left, for good or for another branch or iteration.
LEMMA CutDrops ==
    ASSUME IInv, Drops, Depth > 0, deferStack' = Trimmed(Top.saved),
           Depth' \in {Depth - 1, Depth},
           \A i \in 1..Depth' : stack'[i].saved = stack[i].saved,
           \A i \in 1..Depth - 1 : stack'[i].vars = stack[i].vars,
           Depth' = Depth => stack'[Depth].vars = {}
    PROVE  /\ Drops' /\ (AllPending => AllPending')
           /\ Scope(Depth)' = Scope(Depth - 1)
<1>1. /\ Depth \in Nat /\ Count \in Nat
      /\ Top.saved \in 0..Count /\ Top.saved = stack[Depth].saved
  BY SavedFacts
<1>2. Count' = Top.saved /\ \A k \in 1..Top.saved : deferStack'[k] = deferStack[k]
  BY CutFacts
<1>3. Drops'
  <2>1. \A k \in 1..Count' : k \in 1..Count /\ deferStack'[k] = deferStack[k]  BY <1>1, <1>2
  <2>2. \A i \in 1..Depth' : i \in 1..Depth  BY <1>1
  <2>3. \A k, l \in 1..Count' :
          deferStack'[k].kind = "drop" /\ deferStack'[l].kind = "drop"
              /\ deferStack'[k].name = deferStack'[l].name => k = l
    BY <2>1 DEF Drops, IsDrop
  <2>4. \A k \in 1..Count' : deferStack'[k].kind = "drop" =>
           \A i \in 1..Depth' : deferStack'[k].at < i => k <= stack'[i].saved
    BY <2>1, <2>2 DEF Drops, IsDrop
  <2> QED  BY <2>3, <2>4 DEF Drops, IsDrop
<1>4. Scope(Depth)' = Scope(Depth - 1)
  <2>1. Scope(Depth)' = {w \in (1..Depth') \X Name : w[2] \in stack'[w[1]].vars}
    BY DEF Scope
  <2>2. CASE Depth' = Depth
    <3>1. \A i \in 1..Depth : i \in 1..Depth - 1 \/ i = Depth  BY <1>1
    <3>2. \A w \in (1..Depth) \X Name : w[2] \in stack'[w[1]].vars =>
             w \in (1..Depth - 1) \X Name
      BY <2>2, <3>1
    <3>3. \A w \in (1..Depth - 1) \X Name : w \in (1..Depth) \X Name /\ w[1] \in 1..Depth - 1
      BY <1>1
    <3> QED  BY <2>1, <2>2, <3>2, <3>3 DEF Scope
  <2>3. CASE Depth' = Depth - 1
    <3>1. \A w \in (1..Depth - 1) \X Name : w[1] \in 1..Depth - 1  OBVIOUS
    <3> QED  BY <2>1, <2>3, <3>1 DEF Scope
  <2> QED  BY <2>2, <2>3
<1>5. ASSUME AllPending PROVE AllPending'
  <2>1. ASSUME NEW w \in Scope(Depth - 1)
        PROVE  \E k \in 1..Count' : /\ deferStack'[k].kind = "drop"
                                    /\ deferStack'[k].at = w[1] /\ deferStack'[k].name = w[2]
    <3>1. w[1] \in 1..Depth - 1 /\ w \in Scope(Depth)  BY <1>1 DEF Scope
    <3>2. PICK k \in 1..Count : deferStack[k].kind = "drop" /\ deferStack[k].at = w[1]
                                /\ deferStack[k].name = w[2]
      BY <3>1, <1>5 DEF AllPending, IsDrop
    <3>3. k <= Top.saved
      <4>1. w[1] < Depth /\ Depth \in 1..Depth  BY <3>1, <1>1
      <4> QED  BY <4>1, <3>2, <1>1 DEF Drops, IsDrop
    <3> QED  BY <3>2, <3>3, <1>1, <1>2
  <2> QED  BY <2>1, <1>4 DEF AllPending, IsDrop
<1> QED  BY <1>3, <1>4, <1>5

-----------------------------------------------------------------------------
(* Steps of the execution on memory *)

\* Where nothing is lost, and every drop finds room on the defer stack.
Tight == AllPending /\ Alive /\ lost = FALSE
Clean == Risky = {} /\ Count < MaxDefer

\* Memory and the variables in scope do not change.
LEMMA IdleStore ==
    ASSUME Store, UNCHANGED values, Scope(Blocks)' = Scope(Blocks)
    PROVE  Store' /\ (Alive /\ lost = FALSE => Alive' /\ lost' = FALSE)
<1>1. cell' = cell /\ dead' = dead /\ twice' = twice /\ lost' = lost  BY DEF values
<1>2. Store'  BY <1>1 DEF Store, Sane, Held, Cell
<1> QED  BY <1>1, <1>2 DEF Alive, Tended, Held

\* A running execution is in the generator's scope.
LEMMA RunningScope ==
    ASSUME IInv, Running
    PROVE  Blocks = Depth /\ (Store => DOMAIN cell = Scope(Depth))
BY DEF Blocks, Store

\* The variable n is declared, and holds a value that no owner in memory c has.
LEMMA DeclareStore ==
    ASSUME IInv, "shadow" \notin Risky, Drops, Store, Running, NEW n \in Name, Depth > 0,
           Declare(n), loc' = loc, NEW c, DOMAIN c = Scope(Depth), Sane(c, dead),
           NEW val \in Value \ dead, \A u \in DOMAIN c : c[u].flag => c[u].val # val,
           Become(Holding(c, n, val), {})
    PROVE  /\ Store'
           /\ (lost = FALSE /\ Held(cell) \subseteq Held(c) /\ Tended(c, dead \cup {val}))
                => Alive' /\ lost' = FALSE
<1> DEFINE e == Holding(c, n, val)
           w == <<Depth, n>>
<1>1. /\ w \notin Scope(Depth) /\ Scope(Depth)' = Scope(Depth) \cup {w}
      /\ Depth' = Depth
  BY DeclareDrops
<1>2. e = [u \in DOMAIN c \cup {w} |-> IF u = w THEN [flag |-> TRUE, val |-> val] ELSE c[u]]
  BY DEF Holding
<1> HIDE DEF e
<1>3. /\ Sane(e, dead) /\ DOMAIN e = DOMAIN c \cup {w}
      /\ e[w] = [flag |-> TRUE, val |-> val] /\ \A u \in DOMAIN c : e[u] = c[u]
  <2>1. w \notin DOMAIN c  BY <1>1
  <2> HIDE DEF w
  <2> QED  BY <1>2, <2>1, Added
<1>4. Become(e, {})  BY DEF e
<1>5. DOMAIN e = Scope(Blocks)'
  <2>1. Blocks' = Depth'  BY DEF Blocks, Running
  <2>2. Scope(Blocks)' = Scope(Depth)'  BY <2>1 DEF Scope
  <2> QED  BY <2>2, <1>1, <1>3
<1>6. Store'
  <2>1. dead \cup {} = dead /\ {} \cap dead = {}  OBVIOUS
  <2> QED  BY <2>1, <1>3, <1>4, <1>5, BecomeStore
<1>7. ASSUME lost = FALSE, Held(cell) \subseteq Held(c), Tended(c, dead \cup {val})
      PROVE  Alive' /\ lost' = FALSE
  <2> HIDE DEF w
  <2>1. e[w].flag = TRUE /\ e[w].val = val /\ w \in DOMAIN e  BY <1>3
  <2>2. \A v \in Held(c) : v \in Held(e)  BY <1>3 DEF Held
  <2>3. \A v \in Held(e) : v = val \/ v \in Held(c)  BY <1>3, <2>1 DEF Held
  <2>4. Held(cell) \subseteq Held(e) \cup dead \cup {}  BY <1>7, <2>2
  <2>5. Tended(e, dead \cup {})  BY <1>3, <1>7, <2>1, <2>3 DEF Tended
  <2> QED  BY <1>4, <1>7, <2>4, <2>5, BecomeAlive
<1> QED  BY <1>6, <1>7

\* A value that is not in memory.
LEMMA NewValueFacts ==
    ASSUME Store, CanMake
    PROVE  NewValue \in Value \ dead /\ \A u \in DOMAIN cell : cell[u].flag => cell[u].val # NewValue
<1>1. \E v \in Value : v \notin Held(cell)  BY DEF CanMake
<1>2. NewValue \in Value /\ NewValue \notin Held(cell)  BY <1>1 DEF NewValue
<1>3. \A u \in DOMAIN cell : cell[u].flag => cell[u].val \in Held(cell)
  BY HeldFacts DEF Store
<1> QED  BY <1>2, <1>3 DEF Store

\* The variable n is moved out of.
LEMMA MovedFacts ==
    ASSUME IInv, Store, Running, NEW n \in Name, CanMove(n)
    PROVE  /\ Denotes(n) \in Scope(Depth) /\ Denotes(n) \in DOMAIN cell
           /\ cell[Denotes(n)].flag /\ cell[Denotes(n)].val \in Value \ dead
           /\ Sane(Moved(n), dead \cup {cell[Denotes(n)].val}) /\ Sane(Moved(n), dead)
           /\ DOMAIN Moved(n) = Scope(Depth)
           /\ \A u \in Scope(Depth) : u # Denotes(n) => Moved(n)[u] = cell[u]
           /\ \A u \in Scope(Depth) : Moved(n)[u].val = cell[u].val
           /\ Moved(n)[Denotes(n)].flag = FALSE
           /\ \A u \in Scope(Depth) : Moved(n)[u].flag => Moved(n)[u].val # cell[Denotes(n)].val
           /\ Held(Moved(n)) = Held(cell)
<1>1. DOMAIN cell = Scope(Depth) /\ Sane(cell, dead)  BY RunningScope DEF Store
<1>2. Denotes(n) \in DOMAIN cell /\ cell[Denotes(n)].flag
  BY <1>1, VisibleFacts DEF CanMove
<1>3. cell[Denotes(n)].val \in Value \ dead  BY <1>1, <1>2 DEF Sane
<1> DEFINE w == Denotes(n)
           e == Unflagged(cell, w)
<1>4. Moved(n) = e  BY DEF Moved, Unflagged
<1>5. w \in DOMAIN cell /\ cell[w].flag  BY <1>2
<1> HIDE DEF w
<1>6. Sane(e, dead \cup {cell[w].val}) /\ Sane(e, dead) /\ DOMAIN e = DOMAIN cell
  BY <1>1, <1>5, Surrendered
<1>7. /\ \A u \in DOMAIN cell : e[u].val = cell[u].val
      /\ \A u \in DOMAIN cell : u # w => e[u] = cell[u]
      /\ e[w].flag = FALSE
      /\ Held(e) = Held(cell)
  BY <1>1, <1>5, Surrendered
<1> HIDE DEF e
<1>8. \A u \in DOMAIN cell : e[u].flag => e[u].val # cell[w].val
  BY <1>6 DEF Sane
<1> QED  BY <1>1, <1>2, <1>3, <1>4, <1>6, <1>7, <1>8 DEF w

-----------------------------------------------------------------------------
(* The actions *)

\* What every step keeps.
Safe == Drops' /\ Store' /\ (Clean /\ Tight => Tight')

\* A parameter, or a local variable with a new value.
LEMMA NewStep ==
    ASSUME IInv, "shadow" \notin Risky, Drops, Store, Running, NEW n \in Name, Depth > 0,
           Declare(n), loc' = loc, CanMake, Become(Holding(cell, n, NewValue), {})
    PROVE  Safe
<1>1. DOMAIN cell = Scope(Depth) /\ Sane(cell, dead)  BY RunningScope DEF Store
<1>2. /\ NewValue \in Value \ dead
      /\ \A u \in DOMAIN cell : cell[u].flag => cell[u].val # NewValue
  BY NewValueFacts
<1>3. Store'  BY <1>1, <1>2, DeclareStore
<1>4. ASSUME Alive, lost = FALSE PROVE Alive' /\ lost' = FALSE
  <2>1. Tended(cell, dead \cup {NewValue})  BY <1>4 DEF Alive, Tended
  <2> QED  BY <2>1, <1>1, <1>2, <1>4, DeclareStore
<1>5. Drops' /\ (Count < MaxDefer /\ AllPending => AllPending')  BY DeclareDrops
<1> QED  BY <1>3, <1>4, <1>5 DEF Safe, Clean, Tight

\* A local variable with the value of another one.
LEMMA MovedIntoStep ==
    ASSUME IInv, "shadow" \notin Risky, Drops, Store, Running, NEW n \in Name, Depth > 0,
           Declare(n), loc' = loc, NEW src \in Name, CanMove(src),
           Become(Holding(Moved(src), n, cell[Denotes(src)].val), {})
    PROVE  Safe
<1> DEFINE c == Moved(src)
           val == cell[Denotes(src)].val
<1>1. DOMAIN c = Scope(Depth) /\ Sane(c, dead) /\ val \in Value \ dead
      /\ \A u \in DOMAIN c : c[u].flag => c[u].val # val
  BY MovedFacts
<1>2. /\ Held(c) = Held(cell) /\ DOMAIN cell = Scope(Depth)
      /\ \A u \in Scope(Depth) : u # Denotes(src) => c[u] = cell[u]
  BY MovedFacts, RunningScope
<1>3. ASSUME Alive, NEW v \in Held(c)
      PROVE  v \in dead \cup {val} \/ \E w \in DOMAIN c : c[w].flag /\ c[w].val = v
  <2>1. v \in dead \/ \E w \in DOMAIN cell : cell[w].flag /\ cell[w].val = v
    BY <1>2, <1>3 DEF Alive, Tended
  <2> HIDE DEF c
  <2> QED  BY <2>1, <1>1, <1>2
<1>4. Become(Holding(c, n, val), {})  OBVIOUS
<1> HIDE DEF c, val
<1>5. Store'
  BY <1>1, <1>4, DeclareStore
<1>6. ASSUME Alive, lost = FALSE PROVE Alive' /\ lost' = FALSE
  <2>1. Held(cell) \subseteq Held(c)  BY <1>2
  <2>2. Tended(c, dead \cup {val})  BY <1>3, <1>6 DEF Tended
  <2> QED  BY <2>1, <2>2, <1>1, <1>4, <1>6, DeclareStore
<1>7. Drops' /\ (Count < MaxDefer /\ AllPending => AllPending')  BY DeclareDrops
<1> QED  BY <1>5, <1>6, <1>7 DEF Safe, Clean, Tight

\* A value is given to a callee.
LEMMA MoveStep ==
    ASSUME IInv, Drops, Store, Running, NEW n \in Name, CanMove(n), Blocks' = Depth,
           UNCHANGED <<deferStack, stack>>, Become(Moved(n), {cell[Denotes(n)].val})
    PROVE  Safe
<1> DEFINE c == Moved(n)
           val == cell[Denotes(n)].val
<1>1. /\ DOMAIN c = Scope(Depth) /\ Sane(c, dead \cup {val}) /\ val \notin dead
      /\ Held(c) = Held(cell) /\ DOMAIN cell = Scope(Depth) /\ Become(c, {val})
      /\ \A u \in Scope(Depth) : u # Denotes(n) => c[u] = cell[u]
  BY MovedFacts, RunningScope
<1> HIDE DEF c
<1>2. DOMAIN c = Scope(Blocks)'  BY <1>1 DEF Scope, Depth
<1>3. Store'
  <2>1. {val} \cap dead = {}  BY <1>1
  <2> QED  BY <2>1, <1>1, <1>2, BecomeStore
<1>4. ASSUME Alive, lost = FALSE PROVE Alive' /\ lost' = FALSE
  <2>1. ASSUME NEW v \in Held(c)
        PROVE  v \in dead \cup {val} \/ \E w \in DOMAIN c : c[w].flag /\ c[w].val = v
    <3>1. v \in dead \/ \E w \in DOMAIN cell : cell[w].flag /\ cell[w].val = v
      BY <1>1, <1>4 DEF Alive, Tended
    <3> QED  BY <3>1, <1>1
  <2>2. Held(cell) \subseteq Held(c) \cup dead \cup {val}  BY <1>1
  <2>3. Tended(c, dead \cup {val})  BY <2>1 DEF Tended
  <2> QED  BY <2>2, <2>3, <1>1, <1>4, BecomeAlive
<1> QED  BY <1>3, <1>4, StayDrops DEF Safe, Tight

\* An owner is overwritten with a value that no other owner in memory `from` has.
LEMMA OverwriteStep ==
    ASSUME IInv, Drops, Store, Running, Blocks' = Depth, UNCHANGED <<deferStack, stack>>,
           NEW w \in Scope(Depth), NEW from, DOMAIN from = Scope(Depth), Sane(from, dead),
           from[w] = cell[w], NEW val \in Value \ dead,
           \A u \in Scope(Depth) : from[u].flag => from[u].val # val,
           \A u \in Scope(Depth) : from[u].val = cell[u].val,
           \A u \in Scope(Depth) : from[u] = cell[u] \/ cell[u].val = val,
           NEW flag \in BOOLEAN, NEW old, cell[w].flag => flag,
           old = IF useCpp /\ cell[w].flag THEN {cell[w].val} ELSE {},
           Become([from EXCEPT ![w] = [flag |-> flag, val |-> val]], old)
    PROVE  Drops' /\ Store' /\ (useCpp /\ flag /\ Tight => Tight')
<1> DEFINE c == [from EXCEPT ![w] = [flag |-> flag, val |-> val]]
<1>1. DOMAIN cell = Scope(Depth) /\ Sane(cell, dead)  BY RunningScope DEF Store
<1>2. /\ DOMAIN c = Scope(Depth) /\ c[w].flag = flag /\ c[w].val = val
      /\ \A u \in Scope(Depth) : u # w => c[u] = from[u]
  OBVIOUS
<1>3. Become(c, old)  OBVIOUS
<1>4. c = [from EXCEPT ![w] = [flag |-> flag, val |-> val]]  OBVIOUS
<1> HIDE DEF c
<1>5. old \cap dead = {}
  BY <1>1 DEF Sane
<1>6. Sane(c, dead \cup old)
  <2>1. CASE old = {}
    <3>1. dead \cup old = dead  BY <2>1
    <3> QED  BY <3>1, <1>4, Filled
  <2>2. CASE useCpp /\ cell[w].flag /\ old = {cell[w].val}
    <3> DEFINE e == Unflagged(from, w)
    <3>1. /\ Sane(e, dead \cup {from[w].val}) /\ DOMAIN e = DOMAIN from
          /\ \A u \in DOMAIN from : u # w => e[u] = from[u]
          /\ e[w].flag = FALSE
      BY <2>2, Surrendered
    <3>2. dead \cup {from[w].val} = dead \cup old  BY <2>2
    <3>3. c = [e EXCEPT ![w] = [flag |-> flag, val |-> val]]
      BY <1>4 DEF Unflagged
    <3> HIDE DEF e
    <3>4. val \in Value \ (dead \cup old)  BY <2>2
    <3>5. \A u \in DOMAIN e : e[u].flag => e[u].val # val  BY <3>1
    <3> QED  BY <3>1, <3>2, <3>3, <3>4, <3>5, Filled
  <2> QED  BY <2>1, <2>2
<1>7. Store'
  <2>1. DOMAIN c = Scope(Blocks)'  BY <1>2 DEF Scope, Depth
  <2> QED  BY <2>1, <1>3, <1>5, <1>6, BecomeStore
<1>8. ASSUME useCpp, flag, Alive, lost = FALSE PROVE Alive' /\ lost' = FALSE
  <2>1. ASSUME NEW v \in Held(cell)
        PROVE  v \in Held(c) \cup dead \cup old
    <3>1. v # NoValue  BY DEF Held
    <3>2. CASE v \in dead  BY <3>2
    <3>3. ASSUME NEW u \in Scope(Depth), cell[u].flag, cell[u].val = v
          PROVE  v \in Held(c) \cup dead \cup old
      <4>1. CASE u = w  BY <4>1, <3>3, <1>8
      <4>2. CASE u # w
        <5>1. c[u].val = v  BY <4>2, <3>3, <1>2
        <5> QED  BY <5>1, <3>1, <1>2 DEF Held
      <4> QED  BY <4>1, <4>2
    <3> QED  BY <3>2, <3>3, <1>1, <1>8 DEF Alive, Tended
  <2>2. ASSUME NEW v \in Held(c)
        PROVE  v \in dead \cup old \/ \E u \in DOMAIN c : c[u].flag /\ c[u].val = v
    <3>1. CASE v = val  BY <3>1, <1>2, <1>8
    <3>2. CASE v # val
      <4>1. PICK t \in Scope(Depth) : c[t].val = v /\ v # NoValue  BY <1>2 DEF Held
      <4>2. cell[t].val = v  BY <4>1, <3>2, <1>2
      <4>3. v \in Held(cell)  BY <4>1, <4>2, <1>1 DEF Held
      <4>4. CASE v \in dead  BY <4>4
      <4>5. ASSUME NEW u \in Scope(Depth), cell[u].flag, cell[u].val = v
            PROVE  v \in old \/ \E s \in DOMAIN c : c[s].flag /\ c[s].val = v
        <5>1. CASE u = w  BY <5>1, <4>5, <1>8
        <5>2. CASE u # w
          <6>1. c[u] = cell[u]  BY <5>2, <4>5, <3>2, <1>2
          <6> QED  BY <6>1, <4>5, <1>2
        <5> QED  BY <5>1, <5>2
      <4> QED  BY <4>3, <4>4, <4>5, <1>1, <1>8 DEF Alive, Tended
    <3> QED  BY <3>1, <3>2
  <2>3. Held(cell) \subseteq Held(c) \cup dead \cup old /\ Tended(c, dead \cup old)
    BY <2>1, <2>2 DEF Tended
  <2> QED  BY <2>3, <1>3, <1>8, BecomeAlive
<1> QED  BY <1>7, <1>8, StayDrops DEF Tight

\* An assignment to an owner.
LEMMA AssignStep ==
    ASSUME IInv, Drops, Store, Running, useCpp \in BOOLEAN, NEW n \in Name,
           NEW src \in Name \cup {Fresh}, Assign(n, src)
    PROVE  Safe
<1> DEFINE w == Denotes(n)
           val == IF src = Fresh THEN NewValue ELSE cell[Denotes(src)].val
           from == IF src = Fresh THEN cell ELSE Moved(src)
           old == IF useCpp /\ cell[w].flag THEN {cell[w].val} ELSE {}
           flag == (useCpp \/ from[w].flag)
<1>1. /\ Become([from EXCEPT ![w] = [flag |-> useCpp \/ @.flag, val |-> val]], old)
      /\ UNCHANGED <<deferStack, stack, loc>>
      /\ src = Fresh => CanMake
      /\ src # Fresh => CanMove(src) /\ src \in Name
      /\ Visible(n) /\ src # n /\ (useCpp \/ "assign" \in Risky)
  BY DEF Assign
<1>2. w \in Scope(Depth) /\ w[2] = n  BY <1>1, VisibleFacts
<1>3. DOMAIN cell = Scope(Depth) /\ Sane(cell, dead)  BY RunningScope DEF Store
<1>4. /\ DOMAIN from = Scope(Depth) /\ Sane(from, dead) /\ from[w] = cell[w]
      /\ val \in Value \ dead
      /\ \A u \in Scope(Depth) : from[u].flag => from[u].val # val
      /\ \A u \in Scope(Depth) : from[u].val = cell[u].val
      /\ \A u \in Scope(Depth) : from[u] = cell[u] \/ cell[u].val = val
  <2>1. CASE src = Fresh
    BY <2>1, <1>1, <1>2, <1>3, NewValueFacts
  <2>2. CASE src # Fresh
    <3>1. CanMove(src) /\ src \in Name /\ from = Moved(src) /\ val = cell[Denotes(src)].val
      BY <2>2, <1>1
    <3>2. Denotes(src) # w
      <4>1. Denotes(src)[2] = src  BY <3>1, VisibleFacts DEF CanMove
      <4> QED  BY <4>1, <1>1, <1>2
    <3> HIDE DEF w, from, val
    <3> QED  BY <3>1, <3>2, <1>2, MovedFacts
  <2> QED  BY <2>1, <2>2
<1>5. Blocks' = Depth
  <2>1. Blocks' = Depth' /\ Depth' = Depth  BY <1>1 DEF Blocks, Running, Depth
  <2> QED  BY <2>1
<1>6. flag \in BOOLEAN /\ (cell[w].flag => flag) /\ (useCpp => flag)
  BY <1>4
<1>7. Become([from EXCEPT ![w] = [flag |-> flag, val |-> val]], old)
  <2>1. [from EXCEPT ![w] = [flag |-> useCpp \/ @.flag, val |-> val]]
          = [from EXCEPT ![w] = [flag |-> flag, val |-> val]]
    OBVIOUS
  <2> QED  BY <2>1, <1>1
<1>8. old = IF useCpp /\ cell[w].flag THEN {cell[w].val} ELSE {}  OBVIOUS
<1> HIDE DEF w, val, from, old, flag
<1>9. Drops' /\ Store' /\ (useCpp /\ flag /\ Tight => Tight')
  BY <1>1, <1>2, <1>4, <1>5, <1>6, <1>7, <1>8, OverwriteStep
<1>10. Clean => useCpp /\ flag  BY <1>1, <1>6 DEF Clean
<1> QED  BY <1>9, <1>10 DEF Safe

\* The execution leaves all blocks but d: at least what is deferred there runs.
LEMMA LeaveStore ==
    ASSUME IInv, Drops, Store, Running, NEW d \in 0..Depth - 1, NEW boundary \in 0..Count,
           stack[d + 1].saved <= boundary, NEW c, NEW given,
           DOMAIN c = Scope(Depth), Sane(c, dead \cup given),
           Unwind(boundary, c, given, d), Scope(Blocks)' = Scope(d)
    PROVE  /\ Store'
           /\ (Tight /\ boundary = stack[d + 1].saved /\ Cleared(c, given))
                => Alive' /\ lost' = FALSE
<1>1. /\ Depth \in Nat /\ Count \in Nat /\ d \in 0..Depth /\ d + 1 \in 1..Depth
      /\ stack[d + 1].saved \in 0..Count /\ DOMAIN cell = Scope(Depth)
  BY SavedFacts, RunningScope
<1>2. ASSUME NEW k \in boundary + 1..Count, IsDrop(k) PROVE deferStack[k].at > d
  <2>1. k \in 1..Count /\ k > stack[d + 1].saved  BY <1>1
  <2>2. deferStack[k].at \in 1..Depth  BY <2>1, EntryFacts
  <2>3. ~(deferStack[k].at < d + 1)  BY <2>1, <1>1, <1>2 DEF Drops
  <2> QED  BY <2>2, <2>3, <1>1
<1>3. Leaving(boundary, c, given, d)  BY <1>1, <1>2 DEF Leaving
<1>4. Store'  BY <1>3, UnwindStore
<1>5. ASSUME AllPending, boundary = stack[d + 1].saved, NEW w \in Scope(Depth), w[1] > d
      PROVE  \E k \in boundary + 1..Count :
                 IsDrop(k) /\ deferStack[k].at = w[1] /\ deferStack[k].name = w[2]
  <2>1. PICK k \in 1..Count : IsDrop(k) /\ deferStack[k].at = w[1] /\ deferStack[k].name = w[2]
    BY <1>5 DEF AllPending
  <2>2. w[1] \in 1..Depth  BY DEF Scope
  <2>3. k <= stack[d + 1].saved => deferStack[k].at < d + 1
    BY <1>1 DEF IInv, Skeleton, Owned
  <2>4. k > boundary  BY <2>1, <2>2, <2>3, <1>1, <1>5
  <2> QED  BY <2>1, <2>4, <1>1
<1>6. ASSUME Tight, boundary = stack[d + 1].saved, Cleared(c, given)
      PROVE  Alive' /\ lost' = FALSE
  <2>1. AllPending /\ Alive /\ lost = FALSE  BY <1>6 DEF Tight
  <2>2. Covered(boundary, d)  BY <2>1, <1>5, <1>6 DEF Covered
  <2> QED  BY <2>1, <2>2, <1>1, <1>3, <1>6, UnwindAlive
<1> QED  BY <1>4, <1>6

\* The innermost block is left.
LEMMA CloseStore ==
    ASSUME IInv, Drops, Store, Depth > 0, CloseText,
           Running => Scope(Blocks)' = Scope(Depth - 1),
           ~Running => Scope(Blocks)' = Scope(Blocks)
    PROVE  Store' /\ (Tight => Alive' /\ lost' = FALSE)
<1>1. CASE ~Running
  BY <1>1, IdleStore DEF CloseText, Idle, Tight
<1>2. CASE Running
  <2> DEFINE d == Depth - 1
  <2>1. /\ d \in 0..Depth - 1 /\ Top.saved \in 0..Count /\ stack[d + 1].saved = Top.saved
        /\ DOMAIN cell = Scope(Depth) /\ Top.saved <= Top.saved
    BY <1>2, SavedFacts, RunningScope
  <2>2. Unwind(Top.saved, cell, {}, d) /\ Scope(Blocks)' = Scope(d)  BY <1>2 DEF CloseText
  <2>3. dead \cup {} = dead /\ Sane(cell, dead)  BY DEF Store
  <2>4. Cleared(cell, {})  BY DEF Cleared
  <2> HIDE DEF d
  <2> QED  BY <2>1, <2>2, <2>3, <2>4, <1>2, LeaveStore
<1> QED  BY <1>1, <1>2

\* It is closed, and the execution is behind it or still away.
LEMMA CloseSafe ==
    ASSUME IInv, IInv', Drops, Store, Depth > 0, CloseText,
           deferStack' = Trimmed(Top.saved), stack' = Below,
           loc' = IF Running THEN Run ELSE Resumed
    PROVE  Safe
<1>0. Place /\ Place'  BY PlaceFacts, PTL
<1>1. Depth \in Nat /\ Depth - 1 \in Nat /\ Place /\ Place'  BY <1>0, SavedFacts
<1>2. /\ Depth' = Depth - 1
      /\ \A i \in 1..Depth - 1 : stack'[i] = stack[i]
  BY PopShape
<1>3. Drops' /\ (AllPending => AllPending')
  BY <1>2, CutDrops
<1>4. ASSUME Running PROVE Scope(Blocks)' = Scope(Depth - 1)
  <2>1. Running'  BY <1>4 DEF Running, Run, At
  <2>2. Blocks' = Depth - 1  BY <2>1, <1>1, <1>2 DEF Place
  <2> QED  BY <2>2, <1>1, <1>2, ScopeSame
<1>5. ASSUME ~Running PROVE Scope(Blocks)' = Scope(Blocks)
  <2>1. loc.at = Depth => loc' = Run /\ Blocks = Depth - 1
    BY <1>5, AwayFacts DEF Resumed
  <2>2. loc.at # Depth => loc' = loc  BY <1>5 DEF Resumed
  <2>3. Blocks' = Blocks /\ Blocks \in 0..Depth - 1
    <3>1. CASE loc.at = Depth
      <4>1. Running'  BY <2>1, <3>1 DEF Running, Run, At
      <4> QED  BY <4>1, <2>1, <3>1, <1>1, <1>2 DEF Place
    <3>2. CASE loc.at # Depth
      <4>1. Blocks = IF loc.slot = "off" THEN 0 ELSE loc.at - 1  BY <1>5 DEF Blocks
      <4>2. Blocks' = Blocks  BY <4>1, <2>2, <3>2, <1>5 DEF Blocks, Running
      <4> QED  BY <4>1, <4>2, <3>2, <1>1, <1>5 DEF Place
    <3> QED  BY <3>1, <3>2
  <2>4. \A i \in 1..Blocks : stack'[i].vars = stack[i].vars  BY <2>3, <1>1, <1>2
  <2> QED  BY <2>3, <2>4, ScopeSame
<1>6. Store' /\ (Tight => Alive' /\ lost' = FALSE)  BY <1>4, <1>5, CloseStore
<1> QED  BY <1>3, <1>6 DEF Safe, Tight

\* Another branch or iteration takes its place.
LEMMA SwitchSafe ==
    ASSUME IInv, IInv', Drops, Store, Depth > 0, CloseText,
           deferStack' = Trimmed(Top.saved),
           NEW f \in Frame, f.saved = Top.saved, f.vars = {}, f.kind \in {"else", "loop"},
           stack' = [stack EXCEPT ![Depth] = f],
           \/ Running /\ loc' \in {Run, At("out", Depth)}
           \/ ~Running /\ loc.at = Depth /\ loc' \in {Run, loc}
           \/ ~Running /\ loc' = loc
    PROVE  Safe
<1>0. Place /\ Place'  BY PlaceFacts, PTL
<1>1. Depth \in Nat /\ Depth - 1 \in Nat /\ Place /\ Place'  BY <1>0, SavedFacts
<1>2. /\ Depth' = Depth /\ stack'[Depth] = f
      /\ \A i \in 1..Depth - 1 : stack'[i] = stack[i]
  BY ClearShape
<1>3. /\ Drops' /\ (AllPending => AllPending')
      /\ Scope(Depth)' = Scope(Depth - 1)
  <2>1. \A i \in 1..Depth : stack'[i].saved = stack[i].saved
    <3>1. \A i \in 1..Depth : i \in 1..Depth - 1 \/ i = Depth  BY <1>1
    <3> QED  BY <3>1, <1>2 DEF Top
  <2> QED  BY <2>1, <1>2, CutDrops
<1>4. \A n \in 0..Depth - 1 : Blocks' = n => Scope(Blocks)' = Scope(n)
  BY <1>1, <1>2, ScopeSame
<1>5. Blocks' = Depth => Scope(Blocks)' = Scope(Depth - 1)
  <2>1. Blocks' = Depth' => Scope(Blocks)' = Scope(Depth)'  BY DEF Scope
  <2> QED  BY <2>1, <1>2, <1>3
<1>6. ASSUME Running PROVE Scope(Blocks)' = Scope(Depth - 1)
  <2>1. CASE loc' = Run
    <3>1. Running'  BY <2>1 DEF Running, Run, At
    <3> QED  BY <3>1, <1>1, <1>2, <1>5 DEF Place
  <2>2. CASE loc' = At("out", Depth)
    <3>1. loc'.slot = "out" /\ loc'.at = Depth  BY <2>2 DEF At
    <3>2. Blocks' = Depth - 1  BY <3>1, <1>1 DEF Place, Running
    <3> QED  BY <3>2, <1>1, <1>4
  <2> QED  BY <2>1, <2>2, <1>6
<1>7. ASSUME ~Running PROVE Scope(Blocks)' = Scope(Blocks)
  <2>1. CASE loc' = Run /\ loc.at = Depth
    <3>1. Running'  BY <2>1 DEF Running, Run, At
    <3>2. Blocks = Depth - 1  BY <2>1, <1>7, AwayFacts
    <3> QED  BY <3>1, <3>2, <1>1, <1>2, <1>5 DEF Place
  <2>2. CASE loc' = loc
    <3>1. Blocks = IF loc.slot = "off" THEN 0 ELSE loc.at - 1  BY <1>7 DEF Blocks
    <3>2. Blocks' = Blocks  BY <3>1, <2>2, <1>7 DEF Blocks, Running
    <3>3. Blocks \in 0..Depth - 1  BY <3>1, <1>1, <1>7 DEF Place
    <3> QED  BY <3>2, <3>3, <1>4
  <2> QED  BY <2>1, <2>2, <1>7
<1>8. Store' /\ (Tight => Alive' /\ lost' = FALSE)  BY <1>6, <1>7, CloseStore
<1> QED  BY <1>3, <1>8 DEF Safe, Tight

\* The execution leaves all blocks but d, while the generator stays where it is.
LEMMA JumpSafe ==
    ASSUME IInv, IInv', Drops, Store, UNCHANGED <<deferStack, stack>>, NEW d \in 0..Depth - 1,
           NEW boundary \in 0..Count, stack[d + 1].saved <= boundary,
           Clean => boundary = stack[d + 1].saved,
           NEW c, NEW given,
           IF Running THEN Unwind(boundary, c, given, d) ELSE Idle,
           Running => DOMAIN c = Scope(Depth) /\ Sane(c, dead \cup given) /\ Cleared(c, given),
           Running => \/ loc' = Off /\ d = 0
                      \/ loc' \in {At("out", d + 1), At("next", d + 1)},
           ~Running => loc' = loc
    PROVE  Safe
<1>1. Place /\ Place'  BY PlaceFacts, PTL
<1>2. Drops' /\ (AllPending => AllPending')  BY StayDrops
<1>3. CASE ~Running
  <2>1. Blocks' = Blocks /\ UNCHANGED values
    BY <1>3 DEF Blocks, Running, Idle, Depth
  <2>2. Scope(Blocks)' = Scope(Blocks)  BY <2>1 DEF Scope
  <2> QED  BY <2>1, <2>2, <1>2, IdleStore DEF Safe, Tight
<1>4. CASE Running
  <2>1. Blocks' = d
    <3>1. CASE loc' = Off /\ d = 0
      <4>1. loc'.slot = "off"  BY <3>1 DEF Off, At
      <4> QED  BY <3>1, <4>1, <1>1 DEF Place
    <3>2. CASE loc' \in {At("out", d + 1), At("next", d + 1)}
      <4>1. loc'.slot \in {"out", "next"} /\ loc'.at = d + 1  BY <3>2 DEF At
      <4> QED  BY <4>1, <1>1 DEF Place, Running
    <3> QED  BY <1>4, <3>1, <3>2
  <2>2. d \in Nat /\ Scope(Blocks)' = Scope(d)  BY <2>1, <1>1 DEF Scope, Place
  <2>3. Unwind(boundary, c, given, d)  BY <1>4
  <2>4. Store' /\ (Tight /\ boundary = stack[d + 1].saved => Alive' /\ lost' = FALSE)
    BY <2>2, <2>3, <1>4, LeaveStore
  <2>5. Clean /\ Tight => Alive' /\ lost' = FALSE  BY <2>4
  <2> QED  BY <2>4, <2>5, <1>2 DEF Safe, Tight
<1> QED  BY <1>3, <1>4

\* The function returns.
LEMMA ReturnSafe ==
    ASSUME IInv, IInv', Drops, Store, InBody, UNCHANGED codegen,
           NEW boundary \in 0..Count, Clean => boundary = 0, NEW c, NEW given,
           IF Running THEN Unwind(boundary, c, given, 0) ELSE Idle,
           Running => DOMAIN c = Scope(Depth) /\ Sane(c, dead \cup given) /\ Cleared(c, given),
           loc' = IF Running THEN Off ELSE loc
    PROVE  Safe
<1>1. Depth \in Nat /\ Count \in Nat  BY SavedFacts
<1>2. 0 \in 0..Depth - 1 /\ 0 + 1 = 1 /\ stack[1].saved = 0
  BY <1>1 DEF InBody, IInv, Skeleton, Saved
<1>3. UNCHANGED <<deferStack, stack>>  BY DEF codegen
<1>4. stack[0 + 1].saved <= boundary /\ (Clean => boundary = stack[0 + 1].saved)
  BY <1>1, <1>2
<1> QED  BY <1>2, <1>3, <1>4, JumpSafe

\* A variable is returned.
LEMMA ReturnVarSafe ==
    ASSUME IInv, IInv', Drops, Store, NEW n \in Name, ReturnVar(n)
    PROVE  Safe
<1> DEFINE w == Denotes(n)
           c == [cell EXCEPT ![w] = [flag |-> FALSE, val |-> NoValue]]
           given == {cell[w].val}
<1>1. /\ InBody /\ UNCHANGED codegen /\ CanMove(n)
      /\ IF Running THEN Unwind(0, c, given, 0) ELSE Idle
      /\ loc' = IF Running THEN Off ELSE loc
  BY DEF ReturnVar
<1>2. ASSUME Running
      PROVE  DOMAIN c = Scope(Depth) /\ Sane(c, dead \cup given) /\ Cleared(c, given)
  <2>1. DOMAIN cell = Scope(Depth) /\ Sane(cell, dead) /\ w \in DOMAIN cell /\ cell[w].flag
    BY <1>1, <1>2, MovedFacts, RunningScope DEF Store
  <2>2. c = [cell EXCEPT ![w] = [flag |-> FALSE, val |-> NoValue]]  OBVIOUS
  <2> HIDE DEF w, c
  <2>3. /\ Sane(c, dead \cup given) /\ DOMAIN c = DOMAIN cell
        /\ \A u \in DOMAIN cell : c[u] = cell[u] \/ (c[u].val = NoValue /\ cell[u].val \in given)
    BY <2>1, <2>2, Emptied
  <2> QED  BY <2>1, <2>3 DEF Cleared
<1>3. 0 \in 0..Count  BY SavedFacts
<1> HIDE DEF w, c, given
<1> QED  BY <1>1, <1>2, <1>3, ReturnSafe

\* Memory as it is serves a return or a break, too.
LEMMA AsItIs ==
    ASSUME IInv, Store
    PROVE  Running => /\ DOMAIN cell = Scope(Depth) /\ Sane(cell, dead \cup {})
                      /\ Cleared(cell, {})
<1>1. dead \cup {} = dead  OBVIOUS
<1> QED  BY <1>1, RunningScope DEF Store, Cleared

\* `return` without an owner, and breaking out of a loop or continuing it.
LEMMA JumpsSafe ==
    ASSUME IInv, IInv', Drops, Store, Jumps
    PROVE  Safe
<1>1. /\ Depth \in Nat /\ Count \in Nat
      /\ \A i \in 1..Depth : stack[i].saved \in 0..Count
  BY SavedFacts
<1>2. ASSUME NEW event, NEW slot \in {"out", "next"}, NEW t \in 1..MaxNest,
             Jump(event, slot, t)
      PROVE  Safe
  <2>1. PICK i \in 1..Depth :
            /\ Innermost(i)
            /\ IF Running THEN Unwind(stack[i].saved, cell, {}, t - 1) ELSE Idle
    BY <1>2 DEF Jump
  <2>2. /\ LoopAt(t) /\ ("label" \in Risky \/ Innermost(t)) /\ t \in 1..Depth
        /\ UNCHANGED <<deferStack, stack>>
        /\ loc' = IF Running THEN At(slot, t) ELSE loc
    BY <1>2 DEF Jump, LoopAt, codegen
  <2>3. t <= i
    BY <2>1, <2>2, <1>1 DEF Innermost, LoopAt
  <2>4. Clean => i = t
    <3>1. Clean => Innermost(t)  BY <2>2 DEF Clean
    <3> QED  BY <3>1, <2>1, <2>2, <1>1 DEF Innermost, LoopAt
  <2> DEFINE d == t - 1
             boundary == stack[i].saved
  <2>5. d \in 0..Depth - 1 /\ d + 1 = t  BY <2>2, <1>1
  <2>6. stack[d + 1].saved <= boundary
    BY <2>2, <2>3, <2>5 DEF IInv, Skeleton, Saved
  <2>7. boundary \in 0..Count /\ (Clean => boundary = stack[d + 1].saved)
    BY <2>4, <2>5, <1>1
  <2>8. IF Running THEN Unwind(boundary, cell, {}, d) ELSE Idle  BY <2>1
  <2>9. /\ Running => loc' \in {At("out", d + 1), At("next", d + 1)}
        /\ ~Running => loc' = loc
    BY <2>2, <2>5
  <2> HIDE DEF d, boundary
  <2> QED  BY <2>2, <2>5, <2>6, <2>7, <2>8, <2>9, AsItIs, JumpSafe
<1>3. ASSUME NEW how \in {"plain", "try", "slice"}, Return(how) PROVE Safe
  <2> DEFINE boundary == IF how = "plain" THEN 0 ELSE Count
  <2>1. /\ InBody /\ UNCHANGED codegen
        /\ IF Running THEN Unwind(boundary, cell, {}, 0) ELSE Idle
        /\ loc' = IF Running THEN Off ELSE loc
    BY <1>3 DEF Return
  <2>2. boundary \in 0..Count /\ (Clean => boundary = 0)
    BY <1>1, <1>3 DEF Return, Clean
  <2> HIDE DEF boundary
  <2> QED  BY <2>1, <2>2, AsItIs, ReturnSafe
<1> QED  BY <1>2, <1>3 DEF Jumps, Break, Continue

\* The function ends.
LEMMA EndSafe ==
    ASSUME IInv, Drops, Store, End
    PROVE  Safe
<1>1. Place /\ Saved /\ Kinds  BY PlaceFacts DEF IInv, Skeleton
<1>2. Depth = 1 /\ stack[1].kind = "fn" /\ stack[1].saved = 0 /\ Count \in Nat
  BY <1>1 DEF End, TopIs, Top, Kinds, Saved, Place
<1>3. Depth' = 0 /\ Count' = 0  BY DEF End, Depth, Count
<1>4. loc'.slot = "off"  BY DEF End, Off, At
<1>5. Blocks' = 0  BY <1>4 DEF Blocks, Running
<1>6. Scope(Blocks)' = {} /\ Scope(Depth)' = {} /\ Scope(0) = {}
  BY <1>3, <1>5 DEF Scope
<1>7. Drops' /\ AllPending'  BY <1>3, <1>6 DEF Drops, AllPending
<1>8. CASE Running
  <2>1. Unwind(0, cell, {}, 0) /\ 0 \in 0..Depth - 1 /\ 0 \in 0..Count
        /\ stack[0 + 1].saved <= 0 /\ stack[0 + 1].saved = 0
    BY <1>2, <1>8 DEF End
  <2>2. Scope(Blocks)' = Scope(0)  BY <1>6
  <2>3. Store' /\ (Tight => Alive' /\ lost' = FALSE)
    BY <2>1, <2>2, <1>8, AsItIs, LeaveStore
  <2> QED  BY <2>3, <1>7 DEF Safe, Tight
<1>9. CASE ~Running
  <2>1. loc.slot = "off"  BY <1>1, <1>2, <1>9 DEF Place
  <2>2. Blocks = 0 /\ UNCHANGED values  BY <2>1, <1>1, <1>9 DEF Place, End, Idle
  <2>3. Scope(Blocks)' = Scope(Blocks)  BY <2>2, <1>6
  <2> QED  BY <2>2, <2>3, <1>7, IdleStore DEF Safe, Tight
<1> QED  BY <1>8, <1>9

\* The blocks that an execution out of sight is in are not the innermost one.
LEMMA AwayScope ==
    ASSUME IInv, Depth > 0, loc' = loc, UNCHANGED values, Store,
           \A i \in 1..Depth - 1 : stack'[i].vars = stack[i].vars,
           ~Running \/ stack' = stack
    PROVE  Store' /\ (Alive /\ lost = FALSE => Alive' /\ lost' = FALSE)
<1>1. Place  BY PlaceFacts
<1>2. Scope(Blocks)' = Scope(Blocks)
  <2>1. CASE stack' = stack
    <3>1. Blocks' = Blocks  BY <2>1 DEF Blocks, Running, Depth
    <3> QED  BY <2>1, <3>1 DEF Scope
  <2>2. CASE ~Running
    <3>1. Blocks = IF loc.slot = "off" THEN 0 ELSE loc.at - 1  BY <2>2 DEF Blocks
    <3>2. Blocks' = Blocks  BY <3>1, <2>2 DEF Blocks, Running
    <3>3. Blocks \in 0..Depth - 1  BY <3>1, <2>2, <1>1 DEF Place
    <3>4. \A i \in 1..Blocks : stack'[i].vars = stack[i].vars  BY <3>3, <1>1 DEF Place
    <3> QED  BY <3>2, <3>3, <3>4, ScopeSame
  <2> QED  BY <2>1, <2>2
<1> QED  BY <1>2, IdleStore

\* The parameters are declared where the execution runs.
LEMMA ParamSafe ==
    ASSUME IInv, Entry, "shadow" \notin Risky, Drops, Store, NEW n \in Name, Param(n)
    PROVE  Safe
<1>1. /\ Depth > 0 /\ Top.kind = "params" /\ Declare(n) /\ loc' = loc /\ CanMake
      /\ Become(Holding(cell, n, NewValue), {})
  BY DEF Param, TopIs
<1>2. Depth \in 1..Depth  BY <1>1, SavedFacts
<1>3. Running  BY <1>1, <1>2 DEF Entry, IInv, Skeleton, Kinds, Top
<1> QED  BY <1>1, <1>3, NewStep

\* A local variable.
LEMMA LetSafe ==
    ASSUME IInv, "shadow" \notin Risky, Drops, Store, NEW n \in Name,
           NEW src \in Name \cup {Fresh}, Let(n, src)
    PROVE  Safe
<1>1. /\ Depth > 0 /\ Declare(n) /\ loc' = loc
      /\ src # Fresh => CanMove(src) /\ src \in Name
      /\ IF ~Running THEN UNCHANGED values
         ELSE IF src = Fresh THEN CanMake /\ Become(Holding(cell, n, NewValue), {})
         ELSE Become(Holding(Moved(src), n, cell[Denotes(src)].val), {})
  BY DEF Let, InBody
<1>2. CASE ~Running
  <2>1. UNCHANGED values  BY <1>1, <1>2
  <2>2. /\ Drops' /\ (Count < MaxDefer /\ AllPending => AllPending')
        /\ \A i \in 1..Depth - 1 : stack'[i].vars = stack[i].vars
    BY <1>1, DeclareDrops
  <2>3. Store' /\ (Alive /\ lost = FALSE => Alive' /\ lost' = FALSE)
    BY <1>1, <1>2, <2>1, <2>2, AwayScope
  <2> QED  BY <2>2, <2>3 DEF Safe, Clean, Tight
<1>3. CASE Running /\ src = Fresh
  BY <1>1, <1>3, NewStep
<1>4. CASE Running /\ src # Fresh
  BY <1>1, <1>4, MovedIntoStep
<1> QED  BY <1>2, <1>3, <1>4

\* An assignment, a move and a deferred statement.
LEMMA UseSafe ==
    ASSUME IInv, Recorded, Drops, Store,
           \/ \E n \in Name, src \in Name \cup {Fresh} : Assign(n, src)
           \/ \E n \in Name : Move(n) \/ DeferStmt(n)
    PROVE  Safe
<1>1. \A i \in 1..Depth - 1 : stack' = stack => stack'[i].vars = stack[i].vars  OBVIOUS
<1>2. ASSUME Depth > 0, UNCHANGED <<deferStack, stack, loc>>, UNCHANGED values PROVE Safe
  <2>1. Drops' /\ (AllPending => AllPending')  BY <1>2, StayDrops
  <2>2. Store' /\ (Alive /\ lost = FALSE => Alive' /\ lost' = FALSE)
    BY <1>2, AwayScope
  <2> QED  BY <2>1, <2>2 DEF Safe, Tight
<1>3. ASSUME NEW n \in Name, NEW src \in Name \cup {Fresh}, Assign(n, src) PROVE Safe
  <2>1. CASE Running  BY <2>1, <1>3, AssignStep DEF Recorded
  <2>2. CASE ~Running  BY <2>2, <1>2, <1>3 DEF Assign, InBody
  <2> QED  BY <2>1, <2>2
<1>4. ASSUME NEW n \in Name, Move(n) PROVE Safe
  <2>1. CASE Running
    <3>1. /\ CanMove(n) /\ UNCHANGED <<deferStack, stack>>
          /\ Become(Moved(n), {cell[Denotes(n)].val})
      BY <2>1, <1>4 DEF Move
    <3>2. Blocks' = Depth  BY <2>1, <1>4 DEF Move, Blocks, Running, Depth
    <3> QED  BY <2>1, <3>1, <3>2, MoveStep
  <2>2. CASE ~Running  BY <2>2, <1>2, <1>4 DEF Move, InBody
  <2> QED  BY <2>1, <2>2
<1>5. ASSUME NEW n \in Name, DeferStmt(n) PROVE Safe
  <2>1. /\ Depth > 0 /\ Visible(n) /\ UNCHANGED <<stack, loc>> /\ UNCHANGED values
        /\ deferStack' = Pushed([kind |-> "stmt", at |-> Denotes(n)[1], name |-> n])
    BY <1>5 DEF DeferStmt, InBody, Idle
  <2>2. Drops' /\ (AllPending => AllPending')  BY <2>1, DeferStmtDrops
  <2>3. Store' /\ (Alive /\ lost = FALSE => Alive' /\ lost' = FALSE)
    BY <2>1, AwayScope
  <2> QED  BY <2>2, <2>3 DEF Safe, Tight
<1> QED  BY <1>3, <1>4, <1>5

\* A block is opened, and the execution enters it or not.
LEMMA OpenSafe ==
    ASSUME IInv, IInv', Drops, Store, deferStack' = deferStack, Depth' = Depth + 1,
           \A i \in 1..Depth : /\ stack'[i].saved = stack[i].saved
                               /\ stack'[i].vars = stack[i].vars,
           stack'[Depth + 1].saved = Count, stack'[Depth + 1].vars = {}, UNCHANGED values,
           \/ loc' = loc
           \/ Running /\ loc' \in {At("else", Depth + 1), At("out", Depth + 1)}
    PROVE  Safe
<1>1. Place /\ Place'  BY PlaceFacts, PTL
<1>2. /\ Drops' /\ (AllPending => AllPending')
      /\ Scope(Depth)' = Scope(Depth)
  BY PushDrops
<1>3. Scope(Blocks)' = Scope(Blocks)
  <2>1. CASE Running /\ loc' = loc
    <3>1. Blocks' = Depth' /\ Blocks = Depth  BY <2>1 DEF Blocks, Running
    <3>2. Scope(Blocks)' = Scope(Depth)'  BY <3>1 DEF Scope
    <3> QED  BY <3>1, <3>2, <1>2
  <2>2. CASE Blocks' = Blocks /\ Blocks \in 0..Depth
    <3>1. \A i \in 1..Blocks : stack'[i].vars = stack[i].vars  BY <2>2, <1>1 DEF Place
    <3> QED  BY <2>2, <3>1, ScopeSame
  <2>3. CASE Running /\ loc' \in {At("else", Depth + 1), At("out", Depth + 1)}
    <3>1. loc'.slot \in {"else", "out"} /\ loc'.at = Depth + 1  BY <2>3 DEF At
    <3>2. Blocks' = Depth  BY <3>1, <1>1 DEF Place, Running
    <3>3. Blocks = Depth /\ Blocks \in 0..Depth  BY <2>3, <1>1 DEF Place
    <3> QED  BY <3>2, <3>3, <2>2
  <2>4. CASE ~Running /\ loc' = loc
    <3>1. Blocks = IF loc.slot = "off" THEN 0 ELSE loc.at - 1  BY <2>4 DEF Blocks
    <3>2. Blocks' = Blocks  BY <3>1, <2>4 DEF Blocks, Running
    <3>3. Blocks \in 0..Depth  BY <3>1, <2>4, <1>1 DEF Place
    <3> QED  BY <3>2, <3>3, <2>2
  <2> QED  BY <2>1, <2>3, <2>4
<1>4. Store' /\ (Alive /\ lost = FALSE => Alive' /\ lost' = FALSE)  BY <1>3, IdleStore
<1> QED  BY <1>2, <1>4 DEF Safe, Tight

\* A new frame.
LEMMA FrameFacts ==
    ASSUME IInv, NEW kind \in FrameKind, NEW from \in Nat \ {0}
    PROVE  /\ NewFrame(kind, from) \in Frame
           /\ NewFrame(kind, from).saved = Count /\ NewFrame(kind, from).vars = {}
<1>1. NewFrame(kind, from) = [kind |-> kind, saved |-> Count, vars |-> {}, from |-> from]
  BY DEF NewFrame
<1> QED  BY <1>1, SavedFacts DEF Frame

\* Blocks are opened where the generator is, the function's body among them.
LEMMA OpensSafe ==
    ASSUME IInv, IInv', Drops, Store, Body \/ OpenBlock \/ If \/ Loop
    PROVE  Safe
<1>1. Place /\ Typed /\ Kinds  BY PlaceFacts DEF IInv, Skeleton
<1>2. ASSUME NEW s \in Seq(Frame), Len(s) = Depth, Depth > 0,
             \A i \in 1..Depth : s[i].saved = stack[i].saved /\ s[i].vars = stack[i].vars,
             NEW kind \in FrameKind, NEW from \in Nat \ {0},
             stack' = Append(s, NewFrame(kind, from))
      PROVE  /\ Depth' = Depth + 1
             /\ \A i \in 1..Depth : /\ stack'[i].saved = stack[i].saved
                                    /\ stack'[i].vars = stack[i].vars
             /\ stack'[Depth + 1].saved = Count /\ stack'[Depth + 1].vars = {}
  <2> DEFINE f == NewFrame(kind, from)
  <2>1. f \in Frame /\ f.saved = Count /\ f.vars = {}  BY FrameFacts
  <2>2. stack' = Append(s, f)  BY <1>2
  <2> HIDE DEF f
  <2>3. Len(stack') = Len(s) + 1  BY <2>1, <2>2, <1>2, AppendProperties
  <2>4. stack'[Len(s) + 1] = f
    <3>1. Append(s, f)[Len(s) + 1] = f  BY <2>1, AppendProperties
    <3> QED  BY <3>1, <2>2
  <2>5. \A i \in 1..Len(s) : stack'[i] = s[i]  BY <2>1, <2>2, <1>2, AppendProperties
  <2>6. Depth' = Depth + 1  BY <2>3, <1>2 DEF Depth
  <2> QED  BY <2>1, <2>4, <2>5, <2>6, <1>2
<1>3. ASSUME NEW kind \in {"block", "then", "loop"}, NEW from \in Nat \ {0}, InBody,
             Push(NewFrame(kind, from)), deferStack' = deferStack, UNCHANGED values,
             \/ loc' = loc
             \/ Running /\ loc' \in {At("else", Depth + 1), At("out", Depth + 1)}
      PROVE  Safe
  <2>1. stack' = Append(stack, NewFrame(kind, from)) /\ Depth > 0 /\ kind \in FrameKind
    BY <1>3 DEF Push, InBody, FrameKind
  <2>2. stack \in Seq(Frame) /\ Len(stack) = Depth  BY <1>1 DEF Typed, Depth
  <2>3. /\ Depth' = Depth + 1
        /\ \A i \in 1..Depth : /\ stack'[i].saved = stack[i].saved
                               /\ stack'[i].vars = stack[i].vars
        /\ stack'[Depth + 1].saved = Count /\ stack'[Depth + 1].vars = {}
    BY <2>1, <2>2, <1>2
  <2> QED  BY <2>3, <1>3, OpenSafe
<1>4. ASSUME Body PROVE Safe
  <2> DEFINE s == [stack EXCEPT ![1].kind = "fn"]
             f == [stack[1] EXCEPT !.kind = "fn"]
  <2>1. /\ stack' = Append(s, NewFrame("block", 1)) /\ deferStack' = deferStack /\ loc' = loc
        /\ UNCHANGED values /\ Depth > 0 /\ stack[Depth].kind = "params"
    BY <1>4 DEF Body, Idle, TopIs, Top
  <2>2. Depth = 1 /\ stack[1] \in Frame
    <3>1. Depth = 1  BY <2>1, <1>1 DEF Kinds, Place
    <3>2. stack \in Seq(Frame) /\ 1 \in 1..Len(stack)  BY <3>1, <1>1 DEF Typed, Depth
    <3> QED  BY <3>1, <3>2, FrameFields
  <2>3. f \in Frame /\ f.saved = stack[1].saved /\ f.vars = stack[1].vars
    BY <2>2 DEF Frame, FrameKind
  <2>4. s = [stack EXCEPT ![1] = f]  BY <2>2
  <2> HIDE DEF f
  <2>5. /\ s \in Seq(Frame) /\ Len(s) = Depth /\ s[1].saved = stack[1].saved
        /\ s[1].vars = stack[1].vars
    BY <2>2, <2>3, <2>4, <1>1, ExceptSeq DEF Typed, Depth
  <2>6. \A i \in 1..Depth : s[i].saved = stack[i].saved /\ s[i].vars = stack[i].vars
    BY <2>2, <2>5
  <2>7. "block" \in FrameKind /\ 1 \in Nat \ {0}  BY DEF FrameKind
  <2> HIDE DEF s
  <2>8. /\ Depth' = Depth + 1
        /\ \A i \in 1..Depth : /\ stack'[i].saved = stack[i].saved
                               /\ stack'[i].vars = stack[i].vars
        /\ stack'[Depth + 1].saved = Count /\ stack'[Depth + 1].vars = {}
    BY <2>1, <2>5, <2>6, <2>7, <1>2
  <2> QED  BY <2>1, <2>8, OpenSafe
<1>5. ASSUME OpenBlock PROVE Safe
  BY <1>3, <1>5 DEF OpenBlock, Idle
<1>6. ASSUME If PROVE Safe
  <2>1. loc' = loc \/ (Running /\ loc' = At("else", Depth + 1))
    BY <1>1, <1>6 DEF If, Place
  <2> QED  BY <2>1, <1>3, <1>6 DEF If, Idle
<1>7. ASSUME Loop PROVE Safe
  <2>1. loc' = loc \/ (Running /\ loc' = At("out", Depth + 1))
    BY <1>1, <1>7 DEF Loop, Place
  <2>2. pc' \in Nat \ {0}  BY <1>7, PcStep DEF Loop
  <2> QED  BY <2>1, <2>2, <1>3, <1>7 DEF Loop, Idle
<1> QED  BY <1>4, <1>5, <1>6, <1>7

\* Blocks are left at their end, for another branch and for the next iteration.
LEMMA ClosesSafe ==
    ASSUME IInv, IInv', Drops, Store, Else \/ Close \/ EndLoop \/ NextIteration
    PROVE  Safe
<1>1. Place /\ Typed  BY PlaceFacts DEF IInv, Skeleton
<1>2. ASSUME Close PROVE Safe
  <2>1. /\ Depth > 0 /\ CloseText /\ deferStack' = Trimmed(Top.saved) /\ stack' = Below
        /\ loc' = Resumed
    BY <1>2 DEF Close, TopIs
  <2>2. Running => Resumed = Run  BY <1>1 DEF Resumed, Place
  <2> QED  BY <2>1, <2>2, CloseSafe
<1>3. ASSUME EndLoop PROVE Safe
  <2>1. /\ Depth > 0 /\ CloseText /\ deferStack' = Trimmed(Top.saved) /\ stack' = Below
        /\ loc' = IF Running THEN Run ELSE Resumed
    BY <1>3 DEF EndLoop, TopIs
  <2> QED  BY <2>1, CloseSafe
<1>4. ASSUME Else PROVE Safe
  <2> DEFINE f == [[Top EXCEPT !.kind = "else"] EXCEPT !.vars = {}]
  <2>1. /\ Depth > 0 /\ CloseText /\ deferStack' = Trimmed(Top.saved)
        /\ stack' = [stack EXCEPT ![Depth] = [@ EXCEPT !.kind = "else", !.vars = {}]]
        /\ loc' = IF Running THEN At("out", Depth)
                  ELSE IF loc = At("else", Depth) THEN Run ELSE loc
    BY <1>4 DEF Else, TopIs
  <2>2. Top \in Frame  BY <2>1, <1>1, StackFacts
  <2>3. f \in Frame /\ f.saved = Top.saved /\ f.vars = {} /\ f.kind = "else"
    BY <2>2 DEF Frame, FrameKind
  <2>4. stack' = [stack EXCEPT ![Depth] = f]  BY <2>1 DEF Top
  <2> HIDE DEF f
  <2>5. loc = At("else", Depth) => loc.at = Depth  BY DEF At
  <2> QED  BY <2>1, <2>3, <2>4, <2>5, SwitchSafe
<1>5. ASSUME NextIteration PROVE Safe
  <2> DEFINE f == [Top EXCEPT !.vars = {}]
  <2>1. /\ Depth > 0 /\ Top.kind = "loop" /\ CloseText /\ deferStack' = Trimmed(Top.saved)
        /\ stack' = [stack EXCEPT ![Depth].vars = {}]
        /\ Running \/ loc = At("next", Depth)
        /\ loc' = Run
    BY <1>5 DEF NextIteration, TopIs
  <2>2. Top \in Frame  BY <2>1, <1>1, StackFacts
  <2>3. f \in Frame /\ f.saved = Top.saved /\ f.vars = {} /\ f.kind = "loop"
    BY <2>1, <2>2 DEF Frame
  <2>4. stack' = [stack EXCEPT ![Depth] = f]  BY <2>1 DEF Top
  <2> HIDE DEF f
  <2>5. loc = At("next", Depth) => loc.at = Depth  BY DEF At
  <2> QED  BY <2>1, <2>3, <2>4, <2>5, SwitchSafe
<1> QED  BY <1>2, <1>3, <1>4, <1>5

\* Every step keeps the memory, and loses nothing as long as it need not.
LEMMA SafeStep ==
    ASSUME MInv, "shadow" \notin Risky, Next
    PROVE  Safe
<1>1. IInv /\ Drops /\ Entry /\ Recorded /\ Store /\ IInv'
  BY NextStep DEF MInv
<1> QED
  BY <1>1, ParamSafe, LetSafe, UseSafe, ReturnVarSafe, OpensSafe, ClosesSafe, JumpsSafe, EndSafe
  DEF Next, Jumps

-----------------------------------------------------------------------------
(* Parameters come first *)

\* Declaring a parameter is all that happens before the body opens.
LEMMA EntryStep ==
    ASSUME IInv, Entry, "shadow" \notin Risky, Next
    PROVE  Entry'
<1>1. Place /\ Typed /\ Kinds  BY PlaceFacts DEF IInv, Skeleton
<1>2. ASSUME stack' = stack, loc' = loc PROVE Entry'
  BY <1>2 DEF Entry, Depth, Running
<1>3. ASSUME Depth > 0, Top.kind # "params" PROVE stack[1].kind # "params"
  BY <1>1, <1>3 DEF Entry, Top, Place
<1>4. ASSUME Depth' > 0 => stack'[1].kind # "params" PROVE Entry'
  BY <1>4 DEF Entry
<1>5. InBody => Depth > 0 /\ Top.kind # "params"  BY DEF InBody, TopIs
<1>6. ASSUME NEW n \in Name, Param(n) PROVE Entry'
  <2>1. Depth > 0 /\ Declare(n) /\ loc' = loc  BY <1>6 DEF Param, TopIs
  <2>2. Depth' = Depth /\ \A i \in 1..Depth : stack'[i].kind = stack[i].kind
    BY <2>1, DeclareShape
  <2>3. stack'[1].kind = stack[1].kind  BY <2>1, <2>2, <1>1 DEF Place
  <2> QED  BY <2>1, <2>2, <2>3 DEF Entry, Running
<1>7. ASSUME NEW n \in Name, NEW src \in Name \cup {Fresh}, Let(n, src) PROVE Entry'
  <2>1. Depth > 0 /\ Declare(n) /\ Top.kind # "params"  BY <1>5, <1>7 DEF Let
  <2>2. Depth' = Depth /\ \A i \in 1..Depth : stack'[i].kind = stack[i].kind
    BY <2>1, DeclareShape
  <2>3. stack'[1].kind = stack[1].kind  BY <2>1, <2>2, <1>1 DEF Place
  <2> QED  BY <2>1, <2>3, <1>3, <1>4
<1>8. ASSUME \/ \E n \in Name : Move(n) \/ DeferStmt(n)
             \/ \E n \in Name, src \in Name \cup {Fresh} : Assign(n, src)
      PROVE  Entry'
  BY <1>2, <1>8 DEF Move, DeferStmt, Assign
<1>9. ASSUME Jumps \/ \E n \in Name : ReturnVar(n) PROVE Entry'
  <2>1. InBody /\ stack' = stack
    BY <1>9 DEF Jumps, Break, Continue, Jump, Return, ReturnVar, codegen
  <2> QED  BY <2>1, <1>3, <1>4, <1>5
<1>10. ASSUME Body PROVE Entry'
  <2> DEFINE s == [stack EXCEPT ![1].kind = "fn"]
             f == [stack[1] EXCEPT !.kind = "fn"]
  <2>1. Depth > 0 /\ stack' = Append(s, NewFrame("block", 1))  BY <1>10 DEF Body, TopIs
  <2>2. stack \in Seq(Frame) /\ 1 \in 1..Len(stack)  BY <2>1, <1>1 DEF Typed, Depth
  <2>3. stack[1] \in Frame  BY <2>2, FrameFields
  <2>4. f \in Frame /\ f.kind = "fn"  BY <2>3 DEF Frame, FrameKind
  <2>5. s = [stack EXCEPT ![1] = f]  BY <2>3
  <2> HIDE DEF f
  <2>6. s \in Seq(Frame) /\ Len(s) = Len(stack) /\ s[1] = f
    BY <2>2, <2>4, <2>5, ExceptSeq
  <2>7. "block" \in FrameKind /\ 1 \in Nat \ {0}  BY DEF FrameKind
  <2>8. NewFrame("block", 1) \in Frame  BY <2>7, FrameFacts
  <2> HIDE DEF s
  <2>9. stack'[1] = s[1]  BY <2>1, <2>2, <2>6, <2>8, AppendProperties
  <2> QED  BY <2>4, <2>6, <2>9, <1>4
<1>11. ASSUME OpenBlock \/ If \/ Loop PROVE Entry'
  <2>1. InBody /\ \E kind \in {"block", "then", "loop"}, from \in {1, pc'} :
                     Push(NewFrame(kind, from)) /\ from \in Nat \ {0}
    BY <1>11, PcStep DEF OpenBlock, If, Loop
  <2>2. PICK kind \in {"block", "then", "loop"}, from \in Nat \ {0} :
            stack' = Append(stack, NewFrame(kind, from))
    BY <2>1 DEF Push
  <2>3. NewFrame(kind, from) \in Frame
    <3>1. kind \in FrameKind  BY DEF FrameKind
    <3> QED  BY <3>1, FrameFacts
  <2>4. stack \in Seq(Frame) /\ 1 \in 1..Len(stack)
    BY <2>1, <1>1, <1>5 DEF Typed, Depth
  <2>5. stack'[1] = stack[1]  BY <2>2, <2>3, <2>4, AppendProperties
  <2> QED  BY <2>1, <2>5, <1>3, <1>4, <1>5
<1>12. ASSUME Close \/ EndLoop PROVE Entry'
  <2>1. Depth > 0 /\ Top.kind # "params" /\ stack' = Below
    BY <1>12 DEF Close, EndLoop, TopIs
  <2>2. Depth' = Depth - 1 /\ \A i \in 1..Depth - 1 : stack'[i] = stack[i]
    BY <2>1, <1>1, StackFacts DEF Depth
  <2>3. Depth' > 0 => stack'[1] = stack[1]  BY <2>2, <1>1 DEF Place
  <2> QED  BY <2>1, <2>3, <1>3, <1>4
<1>13. ASSUME NEW f \in Frame, Depth > 0, Top.kind # "params", f.kind # "params",
              stack' = [stack EXCEPT ![Depth] = f]
       PROVE  Entry'
  <2>1. stack'[Depth] = f /\ \A i \in 1..Depth - 1 : stack'[i] = stack[i]
    BY <1>1, <1>13, StackFacts
  <2>2. stack'[1] = IF Depth = 1 THEN f ELSE stack[1]  BY <2>1, <1>1, <1>13 DEF Place
  <2> QED  BY <2>2, <1>3, <1>4, <1>13
<1>14. ASSUME Else \/ NextIteration PROVE Entry'
  <2>1. Depth > 0 /\ Top.kind # "params" /\ Top \in Frame
    BY <1>1, <1>14, StackFacts DEF Else, NextIteration, TopIs
  <2>2. CASE Else
    <3> DEFINE f == [[Top EXCEPT !.kind = "else"] EXCEPT !.vars = {}]
    <3>1. f \in Frame /\ f.kind # "params"  BY <2>1 DEF Frame, FrameKind
    <3>2. stack' = [stack EXCEPT ![Depth] = f]  BY <2>2 DEF Else, Top
    <3> HIDE DEF f
    <3> QED  BY <3>1, <3>2, <2>1, <1>13
  <2>3. CASE NextIteration
    <3> DEFINE f == [Top EXCEPT !.vars = {}]
    <3>1. f \in Frame /\ f.kind # "params"  BY <2>1 DEF Frame, FrameKind
    <3>2. stack' = [stack EXCEPT ![Depth] = f]  BY <2>3 DEF NextIteration, Top
    <3> HIDE DEF f
    <3> QED  BY <3>1, <3>2, <2>1, <1>13
  <2> QED  BY <2>2, <2>3, <1>14
<1>15. ASSUME End PROVE Entry'
  BY <1>15 DEF End, Entry, Depth
<1> QED
  BY <1>6, <1>7, <1>8, <1>9, <1>10, <1>11, <1>12, <1>14, <1>15 DEF Next, Jumps

-----------------------------------------------------------------------------
(* The theorems *)

\* The function starts with nothing in memory.
LEMMA MemoryInit == Init => MInv /\ Tight
<1> SUFFICES ASSUME Init PROVE MInv /\ Tight
  OBVIOUS
<1>1. IInv  BY InitStep
<1>2. /\ Depth = 1 /\ Count = 0 /\ stack[1].vars = {} /\ stack[1].kind = "params"
      /\ loc.slot = "run"
  BY DEF Init, Depth, Count, Run, At
<1>3. Scope(1) = {} /\ Blocks = 1  BY <1>2 DEF Scope, Blocks, Running
<1>4. cell = <<>> /\ dead = {} /\ twice = FALSE /\ lost = FALSE  BY DEF Init
<1>5. DOMAIN cell = {} /\ Held(cell) = {}  BY <1>4 DEF Held
<1>6. Store  BY <1>3, <1>4, <1>5 DEF Store, Sane
<1>7. Drops /\ Entry  BY <1>2 DEF Drops, Entry, Running
<1>8. Recorded  BY DEF Init, Recorded
<1>9. AllPending  BY <1>2, <1>3 DEF AllPending
<1>10. Alive  BY <1>5 DEF Alive, Tended
<1>11. Tight  BY <1>4, <1>9, <1>10 DEF Tight
<1> QED  BY <1>1, <1>6, <1>7, <1>8, <1>11 DEF MInv

\* Every step keeps the invariant, and loses nothing as long as it need not.
LEMMA MemoryStep ==
    ASSUME MInv, "shadow" \notin Risky, [Next]_vars
    PROVE  MInv' /\ (Clean /\ Tight => Tight')
<1>1. CASE Next
  BY <1>1, SafeStep, EntryStep, RecordedStep, NextStep DEF Safe, MInv
<1>2. CASE UNCHANGED vars
  <2>1. /\ UNCHANGED <<deferStack, stack>> /\ UNCHANGED <<loc, pc, useCpp, log, size, ran>>
        /\ UNCHANGED values
    BY <1>2 DEF vars, codegen, program
  <2>2. IInv'
    <3>1. IInv  BY DEF MInv
    <3> QED
      BY <2>1, <3>1 DEF IInv, Skeleton, Typed, Saved, Owned, Distinct, Kinds, Where, Depth, Count
  <2>3. Entry' /\ Recorded'  BY <2>1 DEF MInv, Entry, Recorded, Depth, Running
  <2>4. Drops' /\ (AllPending => AllPending')  BY <2>1, StayDrops DEF MInv
  <2>5. Scope(Blocks)' = Scope(Blocks)  BY <2>1 DEF Scope, Blocks, Running, Depth
  <2>6. Store' /\ (Alive /\ lost = FALSE => Alive' /\ lost' = FALSE)
    BY <2>1, <2>5, IdleStore DEF MInv
  <2> QED  BY <2>2, <2>3, <2>4, <2>6 DEF MInv, Tight
<1> QED  BY <1>1, <1>2

\* The generator's state and the memory of the execution are well-formed in every function, with
\* any of the constructs that exits mishandle but redeclared names.
THEOREM TypeCorrect ==
    ASSUME "shadow" \notin Risky
    PROVE  Spec => []TypeOK
<1>1. Init => MInv  BY MemoryInit
<1>2. MInv /\ [Next]_vars => MInv'  BY MemoryStep
<1>3. MInv => TypeOK
  <2> SUFFICES ASSUME MInv PROVE TypeOK
    OBVIOUS
  <2>1. IInv /\ Recorded /\ Store  BY DEF MInv
  <2>2. DOMAIN cell \subseteq (Nat \ {0}) \X Name
    <3>1. Place  BY <2>1, PlaceFacts
    <3>2. Blocks \in Nat
      BY <2>1, ViewFacts, SavedFacts DEF View
    <3>3. \A w \in Scope(Blocks) : w \in (1..Blocks) \X Name  BY DEF Scope
    <3>4. 1..Blocks \subseteq Nat \ {0}  BY <3>2
    <3> QED  BY <2>1, <3>3, <3>4 DEF Store
  <2>3. \A w \in DOMAIN cell : cell[w] \in [flag : BOOLEAN, val : Value \cup {NoValue}]
    BY <2>1 DEF Store, Sane, Cell
  <2>4. dead \subseteq Value /\ twice \in BOOLEAN /\ lost \in BOOLEAN
    BY <2>1, HeldFacts DEF Store
  <2>5. /\ \A i \in 1..Depth : stack[i].saved <= Count
        /\ \A i, j \in 1..Depth : i <= j => stack[i].saved <= stack[j].saved
    BY <2>1 DEF IInv, Skeleton, Saved
  <2>6. /\ deferStack \in Seq(Defer) /\ stack \in Seq(Frame) /\ pc \in Nat \ {0}
        /\ loc \in [slot : Slot, at : Nat]
    BY <2>1 DEF IInv, Skeleton, Typed, Where
  <2> QED  BY <2>1, <2>2, <2>3, <2>4, <2>5, <2>6 DEF TypeOK, Recorded
<1> QED  BY <1>1, <1>2, <1>3, PTL DEF Spec

\* The drops that emit_defers_down_to runs at every exit, guarded by the drop flags that
\* emit_move_invalidation clears, drop no value twice and none that was given away, in every
\* function, with any of the constructs that exits mishandle but redeclared names.
THEOREM DropsOnce ==
    ASSUME "shadow" \notin Risky
    PROVE  Spec => []NoDoubleDrop
<1>1. Init => MInv  BY MemoryInit
<1>2. MInv /\ [Next]_vars => MInv'  BY MemoryStep
<1>3. MInv => NoDoubleDrop  BY DEF MInv, Store, NoDoubleDrop
<1> QED  BY <1>1, <1>2, <1>3, PTL DEF Spec

\* No value is lost in a function without the constructs that exits mishandle, as long as fewer
\* than MAX_DEFER actions are pending when it defers another: the next drop would be
\* forgotten silently.
THEOREM DropsAll ==
    ASSUME Risky = {}
    PROVE  Spec /\ [](Count < MaxDefer) => []NothingLost
<1>0. "shadow" \notin Risky  OBVIOUS
<1>1. Init => MInv /\ Tight  BY MemoryInit
<1>2. MInv /\ Tight /\ Count < MaxDefer /\ [Next]_vars => MInv' /\ Tight'
  BY <1>0, MemoryStep DEF Clean
<1>3. Tight => NothingLost  BY DEF Tight, NothingLost
<1> QED  BY <1>1, <1>2, <1>3, PTL DEF Spec
=============================================================================
