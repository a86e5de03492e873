-------------------------- MODULE LspServer_proof --------------------------
(***************************************************************************)
(* What the language server points to is never given back, and an open     *)
(* document is always served with the editor's text: for any number of     *)
(* files, texts of any size, and rebuilds at any time.                      *)
(***************************************************************************)
EXTENDS LspServer, FiniteSetTheorems, TLAPS

(* The arena. *)

\* b is a after an allocation of n units.
Extends(a, b, n) ==
    /\ IsArena(b)
    /\ b.head \in 1..Len(b.blocks) /\ b.head >= a.head
    /\ \A i \in 1..a.head : b.blocks[i].used >= a.blocks[i].used
    /\ b.blocks[b.head].used = IF b.head = a.head THEN a.blocks[b.head].used + n ELSE n

\* The parts of a well-formed arena.
LEMMA ArenaParts ==
    ASSUME NEW a, IsArena(a)
    PROVE  /\ a.blocks \in Seq(Block) /\ Len(a.blocks) \in Nat
           /\ DOMAIN a.blocks = 1..Len(a.blocks)
           /\ a.head \in 0..Len(a.blocks)
           /\ \A i \in 1..Len(a.blocks) : /\ a.blocks[i] \in Block
                                          /\ a.blocks[i].capacity \in Nat
                                          /\ a.blocks[i].used \in Nat
                                          /\ a.blocks[i].used <= a.blocks[i].capacity
                                          /\ i > a.head => a.blocks[i].used = 0
<1>1. /\ a.blocks \in Seq(Block) /\ a.head \in Nat /\ a.head <= Len(a.blocks)
      /\ \A i \in DOMAIN a.blocks : /\ a.blocks[i].used <= a.blocks[i].capacity
                                    /\ i > a.head => a.blocks[i].used = 0
  BY DEF IsArena
<1>2. /\ Len(a.blocks) \in Nat /\ DOMAIN a.blocks = 1..Len(a.blocks)
      /\ \A i \in 1..Len(a.blocks) : a.blocks[i] \in Block
  BY <1>1
<1>3. a.head \in 0..Len(a.blocks)
  BY <1>1, <1>2
<1>4. \A x \in Block : x.capacity \in Nat /\ x.used \in Nat
  BY DEF Block
<1>5. ASSUME NEW i \in 1..Len(a.blocks)
      PROVE  /\ a.blocks[i] \in Block
             /\ a.blocks[i].capacity \in Nat /\ a.blocks[i].used \in Nat
             /\ a.blocks[i].used <= a.blocks[i].capacity
             /\ i > a.head => a.blocks[i].used = 0
  <2>1. a.blocks[i] \in Block
    BY <1>2
  <2>2. a.blocks[i].capacity \in Nat /\ a.blocks[i].used \in Nat
    BY <2>1, <1>4
  <2>3. i \in DOMAIN a.blocks
    BY <1>2
  <2>4. a.blocks[i].used <= a.blocks[i].capacity /\ (i > a.head => a.blocks[i].used = 0)
    BY <2>3, <1>1
  <2> QED
    BY <2>1, <2>2, <2>4
<1> QED
  BY <1>1, <1>2, <1>3, <1>5

\* A list of blocks, given block by block, is an arena.
WellFilled(f, m, h) ==
    \A i \in 1..m : f[i].used <= f[i].capacity /\ (i > h => f[i].used = 0)

\* Blocks that are filled in their order make an arena.
LEMMA MakeArena ==
    ASSUME NEW m \in Nat, NEW f \in [1..m -> Block], NEW h \in 0..m, WellFilled(f, m, h)
    PROVE  IsArena([blocks |-> f, head |-> h]) /\ Len(f) = m
<1>1. f \in Seq(Block) /\ Len(f) = m /\ DOMAIN f = 1..m
  OBVIOUS
<1> QED
  BY <1>1 DEF IsArena, WellFilled

\* Allocating in the head block disturbs nothing.
LEMMA UseHeadExtends ==
    ASSUME NEW a, IsArena(a), NEW n \in Nat, InHead(a, n)
    PROVE  Extends(a, UseHead(a, n), n)
<1> DEFINE f == [a.blocks EXCEPT ![a.head].used = @ + n]
           m == Len(a.blocks)
<1>1. /\ m \in Nat /\ a.blocks \in [1..m -> Block] /\ a.head \in 1..m
      /\ a \in [blocks : Seq(Block), head : Nat]
  BY ArenaParts DEF InHead, IsArena
<1>2. UseHead(a, n) = [blocks |-> f, head |-> a.head]
  BY DEF UseHead
<1>3. /\ f \in [1..m -> Block]
      /\ \A i \in 1..m : /\ f[i].capacity = a.blocks[i].capacity
                         /\ f[i].used = IF i = a.head THEN a.blocks[i].used + n
                                        ELSE a.blocks[i].used
  <2> DEFINE x == a.blocks[a.head]
  <2>1. x \in Block /\ x.used + n \in Nat
    BY <1>1, ArenaParts
  <2>2. [x EXCEPT !.used = @ + n] \in Block
    BY <2>1 DEF Block
  <2>3. /\ [x EXCEPT !.used = @ + n].capacity = x.capacity
        /\ [x EXCEPT !.used = @ + n].used = x.used + n
    BY <2>1 DEF Block
  <2>4. f = [a.blocks EXCEPT ![a.head] = [x EXCEPT !.used = @ + n]]
    OBVIOUS
  <2>5. f \in [1..m -> Block]
    BY <1>1, <2>2, <2>4
  <2>6. \A i \in 1..m : f[i] = IF i = a.head THEN [x EXCEPT !.used = @ + n] ELSE a.blocks[i]
    BY <1>1, <2>4
  <2> QED
    BY <2>3, <2>5, <2>6
<1> HIDE DEF f
<1>4. WellFilled(f, m, a.head)
  <2>1. ASSUME NEW i \in 1..m
        PROVE  f[i].used <= f[i].capacity /\ (i > a.head => f[i].used = 0)
    <3>1. /\ a.blocks[i].used <= a.blocks[i].capacity
          /\ i > a.head => a.blocks[i].used = 0
      BY ArenaParts
    <3>2. /\ f[i].capacity = a.blocks[i].capacity
          /\ f[i].used = IF i = a.head THEN a.blocks[i].used + n ELSE a.blocks[i].used
      BY <1>3
    <3>3. CASE i = a.head
      BY <1>1, <3>2, <3>3 DEF InHead
    <3>4. CASE i # a.head
      BY <3>1, <3>2, <3>4
    <3> QED
      BY <3>3, <3>4
  <2> QED
    BY <2>1 DEF WellFilled
<1>5. IsArena([blocks |-> f, head |-> a.head]) /\ Len(f) = m
  <2>1. /\ m \in Nat /\ a.head \in 0..m
        /\ f \in [1..m -> Block]
    BY <1>1, <1>3
  <2> QED
    BY <2>1, <1>4, MakeArena, Zenon
<1>6. ASSUME NEW i \in 1..a.head
      PROVE  f[i].used >= a.blocks[i].used
  <2>1. i \in 1..m /\ a.blocks[i].used \in Nat
    BY <1>1, ArenaParts
  <2>2. f[i].used = IF i = a.head THEN a.blocks[i].used + n ELSE a.blocks[i].used
    BY <1>3, <2>1
  <2> QED
    BY <2>1, <2>2
<1> QED
  BY <1>1, <1>2, <1>3, <1>5, <1>6 DEF Extends

\* Allocating in the next block, after a rewind, disturbs nothing below the mark.
LEMMA UseNextExtends ==
    ASSUME NEW a, IsArena(a), NEW n \in Nat, InNext(a, n)
    PROVE  Extends(a, UseNext(a, n), n)
<1> DEFINE f == [a.blocks EXCEPT ![a.head + 1].used = n]
           m == Len(a.blocks)
<1>1. /\ m \in Nat /\ a.blocks \in [1..m -> Block] /\ a.head \in 1..m - 1
      /\ n <= a.blocks[a.head + 1].capacity
  BY ArenaParts DEF InNext
<1>2. UseNext(a, n) = [blocks |-> f, head |-> a.head + 1]
  BY DEF UseNext
<1>3. /\ f \in [1..m -> Block]
      /\ \A i \in 1..m : /\ f[i].capacity = a.blocks[i].capacity
                         /\ f[i].used = IF i = a.head + 1 THEN n ELSE a.blocks[i].used
  BY <1>1 DEF Block
<1> HIDE DEF f
<1>4. WellFilled(f, m, a.head + 1)
  <2>1. ASSUME NEW i \in 1..m
        PROVE  f[i].used <= f[i].capacity /\ (i > a.head + 1 => f[i].used = 0)
    <3>1. CASE i = a.head + 1
      BY <3>1, <1>1, <1>3
    <3>2. CASE i # a.head + 1
      <4>1. /\ a.blocks[i].used <= a.blocks[i].capacity
            /\ i > a.head => a.blocks[i].used = 0
        BY ArenaParts
      <4> QED
        BY <4>1, <3>2, <1>1, <1>3
    <3> QED
      BY <3>1, <3>2
  <2> QED
    BY <2>1 DEF WellFilled
<1>5. IsArena([blocks |-> f, head |-> a.head + 1]) /\ Len(f) = m
  <2>1. a.head + 1 \in 0..m
    BY <1>1
  <2> QED
    BY <2>1, <1>1, <1>3, <1>4, MakeArena
<1>6. \A i \in 1..a.head : f[i].used >= a.blocks[i].used
  BY <1>1, <1>3, ArenaParts
<1> QED
  BY <1>1, <1>2, <1>3, <1>5, <1>6 DEF Extends

\* Allocating in a new block disturbs nothing.
LEMMA UseNewExtends ==
    ASSUME NEW a, IsArena(a), NEW n \in Nat
    PROVE  Extends(a, UseNew(a, n), n)
<1> DEFINE m == Len(a.blocks)
           f == [i \in 1..m + 1 |-> IF i <= a.head THEN a.blocks[i]
                                    ELSE IF i = a.head + 1 THEN NewBlock(a, n)
                                    ELSE a.blocks[i - 1]]
<1>1. m \in Nat /\ a.blocks \in [1..m -> Block] /\ a.head \in 0..m
  BY ArenaParts
<1>2. UseNew(a, n) = [blocks |-> f, head |-> a.head + 1]
  BY DEF UseNew
<1>3. /\ NewBlock(a, n) \in Block /\ NewBlock(a, n).used = n
      /\ n <= NewBlock(a, n).capacity
  <2> DEFINE twice == IF a.head = 0 THEN FirstBlock ELSE 2 * a.blocks[a.head].capacity
  <2>1. twice \in Nat
    BY <1>1, ArenaParts, FirstBlockAssumption
  <2>2. NewBlock(a, n) = [capacity |-> IF twice < n THEN n ELSE twice, used |-> n]
    BY DEF NewBlock
  <2> HIDE DEF twice
  <2> QED
    BY <2>1, <2>2 DEF Block
<1>4. f \in [1..m + 1 -> Block]
  BY <1>1, <1>3
<1>5. ASSUME NEW i \in 1..m + 1
      PROVE  /\ f[i].used <= f[i].capacity
             /\ i > a.head + 1 => f[i].used = 0
             /\ i <= a.head => f[i] = a.blocks[i]
             /\ i = a.head + 1 => f[i] = NewBlock(a, n)
  <2>1. CASE i <= a.head
    BY <2>1, <1>1, ArenaParts
  <2>2. CASE i = a.head + 1
    BY <2>2, <1>1, <1>3
  <2>3. CASE i > a.head + 1
    BY <2>3, <1>1, ArenaParts
  <2> QED
    BY <2>1, <2>2, <2>3, <1>1
<1> HIDE DEF f
<1>6. IsArena([blocks |-> f, head |-> a.head + 1]) /\ Len(f) = m + 1
  <2>1. a.head + 1 \in 0..m + 1 /\ m + 1 \in Nat
    BY <1>1
  <2>2. WellFilled(f, m + 1, a.head + 1)
    BY <1>5 DEF WellFilled
  <2> QED
    BY <2>1, <2>2, <1>4, MakeArena
<1>7. \A i \in 1..a.head : f[i].used >= a.blocks[i].used
  BY <1>1, <1>5, ArenaParts
<1>8. f[a.head + 1].used = n
  BY <1>1, <1>3, <1>5
<1> QED
  BY <1>1, <1>2, <1>6, <1>7, <1>8 DEF Extends

\* So an allocation never disturbs what lies below the end of the arena.
LEMMA AllocExtends ==
    ASSUME NEW a, IsArena(a), NEW n \in Nat
    PROVE  Extends(a, Alloc(a, n), n)
BY UseHeadExtends, UseNextExtends, UseNewExtends DEF Alloc

\* An allocation, of a parse or of anything else.
Piece == Ref \cup Parsed

\* A piece of memory has a place and a size.
LEMMA PieceIs == \A s \in Piece : s.block \in Nat /\ s.at \in Nat /\ s.size \in Nat
BY DEF Piece, Ref, Parsed

\* A new allocation is live and apart from all live ones, which stay live.
LEMMA AllocatedIs ==
    ASSUME NEW a, IsArena(a), NEW n \in Nat
    PROVE  /\ IsArena(Alloc(a, n)) /\ Alloc(a, n).head # 0
           /\ a.head # 0 => Alloc(a, n).blocks[1].used >= a.blocks[1].used
           /\ Allocated(a, n) \in Ref
           /\ Live(Alloc(a, n), Allocated(a, n))
           /\ \A s \in Piece : Live(a, s) => /\ Live(Alloc(a, n), s)
                                             /\ Apart(Allocated(a, n), s)
                                             /\ Apart(s, Allocated(a, n))
<1> DEFINE b == Alloc(a, n)
           r == Allocated(a, n)
<1>1. Extends(a, b, n)
  BY AllocExtends
<1>2. r = [block |-> b.head, at |-> b.blocks[b.head].used - n, size |-> n]
  BY DEF Allocated
<1> HIDE DEF b, r
<1>3. /\ IsArena(b) /\ b.head \in 1..Len(b.blocks) /\ b.head >= a.head
      /\ \A i \in 1..a.head : b.blocks[i].used >= a.blocks[i].used
      /\ b.blocks[b.head].used = IF b.head = a.head THEN a.blocks[b.head].used + n ELSE n
  BY <1>1 DEF Extends
<1>4. /\ a.head \in 0..Len(a.blocks) /\ Len(a.blocks) \in Nat
      /\ \A i \in 1..a.head : a.blocks[i].used \in Nat
  BY ArenaParts
<1>5. Len(b.blocks) \in Nat /\ \A i \in 1..b.head : b.blocks[i].used \in Nat
  BY <1>3, ArenaParts
<1>6. b.blocks[b.head].used - n \in Nat /\ b.head \in Nat
  BY <1>3, <1>4, <1>5
<1>7. /\ r \in Ref /\ r.block = b.head /\ r.size = n
      /\ r.at = b.blocks[b.head].used - n
  BY <1>2, <1>6 DEF Ref
<1>8. Live(b, r)
  BY <1>3, <1>5, <1>6, <1>7 DEF Live
<1>9. ASSUME NEW s \in Piece, Live(a, s)
      PROVE  Live(b, s) /\ Apart(r, s) /\ Apart(s, r)
  <2>1. /\ s.block \in 1..a.head /\ s.at + s.size <= a.blocks[s.block].used
        /\ s.at \in Nat /\ s.size \in Nat
    BY <1>9, PieceIs DEF Live
  <2>2. s.block \in 1..b.head /\ b.blocks[s.block].used >= a.blocks[s.block].used
        /\ b.blocks[s.block].used \in Nat /\ a.blocks[s.block].used \in Nat
    <3>1. s.block \in 1..b.head
      BY <2>1, <1>3, <1>4
    <3>2. b.blocks[s.block].used \in Nat /\ a.blocks[s.block].used \in Nat
      BY <2>1, <3>1, <1>4, <1>5
    <3>3. b.blocks[s.block].used >= a.blocks[s.block].used
      BY <2>1, <3>1, <3>2, <1>3
    <3> QED  BY <3>1, <3>2, <3>3
  <2>3. Live(b, s)
    BY <2>1, <2>2 DEF Live
  <2>4. s.block = r.block => s.at + s.size <= r.at
    BY <2>1, <2>2, <1>3, <1>4, <1>5, <1>7
  <2> QED
    BY <2>3, <2>4 DEF Apart
<1>10. a.head # 0 => b.blocks[1].used >= a.blocks[1].used
  BY <1>3, <1>4
<1>11. b.head # 0
  BY <1>3
<1> QED
  BY <1>3, <1>7, <1>8, <1>9, <1>10, <1>11 DEF b, r

\* Rewinding to a mark below what is used.
LEMMA RestoreIs ==
    ASSUME NEW a, IsArena(a), NEW m, m.block \in 1..Len(a.blocks), m.used \in Nat,
           m.used <= a.blocks[m.block].used
    PROVE  /\ IsArena(Restore(a, m)) /\ Restore(a, m).head = m.block
           /\ \A i \in 1..m.block : Restore(a, m).blocks[i].used =
                                      IF i = m.block THEN m.used ELSE a.blocks[i].used
<1> DEFINE k == Len(a.blocks)
           u(i) == IF i < m.block THEN a.blocks[i].used ELSE IF i = m.block THEN m.used ELSE 0
           f == [i \in 1..k |-> [a.blocks[i] EXCEPT !.used = u(i)]]
<1>1. /\ k \in Nat /\ DOMAIN a.blocks = 1..k /\ m.block \in 1..k
      /\ \A i \in 1..k : /\ a.blocks[i] \in Block
                         /\ a.blocks[i].capacity \in Nat /\ a.blocks[i].used \in Nat
                         /\ a.blocks[i].used <= a.blocks[i].capacity
  BY ArenaParts
<1>2. Restore(a, m) = [blocks |-> f, head |-> m.block]
  <2>1. \A i \in 1..k : [a.blocks[i] EXCEPT !.used = IF i < m.block THEN @
                                                     ELSE IF i = m.block THEN m.used ELSE 0]
                        = [a.blocks[i] EXCEPT !.used = u(i)]
    OBVIOUS
  <2>2. m.block # 0
    BY <1>1
  <2> QED
    BY <2>1, <2>2, <1>1 DEF Restore
<1>3. ASSUME NEW i \in 1..k
      PROVE  /\ f[i] \in Block /\ f[i].used = u(i)
             /\ f[i].used <= f[i].capacity /\ (i > m.block => f[i].used = 0)
  <2>1. a.blocks[i] \in Block /\ u(i) \in Nat /\ u(i) <= a.blocks[i].capacity
    BY <1>1
  <2>2. i > m.block => u(i) = 0
    BY <1>1
  <2> HIDE DEF u
  <2>3. f[i] = [a.blocks[i] EXCEPT !.used = u(i)]
    OBVIOUS
  <2> QED
    BY <2>1, <2>2, <2>3 DEF Block
<1>4. f \in [1..k -> Block]
  BY <1>3
<1>5. WellFilled(f, k, m.block)
  BY <1>3 DEF WellFilled
<1>6. \A i \in 1..m.block : f[i].used = IF i = m.block THEN m.used ELSE a.blocks[i].used
  BY <1>1, <1>3
<1> HIDE DEF f
<1>7. IsArena([blocks |-> f, head |-> m.block])
  <2>1. k \in Nat /\ m.block \in 0..k
    BY <1>1
  <2> HIDE DEF k
  <2> QED
    BY <2>1, <1>4, <1>5, MakeArena
<1> QED
  BY <1>2, <1>6, <1>7

----------------------------------------------------------------------------
(* Nothing dangles. *)

\* The mark of lsp_main, behind what is allocated before the loop.
LEMMA BaseMark ==
    /\ baseMark.block = 1 /\ baseMark.used = Base
    /\ IsArena(NewArena) /\ NewArena.head # 0
    /\ NewArena.head = 1 /\ NewArena.blocks[1].used = Base
<1>1. IsArena(Empty) /\ Empty.head = 0 /\ Len(Empty.blocks) = 0
  BY DEF Empty, IsArena
<1>2. Base \in Nat
  BY SizeAssumption
<1>3. ~InHead(Empty, Base) /\ ~InNext(Empty, Base)
  BY <1>1 DEF InHead, InNext
<1>4. NewArena = UseNew(Empty, Base)
  BY <1>3 DEF NewArena, Alloc
<1>5. NewBlock(Empty, Base).used = Base
  BY DEF NewBlock
<1>6. /\ UseNew(Empty, Base).head = 1
      /\ UseNew(Empty, Base).blocks[1] = NewBlock(Empty, Base)
  BY <1>1 DEF UseNew
<1>7. IsArena(NewArena)
  BY <1>1, <1>2, AllocatedIs DEF NewArena
<1> QED
  BY <1>4, <1>5, <1>6, <1>7 DEF baseMark, Save

\* The base of the compiler stays at the bottom of the arena, and a document that a rebuild
\* has yet to open again is a tracked one.
MemInv == /\ Typed
          /\ NothingDangles
          /\ arena.head # 0
          /\ Base <= arena.blocks[1].used
          /\ pc = "reopen" => todo \subseteq Documents

\* What the project points to are pieces.
LEMMA RetainedTyped == Typed => Retained \subseteq Piece
BY DEF Typed, Retained, Piece

\* Parsing a text keeps all that is retained, and the parse is apart from it.
LEMMA UpdateFileIs ==
    ASSUME MemInv, NEW p \in Path, NEW t \in Text, UpdateFile(p, t), project' = project
    PROVE  /\ IsArena(arena') /\ arena'.head # 0 /\ Base <= arena'.blocks[1].used
           /\ files' = [files EXCEPT ![p] = Parse(t)]
           /\ Parse(t) \in Parsed /\ Parse(t) # NoRef /\ Parse(t).text = t
           /\ files' \in [Path -> Parsed \cup {NoRef}]
           /\ traits' \in Parsed \cup {NoRef}
           /\ NothingDangles'
<1> DEFINE n == Size[t]
           r == Allocated(arena, n)
           x == Parse(t)
<1>1. IsArena(arena) /\ n \in Nat /\ arena.head # 0 /\ Base <= arena.blocks[1].used
  BY SizeAssumption DEF MemInv, Typed
<1>2. /\ IsArena(arena') /\ arena'.head # 0
      /\ arena'.blocks[1].used >= arena.blocks[1].used
      /\ r \in Ref /\ Live(arena', r)
      /\ \A s \in Piece : Live(arena, s) => /\ Live(arena', s) /\ Apart(r, s) /\ Apart(s, r)
  BY <1>1, AllocatedIs DEF UpdateFile
<1>3. Base <= arena'.blocks[1].used
  <2>1. /\ arena.blocks[1].used \in Nat /\ arena'.blocks[1].used \in Nat /\ Base \in Nat
    BY <1>1, <1>2, ArenaParts, SizeAssumption
  <2> QED
    BY <2>1, <1>1, <1>2
<1>4. x = [block |-> r.block, at |-> r.at, size |-> r.size, text |-> t]
  BY DEF Parse
<1> HIDE DEF r, x
<1>5. /\ x \in Parsed /\ x.text = t /\ x.block = r.block /\ x.at = r.at /\ x.size = r.size
  BY <1>2, <1>4 DEF Ref, Parsed
<1>6. x # NoRef
  BY <1>5, NoRefAssumption
<1>7. /\ Live(arena', x)
      /\ \A s \in Piece : Live(arena, s) => /\ Live(arena', s) /\ Apart(x, s) /\ Apart(s, x)
  BY <1>2, <1>5 DEF Live, Apart
<1>8. files \in [Path -> Parsed \cup {NoRef}] /\ traits \in Parsed \cup {NoRef}
  BY DEF MemInv, Typed
<1>9. files' = [files EXCEPT ![p] = x] /\ traits' \in {x, traits}
  BY DEF UpdateFile, x
<1>10. \A q \in Path : files'[q] = IF q = p THEN x ELSE files[q]
  BY <1>8, <1>9
<1>11. /\ files' \in [Path -> Parsed \cup {NoRef}] /\ traits' \in Parsed \cup {NoRef}
  BY <1>5, <1>8, <1>9
<1>12. Retained' \subseteq Retained \cup {x}
  BY <1>9, <1>10 DEF Retained
<1>13. \A s \in Retained : s \in Piece /\ Live(arena, s)
  BY RetainedTyped DEF MemInv, NothingDangles
<1>14. \A s \in Retained' : Live(arena', s)
  BY <1>7, <1>12, <1>13
<1>15. ASSUME NEW q \in Path, NEW s \in Retained', files'[q] # NoRef, s # files'[q]
       PROVE  Apart(files'[q], s)
  <2>1. CASE q = p
    BY <2>1, <1>7, <1>10, <1>12, <1>13, <1>15
  <2>2. CASE q # p
    <3>1. files'[q] = files[q] /\ files[q] \in Retained
      BY <2>2, <1>10, <1>15 DEF Retained
    <3>2. CASE s \in Retained
      BY <3>1, <3>2, <1>15 DEF MemInv, NothingDangles
    <3>3. CASE s = x
      BY <3>1, <3>3, <1>7, <1>13
    <3> QED
      BY <3>2, <3>3, <1>12
  <2> QED
    BY <2>1, <2>2
<1>16. NothingDangles'
  BY <1>14, <1>15 DEF NothingDangles
<1> QED
  BY <1>2, <1>3, <1>5, <1>6, <1>9, <1>11, <1>16 DEF x

\* A project made in the arena a, when nothing else is retained.
LEMMA FreshProject ==
    ASSUME NEW a, IsArena(a), a.head # 0, Base <= a.blocks[1].used, InitProject(a),
           files' = [p \in Path |-> NoRef], traits' = NoRef
    PROVE  /\ IsArena(arena') /\ arena'.head # 0 /\ Base <= arena'.blocks[1].used
           /\ project' \in Ref /\ NothingDangles'
<1>1. /\ IsArena(arena') /\ arena'.head # 0
      /\ arena'.blocks[1].used >= a.blocks[1].used
      /\ project' \in Ref /\ Live(arena', project')
  BY AllocatedIs DEF InitProject
<1>2. Base <= arena'.blocks[1].used
  <2>1. a.blocks[1].used \in Nat /\ arena'.blocks[1].used \in Nat /\ Base \in Nat
    BY <1>1, ArenaParts, SizeAssumption
  <2> QED
    BY <2>1, <1>1
<1>3. Retained' \subseteq {project'}
  BY DEF Retained
<1>4. NothingDangles'
  BY <1>1, <1>3 DEF NothingDangles
<1> QED
  BY <1>1, <1>2, <1>4

\* The invariant of the memory at the start.
LEMMA MemInit == Init => MemInv
<1> SUFFICES ASSUME Init PROVE MemInv
  OBVIOUS
<1>1. Typed
  BY BaseMark DEF Init, Typed, MaybeText
<1>2. Retained = {}
  BY DEF Init, Retained
<1>3. NothingDangles
  BY <1>2 DEF NothingDangles
<1>4. arena.head # 0 /\ Base <= arena.blocks[1].used
  BY BaseMark, SizeAssumption DEF Init
<1>5. pc # "reopen"
  BY DEF Init
<1> QED
  BY <1>1, <1>3, <1>4, <1>5 DEF MemInv

\* The arena and what is retained of it are only changed by five steps.
LEMMA MemFrame ==
    ASSUME MemInv, UNCHANGED <<arena, project, files, traits>>
    PROVE  NothingDangles' /\ arena'.head # 0 /\ Base <= arena'.blocks[1].used
<1>1. Retained' = Retained
  BY DEF Retained
<1> QED
  BY <1>1 DEF MemInv, NothingDangles, Live

\* A read-only request rewinds to where it began.
LEMMA ReadOnlyMem ==
    ASSUME MemInv, NEW n \in Scratch, ReadOnly(n)
    PROVE  MemInv'
<1> DEFINE b == Alloc(arena, n)
           m == Save(arena)
<1>1. /\ IsArena(arena) /\ n \in Nat /\ arena.head # 0 /\ Base <= arena.blocks[1].used
      /\ Base \in Nat
  BY SizeAssumption DEF MemInv, Typed
<1>2. Extends(arena, b, n)
  BY <1>1, AllocExtends
<1>3. /\ arena.head \in 1..Len(arena.blocks) /\ Len(arena.blocks) \in Nat
      /\ \A i \in 1..Len(arena.blocks) : arena.blocks[i].used \in Nat
  BY <1>1, ArenaParts
<1>4. m.block = arena.head /\ m.used = arena.blocks[arena.head].used
  BY <1>1 DEF Save
<1> HIDE DEF b, m
<1>5. /\ IsArena(b) /\ b.head \in 1..Len(b.blocks) /\ b.head >= arena.head
      /\ \A i \in 1..arena.head : b.blocks[i].used >= arena.blocks[i].used
  BY <1>2 DEF Extends
<1>6. /\ Len(b.blocks) \in Nat
      /\ \A i \in 1..Len(b.blocks) : b.blocks[i].used \in Nat
  BY <1>5, ArenaParts
<1>7. /\ arena.head \in 1..Len(b.blocks)
      /\ \A i \in 1..arena.head : arena.blocks[i].used \in Nat /\ b.blocks[i].used \in Nat
  BY <1>3, <1>5, <1>6
<1>8. m.block \in 1..Len(b.blocks) /\ m.used \in Nat /\ m.used <= b.blocks[m.block].used
  <2>1. b.blocks[arena.head].used >= arena.blocks[arena.head].used
    <3>1. arena.head \in 1..arena.head
      BY <1>3
    <3> QED
      BY <1>5, <3>1, Zenon
  <2>2. arena.blocks[arena.head].used \in Nat /\ b.blocks[arena.head].used \in Nat
    <3>1. arena.head \in 1..arena.head
      BY <1>3
    <3> QED
      BY <1>7, <3>1, Zenon
  <2>3. m.used \in Nat /\ m.used <= b.blocks[m.block].used
    BY <1>4, <2>1, <2>2
  <2> QED
    BY <1>4, <1>7, <2>3
<1>9. arena' = Restore(b, m)
  BY DEF ReadOnly, Answered, b, m
<1>10. /\ IsArena(arena') /\ arena'.head = arena.head
       /\ \A i \in 1..arena.head : arena'.blocks[i].used =
                   IF i = arena.head THEN arena.blocks[i].used ELSE b.blocks[i].used
  BY <1>4, <1>5, <1>8, <1>9, RestoreIs
<1>11. \A i \in 1..arena.head : /\ arena'.blocks[i].used >= arena.blocks[i].used
                                /\ arena'.blocks[i].used \in Nat
  <2> TAKE i \in 1..arena.head
  <2>1. /\ arena.blocks[i].used \in Nat /\ b.blocks[i].used \in Nat
        /\ b.blocks[i].used >= arena.blocks[i].used
    BY <1>5, <1>7
  <2>2. arena'.blocks[i].used \in {arena.blocks[i].used, b.blocks[i].used}
    BY <1>10
  <2> QED
    BY <2>1, <2>2
<1>12. Base <= arena'.blocks[1].used
  BY <1>1, <1>3, <1>11
<1>13. \A s \in Piece : Live(arena, s) => Live(arena', s)
  <2>1. ASSUME NEW s \in Piece, Live(arena, s)
        PROVE  Live(arena', s)
    <3>1. /\ s.block \in 1..arena.head /\ s.at + s.size <= arena.blocks[s.block].used
          /\ s.at \in Nat /\ s.size \in Nat
      BY <2>1, PieceIs DEF Live
    <3> QED
      <4>1. /\ arena'.blocks[s.block].used >= arena.blocks[s.block].used
            /\ arena'.blocks[s.block].used \in Nat /\ arena.blocks[s.block].used \in Nat
        BY <3>1, <1>11, <1>7
      <4>2. s.at + s.size <= arena'.blocks[s.block].used
        BY <3>1, <4>1
      <4> QED
        BY <3>1, <4>2, <1>10 DEF Live
  <2> QED
    BY <2>1
<1>14. Retained' \subseteq Retained
  BY DEF ReadOnly, Retained
<1>15. NothingDangles'
  <2>1. \A s \in Retained' : Live(arena', s)
    BY <1>13, <1>14, RetainedTyped DEF MemInv, NothingDangles
  <2>2. files' = files
    BY DEF ReadOnly
  <2> QED
    BY <2>1, <2>2, <1>14 DEF MemInv, NothingDangles
<1>16. Typed' /\ pc' # "reopen"
  BY <1>10 DEF MemInv, Typed, ReadOnly
<1> QED
  BY <1>1, <1>10, <1>12, <1>15, <1>16 DEF MemInv

\* A rebuild rewinds to the mark of lsp_main and forgets the files and the traits.
LEMMA RebuildMem ==
    ASSUME MemInv, Rebuild
    PROVE  MemInv'
<1> DEFINE a == Restore(arena, baseMark)
<1>1. /\ IsArena(arena) /\ arena.head # 0 /\ Base <= arena.blocks[1].used
      /\ Base \in Nat
  BY SizeAssumption DEF MemInv, Typed
<1>2. /\ baseMark.block \in 1..Len(arena.blocks) /\ baseMark.used \in Nat
      /\ baseMark.used <= arena.blocks[baseMark.block].used
  BY <1>1, BaseMark, ArenaParts
<1>3. /\ IsArena(a) /\ a.head = baseMark.block
      /\ \A i \in 1..baseMark.block : a.blocks[i].used =
                   IF i = baseMark.block THEN baseMark.used ELSE arena.blocks[i].used
  BY <1>1, <1>2, RestoreIs
<1>4. a.head # 0 /\ Base <= a.blocks[1].used
  BY <1>1, <1>3, BaseMark
<1>5. InitProject(a) /\ files' = [p \in Path |-> NoRef] /\ traits' = NoRef
  BY DEF Rebuild
<1> HIDE DEF a
<1>6. /\ IsArena(arena') /\ arena'.head # 0 /\ Base <= arena'.blocks[1].used
      /\ project' \in Ref /\ NothingDangles'
  BY <1>3, <1>4, <1>5, FreshProject
<1>7. /\ todo' \subseteq Path /\ pc' \in {"rescan", "reopen"}
      /\ pc' = "reopen" => todo' = Documents'
  BY DEF Rebuild, Documents
<1>8. Typed'
  BY <1>5, <1>6, <1>7 DEF MemInv, Typed, Rebuild
<1> QED
  BY <1>6, <1>7, <1>8 DEF MemInv

\* The steps that parse at most one text.
LEMMA ParsingMem ==
    ASSUME MemInv, NEW p \in Path,
           \/ \E t \in Text : DidEdit(p, t)
           \/ DidClose(p) \/ ScanFile(p) \/ Reopen(p)
    PROVE  MemInv'
<1>1. ASSUME NEW t \in Text, UpdateFile(p, t), project' = project,
             disk' = disk, indexed' = indexed, editor' \in [Path -> MaybeText],
             tracked' \in [Path -> MaybeText], diags' \in [Path -> MaybeText],
             pc' \in {"scan", "done", "rescan", "reopen"}, todo' \subseteq Path,
             stale' \subseteq Path,
             pc' = "reopen" => todo' \subseteq Documents'
      PROVE  MemInv'
  <2>1. /\ IsArena(arena') /\ arena'.head # 0 /\ Base <= arena'.blocks[1].used
        /\ files' \in [Path -> Parsed \cup {NoRef}]
        /\ traits' \in Parsed \cup {NoRef}
        /\ NothingDangles'
    BY <1>1, UpdateFileIs
  <2>2. Typed'
    BY <1>1, <2>1 DEF MemInv, Typed
  <2> QED
    BY <1>1, <2>1, <2>2 DEF MemInv
<1>2. ASSUME UNCHANGED <<arena, project, files, traits>>,
             disk' = disk, indexed' = indexed, editor' \in [Path -> MaybeText],
             tracked' \in [Path -> MaybeText], diags' \in [Path -> MaybeText],
             pc' \in {"scan", "done", "rescan"}, todo' \subseteq Path, stale' \subseteq Path
      PROVE  MemInv'
  <2>1. Typed'
    BY <1>2 DEF MemInv, Typed
  <2> QED
    BY <1>2, <2>1, MemFrame DEF MemInv
<1>3. ASSUME NEW t \in Text, DidEdit(p, t)
      PROVE  MemInv'
  <2>1. /\ UpdateFile(p, t) /\ project' = project /\ disk' = disk /\ indexed' = indexed
        /\ pc' = "done" /\ todo' \subseteq Path /\ stale' \subseteq Path
        /\ editor' \in [Path -> MaybeText] /\ diags' \in [Path -> MaybeText]
        /\ tracked' \in [Path -> MaybeText]
    BY <1>3 DEF DidEdit, TrackDocument, MemInv, Typed, MaybeText
  <2> QED
    BY <1>1, <2>1
<1>4. CASE DidClose(p)
  <2>1. /\ project' = project /\ disk' = disk /\ indexed' = indexed
        /\ pc' = "done" /\ todo' \subseteq Path /\ stale' \subseteq Path
        /\ editor' \in [Path -> MaybeText] /\ diags' \in [Path -> MaybeText]
        /\ tracked' \in [Path -> MaybeText]
    BY <1>4 DEF DidClose, UntrackDocument, MemInv, Typed, MaybeText
  <2>2. CASE p \notin Encoded /\ files[p] # NoRef /\ disk[p] # NoText
    <3>1. disk[p] \in Text /\ UpdateFile(p, disk[p])
      BY <1>4, <2>2 DEF DidClose, MemInv, Typed, MaybeText
    <3> QED
      BY <1>1, <2>1, <3>1
  <2>3. CASE ~(p \notin Encoded /\ files[p] # NoRef /\ disk[p] # NoText)
    <3>1. UNCHANGED <<arena, project, files, traits>>
      BY <1>4, <2>3 DEF DidClose
    <3> QED
      BY <1>2, <2>1, <3>1
  <2> QED
    BY <2>2, <2>3
<1>5. CASE ScanFile(p)
  <2>1. /\ project' = project /\ disk' = disk /\ indexed' = indexed
        /\ pc' \in {"scan", "rescan"} /\ todo' \subseteq Path /\ stale' \subseteq Path
        /\ editor' \in [Path -> MaybeText] /\ diags' \in [Path -> MaybeText]
        /\ tracked' \in [Path -> MaybeText]
    BY <1>5 DEF ScanFile, MemInv, Typed
  <2>2. CASE files[p] = NoRef /\ disk[p] # NoText
    <3>1. disk[p] \in Text /\ UpdateFile(p, disk[p])
      BY <1>5, <2>2 DEF ScanFile, MemInv, Typed, MaybeText
    <3> QED
      BY <1>1, <2>1, <3>1
  <2>3. CASE ~(files[p] = NoRef /\ disk[p] # NoText)
    <3>1. UNCHANGED <<arena, project, files, traits>>
      BY <1>5, <2>3 DEF ScanFile
    <3> QED
      BY <1>2, <2>1, <3>1
  <2> QED
    BY <2>2, <2>3
<1>6. CASE Reopen(p)
  <2>1. /\ UpdateFile(p, tracked[p]) /\ project' = project /\ disk' = disk /\ indexed' = indexed
        /\ pc' = "reopen" /\ todo' \subseteq Path /\ stale' \subseteq Path
        /\ editor' \in [Path -> MaybeText] /\ diags' \in [Path -> MaybeText]
        /\ tracked' \in [Path -> MaybeText]
    BY <1>6 DEF Reopen, MemInv, Typed
  <2>2. tracked[p] \in Text /\ todo' \subseteq Documents'
    BY <1>6 DEF Reopen, MemInv, Typed, MaybeText, Documents
  <2> QED
    BY <1>1, <2>1, <2>2
<1> QED
  BY <1>3, <1>4, <1>5, <1>6

\* Every step keeps the memory in order.
LEMMA MemNext == MemInv /\ [Next]_vars => MemInv'
<1> SUFFICES ASSUME MemInv, [Next]_vars PROVE MemInv'
  OBVIOUS
<1>1. ASSUME UNCHANGED <<arena, project, files, traits>>, Typed',
             pc' = "reopen" => todo' \subseteq Documents'
      PROVE  MemInv'
  BY <1>1, MemFrame DEF MemInv
<1>2. CASE Initialize
  <2>1. IsArena(arena) /\ arena.head # 0 /\ Base <= arena.blocks[1].used /\ Base \in Nat
    BY SizeAssumption DEF MemInv, Typed
  <2>2. /\ IsArena(arena') /\ arena'.head # 0
        /\ arena'.blocks[1].used >= arena.blocks[1].used
        /\ project' \in Ref /\ Live(arena', project')
        /\ \A s \in Piece : Live(arena, s) => /\ Live(arena', s)
                                              /\ Apart(project', s) /\ Apart(s, project')
    BY <1>2, <2>1, AllocatedIs DEF Initialize, InitProject
  <2>3. Base <= arena'.blocks[1].used
    <3>1. arena.blocks[1].used \in Nat /\ arena'.blocks[1].used \in Nat
      BY <2>1, <2>2, ArenaParts
    <3> QED
      BY <3>1, <2>1, <2>2
  <2>4. files' = files /\ traits' = traits
    BY <1>2 DEF Initialize
  <2>5. Retained' \subseteq Retained \cup {project'}
    BY <2>4 DEF Retained
  <2>6. \A s \in Retained : s \in Piece /\ Live(arena, s)
    BY RetainedTyped DEF MemInv, NothingDangles
  <2>7. ASSUME NEW q \in Path, NEW s \in Retained', files[q] # NoRef, s # files[q]
        PROVE  Apart(files[q], s)
    <3>1. files[q] \in Retained
      BY <2>7 DEF Retained
    <3> QED
      BY <2>2, <2>5, <2>6, <2>7, <3>1 DEF MemInv, NothingDangles
  <2>8. NothingDangles'
    BY <2>2, <2>4, <2>5, <2>6, <2>7 DEF NothingDangles
  <2>9. Typed' /\ pc' # "reopen"
    BY <1>2, <2>2 DEF MemInv, Typed, Initialize
  <2> QED
    BY <2>2, <2>3, <2>8, <2>9 DEF MemInv
<1>3. CASE Initialized
  <2>1. Typed' /\ pc' # "reopen" /\ UNCHANGED <<arena, project, files, traits>>
    BY <1>3 DEF MemInv, Typed, Initialized, server
  <2> QED
    BY <1>1, <2>1
<1>4. CASE Exit \/ Keep
  <2>1. Typed' /\ pc' # "reopen" /\ UNCHANGED <<arena, project, files, traits>>
    BY <1>4 DEF MemInv, Typed, Exit, Keep, server
  <2> QED
    BY <1>1, <2>1
<1>5. CASE ScanEnds
  <2>1. /\ UNCHANGED <<arena, project, files, traits>>
        /\ tracked' = tracked /\ pc' \in {"done", "reopen"} /\ todo' \in {Documents, todo}
        /\ pc' = "reopen" => todo' = Documents
    BY <1>5 DEF ScanEnds
  <2>2. Typed' /\ Documents' = Documents
    BY <1>5, <2>1 DEF MemInv, Typed, ScanEnds, Documents
  <2> QED
    BY <1>1, <2>1, <2>2
<1>6. CASE RebuildEnds
  <2>1. Typed' /\ pc' # "reopen" /\ UNCHANGED <<arena, project, files, traits>>
    BY <1>6 DEF MemInv, Typed, RebuildEnds
  <2> QED
    BY <1>1, <2>1
<1>7. CASE \E p \in Path, t \in MaybeText : Store(p, t)
  <2>1. Typed' /\ UNCHANGED <<arena, project, files, traits>>
    BY <1>7 DEF MemInv, Typed, Store, server
  <2>2. pc' = pc /\ todo' = todo /\ Documents' = Documents
    BY <1>7 DEF Store, server, Documents
  <2> QED
    BY <1>1, <2>1, <2>2 DEF MemInv
<1>8. CASE UNCHANGED vars
  <2>1. Typed' /\ UNCHANGED <<arena, project, files, traits>>
    BY <1>8 DEF MemInv, Typed, vars, server
  <2>2. pc' = pc /\ todo' = todo /\ Documents' = Documents
    BY <1>8 DEF vars, server, Documents
  <2> QED
    BY <1>1, <2>1, <2>2 DEF MemInv
<1> QED
  BY <1>2, <1>3, <1>4, <1>5, <1>6, <1>7, <1>8, ReadOnlyMem, RebuildMem, ParsingMem
     DEF Next, Server

\* Nothing the server still points to is ever given back, nor allocated over: rewinding
\* after a read-only request (lsp_main) keeps all that the request did not allocate, and a
\* rebuild forgets all that it gives back.
THEOREM LiveStaysLive == Spec => []NothingDangles
<1>1. MemInv => NothingDangles
  BY DEF MemInv
<1> QED
  BY <1>1, MemInit, MemNext, PTL DEF Spec

----------------------------------------------------------------------------
(* What the arena has handed out is a number.  The sum over its blocks is a recursion over     *)
(* sets; that it has a value, and one of the right type, is shown by induction on their sizes. *)

\* Induction over the numbers of a set, from the least number that it lacks.
LEMMA SetInduction ==
    ASSUME NEW T, 0 \in T, \A n \in Nat : n \in T => n + 1 \in T
    PROVE  Nat \subseteq T
<1> DEFINE R == OpToRel(<, Nat)
           U == Nat \ T
<1>1. IsWellFoundedOn(R, Nat)
    BY NatLessThanWellFounded
<1>2. ASSUME U # {} PROVE FALSE
    <2>1. U \subseteq Nat
        OBVIOUS
    <2> HIDE DEF R
    <2>2. PICK m \in U : \A y \in U : ~(<<y, m>> \in R)
        <3> HIDE DEF U
        <3> QED BY <1>1, <1>2, <2>1, WFMin
    <2>3. m \in Nat /\ m # 0 /\ m - 1 \in Nat
        OBVIOUS
    <2>4. m - 1 \in U
        BY <2>2, <2>3
    <2>5. <<m - 1, m>> \in R
        BY <2>3 DEF R, OpToRel
    <2> QED
        BY <2>2, <2>4, <2>5
<1> QED BY <1>2

\* The item that a sum over s takes first, and the sum itself when g sums over smaller sets.
One(s) == CHOOSE x \in s : TRUE
Plus(f, g, s) == IF s = {} THEN 0 ELSE f[One(s)] + g[s \ {One(s)}]

\* g sums over every subset of S.
IsSum(f, S, g) == g = [s \in SUBSET S |-> Plus(f, g, s)]

\* SumFunctionOnSet is that recursion, provided that it defines something.
LEMMA SumIs ==
    ASSUME NEW f, NEW S, \E g : IsSum(f, S, g)
    PROVE  \E g : IsSum(f, S, g) /\ SumFunctionOnSet(f, S) = g[S]
<1> DEFINE iter == CHOOSE g : IsSum(f, S, g)
<1>1. IsSum(f, S, iter)
    OBVIOUS
<1>2. SumFunctionOnSet(f, S) = iter[S]
    BY DEF SumFunctionOnSet, FoldFunctionOnSet, MapThenFoldSet, IsSum, Plus, One
<1> QED
    BY <1>1, <1>2


\* The recursion goes down to sets of one element less.
LEMMA OneIs ==
    ASSUME NEW S, IsFiniteSet(S), NEW s \in SUBSET S, s # {}
    PROVE  /\ One(s) \in s /\ s \ {One(s)} \in SUBSET S
           /\ Cardinality(s) \in Nat /\ Cardinality(s) # 0
           /\ Cardinality(s \ {One(s)}) = Cardinality(s) - 1
<1>1. One(s) \in s
    BY DEF One
<1>2. IsFiniteSet(s)
    BY FS_Subset
<1>3. Cardinality(s) \in Nat /\ Cardinality(s) # 0
    BY <1>2, FS_CardinalityType, FS_EmptySet
<1>4. Cardinality(s \ {One(s)}) = Cardinality(s) - 1
    BY <1>1, <1>2, FS_RemoveElement
<1> QED
    BY <1>1, <1>3, <1>4

\* g sums over the sets of at most n elements.
SumsUpTo(f, S, n, g) ==
    /\ g \in [SUBSET S -> Nat]
    /\ \A s \in SUBSET S : Cardinality(s) <= n => g[s] = Plus(f, g, s)

\* It defines something: by induction on the size of the sets.
LEMMA SumUpTo ==
    ASSUME NEW S, IsFiniteSet(S), NEW f \in [S -> Nat], NEW n \in Nat
    PROVE  \E g : SumsUpTo(f, S, n, g)
<1> DEFINE T == {m \in Nat : \E g : SumsUpTo(f, S, m, g)}
<1>1. 0 \in T
    <2> DEFINE g == [s \in SUBSET S |-> 0]
    <2>1. ASSUME NEW s \in SUBSET S, Cardinality(s) <= 0
          PROVE  g[s] = Plus(f, g, s)
        <3>1. s = {}
            <4> SUFFICES ASSUME s # {} PROVE FALSE
                OBVIOUS
            <4>1. Cardinality(s) \in Nat /\ Cardinality(s) # 0
                BY OneIs
            <4> QED
                BY <2>1, <4>1
        <3> QED
            BY <3>1 DEF Plus
    <2>2. SumsUpTo(f, S, 0, g)
        BY <2>1 DEF SumsUpTo
    <2> QED
        BY <2>2
<1>2. ASSUME NEW m \in Nat, m \in T
      PROVE  m + 1 \in T
    <2>1. PICK g : SumsUpTo(f, S, m, g)
        BY <1>2
    <2> DEFINE h == [s \in SUBSET S |-> IF Cardinality(s) <= m THEN g[s] ELSE Plus(f, g, s)]
    <2>2. g \in [SUBSET S -> Nat] /\ \A s \in SUBSET S : Cardinality(s) <= m => g[s] = Plus(f, g, s)
        BY <2>1 DEF SumsUpTo
    <2>3. ASSUME NEW s \in SUBSET S
          PROVE  Plus(f, g, s) \in Nat
        <3>1. CASE s = {}
            BY <3>1 DEF Plus
        <3>2. CASE s # {}
            <4>1. f[One(s)] \in Nat /\ g[s \ {One(s)}] \in Nat
                BY <2>2, <3>2, OneIs
            <4> QED
                BY <3>2, <4>1 DEF Plus
        <3> QED
            BY <3>1, <3>2
    <2>4. h \in [SUBSET S -> Nat]
        BY <2>2, <2>3
    <2>5. ASSUME NEW s \in SUBSET S, Cardinality(s) <= m + 1
          PROVE  h[s] = Plus(f, h, s)
        <3>1. h[s] = Plus(f, g, s)
            BY <2>2
        <3>2. CASE s = {}
            BY <3>1, <3>2 DEF Plus
        <3>3. CASE s # {}
            <4> DEFINE r == s \ {One(s)}
            <4>1. r \in SUBSET S /\ Cardinality(r) <= m
                BY <2>5, <3>3, OneIs
            <4>2. h[r] = g[r]
                BY <4>1
            <4> HIDE DEF h
            <4> QED
                BY <3>1, <3>3, <4>2 DEF Plus
        <3> QED
            BY <3>2, <3>3
    <2> HIDE DEF h
    <2>6. SumsUpTo(f, S, m + 1, h)
        BY <2>4, <2>5 DEF SumsUpTo
    <2> QED
        BY <2>6
<1> HIDE DEF T
<1>3. Nat \subseteq T
    BY <1>1, <1>2, SetInduction
<1> QED
    BY <1>3 DEF T

\* Numbers of a finite set of places have a sum.
LEMMA SumHasValue ==
    ASSUME NEW S, IsFiniteSet(S), NEW f \in [S -> Nat]
    PROVE  \E g : IsSum(f, S, g)
<1>1. Cardinality(S) \in Nat
    BY FS_CardinalityType
<1>2. PICK g : SumsUpTo(f, S, Cardinality(S), g)
    BY <1>1, SumUpTo
<1>3. \A s \in SUBSET S : Cardinality(s) <= Cardinality(S)
    BY FS_Subset
<1>4. g \in [SUBSET S -> Nat] /\ \A s \in SUBSET S : g[s] = Plus(f, g, s)
    BY <1>2, <1>3 DEF SumsUpTo
<1>5. IsSum(f, S, g)
    BY <1>4 DEF IsSum
<1> QED
    BY <1>5

\* The sum of natural numbers is one.
LEMMA SumType ==
    ASSUME NEW S, IsFiniteSet(S), NEW f \in [S -> Nat]
    PROVE  SumFunctionOnSet(f, S) \in Nat
<1>1. \E g : IsSum(f, S, g)
    BY SumHasValue
<1>2. PICK g : IsSum(f, S, g) /\ SumFunctionOnSet(f, S) = g[S]
    BY <1>1, SumIs
<1> DEFINE T == {n \in Nat : \A s \in SUBSET S : Cardinality(s) = n => g[s] \in Nat}
<1>3. \A s \in SUBSET S : g[s] = Plus(f, g, s)
    BY <1>2 DEF IsSum
<1>4. 0 \in T
    <2>1. ASSUME NEW s \in SUBSET S, Cardinality(s) = 0
          PROVE  g[s] \in Nat
        <3>1. s = {}
            <4>1. IsFiniteSet(s)
                BY FS_Subset
            <4> QED
                BY <2>1, <4>1, FS_EmptySet
        <3>2. Plus(f, g, s) = 0
            BY <3>1 DEF Plus
        <3>3. g[s] = Plus(f, g, s)
            BY <1>3
        <3> QED
            BY <3>2, <3>3
    <2> QED
        BY <2>1
<1>5. ASSUME NEW n \in Nat, n \in T
      PROVE  n + 1 \in T
    <2>1. ASSUME NEW s \in SUBSET S, Cardinality(s) = n + 1
          PROVE  g[s] \in Nat
        <3>1. s # {}
            BY <2>1, FS_EmptySet
        <3>2. One(s) \in S /\ s \ {One(s)} \in SUBSET S /\ Cardinality(s \ {One(s)}) = n
            BY <2>1, <3>1, OneIs
        <3>3. g[s \ {One(s)}] \in Nat /\ f[One(s)] \in Nat
            BY <1>5, <3>2
        <3>4. g[s] = f[One(s)] + g[s \ {One(s)}]
            BY <1>3, <3>1 DEF Plus
        <3> QED
            BY <3>3, <3>4
    <2> QED
        BY <2>1
<1> HIDE DEF T
<1>6. Nat \subseteq T
    BY <1>4, <1>5, SetInduction
<1>7. Cardinality(S) \in Nat /\ S \in SUBSET S
    BY FS_CardinalityType
<1>8. g[S] \in Nat
    BY <1>6, <1>7 DEF T
<1> QED
    BY <1>2, <1>8

\* The blocks up to one are finitely many.
LEMMA BlocksFinite ==
    ASSUME NEW n \in Nat
    PROVE  IsFiniteSet(1..n)
<1>1. 1 \in Int /\ n \in Int
  OBVIOUS
<1>2. IsFiniteSet(1..n) /\ Cardinality(1..n) = IF 1 > n THEN 0 ELSE n - 1 + 1
  BY <1>1, FS_Interval
<1> QED
  BY <1>2

\* The sum over one block is what the block holds.
LEMMA SumOne ==
    ASSUME NEW f \in [1..1 -> Nat]
    PROVE  SumFunctionOnSet(f, 1..1) = f[1]
<1>1. IsFiniteSet(1..1)
  BY BlocksFinite
<1>2. PICK g : IsSum(f, 1..1, g) /\ SumFunctionOnSet(f, 1..1) = g[1..1]
  BY <1>1, SumHasValue, SumIs
<1>3. One(1..1) = 1 /\ (1..1) \ {1} = {} /\ 1..1 # {}
  BY DEF One
<1>4. Plus(f, g, {}) = 0
  BY DEF Plus
<1>5. g[{}] = 0
  BY <1>2, <1>4 DEF IsSum
<1>6. Plus(f, g, 1..1) = f[1] + 0
  BY <1>3, <1>5 DEF Plus
<1>7. g[1..1] = f[1]
  BY <1>2, <1>6 DEF IsSum
<1> QED
  BY <1>2, <1>7

\* The units in use are a number.
LEMMA TotalType ==
    ASSUME NEW a, IsArena(a)
    PROVE  Total(a) \in Nat
<1> DEFINE f == [i \in 1..a.head |-> a.blocks[i].used]
<1>1. a.head \in 0..Len(a.blocks) /\ Len(a.blocks) \in Nat
      /\ \A i \in 1..Len(a.blocks) : a.blocks[i].used \in Nat
  BY ArenaParts
<1>2. f \in [1..a.head -> Nat] /\ DOMAIN f = 1..a.head /\ IsFiniteSet(1..a.head)
  BY <1>1, BlocksFinite
<1>3. Total(a) = SumFunctionOnSet(f, 1..a.head)
  BY <1>2 DEF Total, SumFunction
<1> HIDE DEF f
<1> QED
  BY <1>2, <1>3, SumType

\* They depend on nothing but the blocks up to the head.
LEMMA TotalSame ==
    ASSUME NEW a, NEW b, a.head = b.head, \A i \in 1..a.head : a.blocks[i].used = b.blocks[i].used
    PROVE  Total(a) = Total(b)
<1>1. [i \in 1..a.head |-> a.blocks[i].used] = [i \in 1..b.head |-> b.blocks[i].used]
  OBVIOUS
<1> QED
  BY <1>1 DEF Total

\* An arena that was rewound to the mark of lsp_main holds what it held there.
LEMMA TotalBase == Total(NewArena) = Base
<1> DEFINE f == [i \in 1..1 |-> NewArena.blocks[i].used]
<1>1. NewArena.head = 1 /\ NewArena.blocks[1].used = Base /\ Base \in Nat
  BY BaseMark, SizeAssumption
<1>2. f \in [1..1 -> Nat] /\ DOMAIN f = 1..1 /\ f[1] = Base
  BY <1>1
<1>3. Total(NewArena) = SumFunctionOnSet(f, 1..1)
  BY <1>1, <1>2 DEF Total, SumFunction
<1> HIDE DEF f
<1> QED
  BY <1>2, <1>3, SumOne

\* An allocation leaves the blocks below the head as they are.
LEMMA AllocBelow ==
    ASSUME NEW a, IsArena(a), NEW n \in Nat, NEW i \in 1..a.head, i # a.head
    PROVE  Alloc(a, n).blocks[i].used = a.blocks[i].used
<1>1. /\ a.head \in 0..Len(a.blocks) /\ Len(a.blocks) \in Nat
      /\ DOMAIN a.blocks = 1..Len(a.blocks) /\ i \in 1..Len(a.blocks)
  BY ArenaParts
<1>2. CASE InHead(a, n)
  BY <1>1, <1>2 DEF Alloc, UseHead
<1>3. CASE ~InHead(a, n) /\ InNext(a, n)
  BY <1>1, <1>3 DEF Alloc, UseNext
<1>4. CASE ~InHead(a, n) /\ ~InNext(a, n)
  BY <1>1, <1>4 DEF Alloc, UseNew
<1> QED
  BY <1>2, <1>3, <1>4

\* A read-only request leaves in the arena what was there, and no more.
LEMMA ReadOnlyTotal ==
    ASSUME MemInv, NEW n \in Scratch, ReadOnly(n)
    PROVE  Total(arena') = Total(arena)
<1> DEFINE b == Alloc(arena, n)
           m == Save(arena)
<1>1. IsArena(arena) /\ n \in Nat /\ arena.head # 0
  BY SizeAssumption DEF MemInv, Typed
<1>2. Extends(arena, b, n)
  BY <1>1, AllocExtends
<1>3. /\ arena.head \in 1..Len(arena.blocks) /\ Len(arena.blocks) \in Nat
      /\ \A i \in 1..Len(arena.blocks) : arena.blocks[i].used \in Nat
  BY <1>1, ArenaParts
<1>4. m.block = arena.head /\ m.used = arena.blocks[arena.head].used
  BY <1>1 DEF Save
<1>5. \A i \in 1..arena.head : i # arena.head => b.blocks[i].used = arena.blocks[i].used
  BY <1>1, AllocBelow
<1> HIDE DEF b, m
<1>6. /\ IsArena(b) /\ b.head \in 1..Len(b.blocks) /\ b.head >= arena.head
      /\ \A i \in 1..arena.head : b.blocks[i].used >= arena.blocks[i].used
  BY <1>2 DEF Extends
<1>7. Len(b.blocks) \in Nat
  BY <1>6, ArenaParts
<1>8. m.block \in 1..Len(b.blocks) /\ m.used \in Nat /\ m.used <= b.blocks[m.block].used
  <2>1. arena.head \in 1..arena.head /\ b.blocks[arena.head].used \in Nat
    BY <1>3, <1>6, <1>7, ArenaParts
  <2>2. b.blocks[arena.head].used >= arena.blocks[arena.head].used
    BY <1>6, <2>1
  <2> QED
    BY <1>3, <1>4, <1>6, <1>7, <2>1, <2>2
<1>9. arena' = Restore(b, m)
  BY DEF ReadOnly, Answered, b, m
<1>10. /\ arena'.head = arena.head
       /\ \A i \in 1..arena.head : arena'.blocks[i].used =
                   IF i = arena.head THEN arena.blocks[i].used ELSE b.blocks[i].used
  BY <1>4, <1>6, <1>8, <1>9, RestoreIs
<1>11. \A i \in 1..arena.head : arena'.blocks[i].used = arena.blocks[i].used
  BY <1>5, <1>10
<1> QED
  BY <1>10, <1>11, TotalSame

----------------------------------------------------------------------------
(* The garbage between two messages. *)

\* The types, with what was built last.
LEMMA TypeNext == MemInv /\ built \in Nat /\ [Next]_vars => (built \in Nat)'
<1> SUFFICES ASSUME MemInv, built \in Nat, [Next]_vars PROVE built' \in Nat
  OBVIOUS
<1>1. Total(arena) \in Nat
  BY TotalType DEF MemInv, Typed
<1>2. built' \in {built, Total(arena)}
  BY DEF Next, Server, Initialize, Initialized, Exit, DidClose, ScanFile, Reopen, DidEdit, ReadOnly,
         ScanEnds, Keep, Rebuild, RebuildEnds, Store, vars, server
<1> QED
  BY <1>1, <1>2

\* No build has been counted at the start.
LEMMA TypeInit == Init => built \in Nat
  BY DEF Init

\* All values stay in their types, and the count of what a build allocated with them.
THEOREM TypesCorrect == Spec => []TypeOK
<1>1. MemInv /\ built \in Nat => TypeOK
  BY DEF MemInv, TypeOK
<1> QED
  BY <1>1, TypeInit, TypeNext, MemInit, MemNext, PTL DEF Spec

\* A project that has just been built is no garbage.
LEMMA FreshIsSmall ==
    ASSUME NEW n \in Nat
    PROVE  ~(n > Larger(n, baseTotal) + Larger(Larger(n, baseTotal) - baseTotal, MinGrowth))
  BY SizeAssumption DEF Larger, baseTotal

\* There is no garbage at the start.
LEMMA GarbageInit == Init => GarbageBounded
<1> SUFFICES ASSUME Init PROVE ~TooMuchGarbage
  BY DEF GarbageBounded
<1>1. Total(arena) = Base /\ built = 0
  BY TotalBase DEF Init
<1>2. Base \in Nat /\ MinGrowth \in Nat
  BY SizeAssumption
<1> QED
  BY <1>1, <1>2 DEF TooMuchGarbage, builtTotal, limit, Larger, baseTotal

\* A step that leaves too much garbage is followed by a rebuild, which leaves none.
LEMMA GarbageNext ==
    ASSUME MemInv, GarbageBounded, [Next]_vars
    PROVE  GarbageBounded'
<1> SUFFICES ASSUME pc' = "read" PROVE ~TooMuchGarbage'
  BY DEF GarbageBounded
<1>1. ASSUME ~TooMuchGarbage, Total(arena') = Total(arena), built' = built
      PROVE  ~TooMuchGarbage'
  BY <1>1 DEF TooMuchGarbage, builtTotal, limit
<1>2. ASSUME NEW n \in Scratch, ReadOnly(n)
      PROVE  ~TooMuchGarbage'
  <2>1. ~TooMuchGarbage /\ built' = built
    BY <1>2 DEF ReadOnly, GarbageBounded
  <2> QED
    BY <1>1, <1>2, <2>1, ReadOnlyTotal
<1>3. CASE Keep
  BY <1>1, <1>3 DEF Keep, server
<1>4. CASE RebuildEnds
  <2>1. Total(arena) \in Nat /\ built' = Total(arena) /\ arena' = arena
    BY <1>4, TotalType DEF RebuildEnds, MemInv, Typed
  <2> QED
    BY <2>1, FreshIsSmall DEF TooMuchGarbage, builtTotal, limit
<1>5. CASE UNCHANGED <<arena, built, pc>>
  BY <1>1, <1>5 DEF GarbageBounded
<1>6. CASE UNCHANGED vars
  BY <1>5, <1>6 DEF vars, server
<1>7. ASSUME NEW p \in Path, NEW t \in MaybeText, Store(p, t)
      PROVE  ~TooMuchGarbage'
  BY <1>5, <1>7 DEF Store, server
<1> QED
  BY <1>2, <1>3, <1>4, <1>6, <1>7
     DEF Next, Server, Initialize, Initialized, Exit, DidClose, ScanFile, Reopen, DidEdit, ScanEnds, Rebuild

\* Between two messages the arena holds no more garbage than lsp_main allows, however long the
\* editing goes on and whatever the texts and the blocks are large.
THEOREM GarbageStaysBounded == Spec => []GarbageBounded
  BY GarbageInit, GarbageNext, MemInit, MemNext, PTL DEF Spec

----------------------------------------------------------------------------
(* What the documents are served with, where no URI is escaped. *)

\* The rebuild under way has yet to open p again.
Pending(p) == pc = "rescan" \/ (pc = "reopen" /\ p \in todo)

\* The workspace is indexed, as far as p is concerned.
Scanned(p) == /\ indexed \/ pc = "scan"
              /\ pc \in {"scan", "rescan"} => p \notin todo

OpenServed(p) == (tracked[p] # NoText /\ ~Pending(p)) =>
                     (files[p] # NoRef /\ files[p].text = tracked[p])

ClosedServed(p) == (editor[p] = NoText /\ p \notin stale /\ disk[p] # NoText) =>
                       /\ files[p] # NoRef => files[p].text = disk[p]
                       /\ Scanned(p) => files[p] # NoRef

DocInv == /\ tracked = editor
          /\ diags = editor
          /\ \A p \in Path : OpenServed(p) /\ ClosedServed(p)
          /\ pc = "scan" => ~indexed
          /\ pc = "rescan" => indexed

\* No document is tracked at the start.
LEMMA DocInit == Init => DocInv
BY DEF Init, DocInv, OpenServed, ClosedServed, Scanned

\* A step that reads no file leaves to show only what it may require anew.
LEMMA DocFrame ==
    ASSUME DocInv, UNCHANGED <<disk, editor, files, tracked, diags, stale>>,
           pc' = "scan" => ~indexed', pc' = "rescan" => indexed',
           \A p \in Path : (tracked[p] # NoText /\ Pending(p)) => Pending(p)',
           \A p \in Path : (editor[p] = NoText /\ Scanned(p)') => Scanned(p)
    PROVE  DocInv'
<1>1. tracked' = editor' /\ diags' = editor'
  BY DEF DocInv
<1>2. ASSUME NEW p \in Path PROVE OpenServed(p)'
  BY <1>2 DEF DocInv, OpenServed
<1>3. ASSUME NEW p \in Path PROVE ClosedServed(p)'
  BY <1>3 DEF DocInv, ClosedServed
<1> QED
  BY <1>1, <1>2, <1>3 DEF DocInv

\* A step that parses the text t of p, for the editor or from the disk.
LEMMA DocUpdate ==
    ASSUME MemInv, DocInv, NEW p \in Path, NEW t \in Text, UpdateFile(p, t),
           project' = project, disk' = disk, indexed' = indexed,
           tracked' = editor', diags' = editor',
           editor' \in [Path -> MaybeText],
           \A q \in Path \ {p} : /\ editor'[q] = editor[q]
                                 /\ q \in todo' <=> q \in todo
                                 /\ q \in stale' <=> q \in stale,
           editor'[p] # NoText => t = editor'[p],
           editor'[p] = NoText => t = disk[p],
           \/ pc' = pc
           \/ pc = "read" /\ pc' = "done"
    PROVE  DocInv'
<1>1. /\ files' = [files EXCEPT ![p] = Parse(t)] /\ Parse(t) # NoRef /\ Parse(t).text = t
  BY UpdateFileIs
<1>2. files \in [Path -> Parsed \cup {NoRef}]
  BY DEF MemInv, Typed
<1>3. files'[p] = Parse(t) /\ \A q \in Path \ {p} : files'[q] = files[q]
  BY <1>1, <1>2
<1>4. ASSUME NEW q \in Path PROVE OpenServed(q)'
  <2>1. CASE q = p
    BY <2>1, <1>1, <1>3 DEF OpenServed, Pending
  <2>2. CASE q # p
    BY <2>2, <1>3 DEF OpenServed, Pending, DocInv
  <2> QED
    BY <2>1, <2>2
<1>5. ASSUME NEW q \in Path PROVE ClosedServed(q)'
  <2>1. CASE q = p
    BY <2>1, <1>1, <1>3 DEF ClosedServed, Scanned
  <2>2. CASE q # p
    BY <2>2, <1>3 DEF ClosedServed, Scanned, DocInv
  <2> QED
    BY <2>1, <2>2
<1> QED
  BY <1>4, <1>5 DEF DocInv

\* Every step keeps the tracked documents those of the editor.
LEMMA DocNext ==
    ASSUME Encoded = {}
    PROVE  MemInv /\ DocInv /\ [Next]_vars => DocInv'
<1> SUFFICES ASSUME MemInv, DocInv, [Next]_vars PROVE DocInv'
  OBVIOUS
<1>1. CASE Initialize \/ Initialized \/ Exit \/ Keep
  BY <1>1, DocFrame DEF Pending, Scanned, Initialize, Initialized, Exit, Keep, server, Reads
<1>2. CASE ScanEnds
  BY <1>2, DocFrame DEF Pending, Scanned, ScanEnds, Documents, DocInv
<1>3. CASE RebuildEnds
  BY <1>3, DocFrame DEF Pending, Scanned, RebuildEnds, Documents
<1>4. CASE UNCHANGED vars
  BY <1>4, DocFrame DEF Pending, Scanned, vars, server, DocInv
<1>5. ASSUME NEW n \in Scratch, ReadOnly(n)
      PROVE  DocInv'
  BY <1>5, DocFrame DEF Pending, Scanned, ReadOnly, DocInv
<1>6. CASE Rebuild
  <2>1. UNCHANGED <<disk, editor, tracked, indexed, diags, stale>>
    BY <1>6 DEF Rebuild
  <2>2. /\ \A p \in Path : files'[p] = NoRef
        /\ \/ indexed /\ pc' = "rescan" /\ todo' = Path
           \/ ~indexed /\ pc' = "reopen" /\ todo' = Documents
    BY <1>6 DEF Rebuild
  <2>3. ASSUME NEW p \in Path PROVE OpenServed(p)' /\ ClosedServed(p)'
    BY <2>1, <2>2 DEF OpenServed, ClosedServed, Pending, Scanned, Documents
  <2> QED
    BY <2>1, <2>2, <2>3 DEF DocInv
<1>7. ASSUME NEW p \in Path, NEW t \in MaybeText, Store(p, t)
      PROVE  DocInv'
  <2>1. /\ UNCHANGED <<editor, files, tracked, indexed, diags, pc, todo>>
        /\ stale' = stale \cup {p} /\ disk' = [disk EXCEPT ![p] = t]
    BY <1>7 DEF Store, server
  <2>2. \A q \in Path \ {p} : disk'[q] = disk[q]
    BY <2>1 DEF MemInv, Typed
  <2>3. ASSUME NEW q \in Path PROVE OpenServed(q)' /\ ClosedServed(q)'
    BY <2>1, <2>2 DEF OpenServed, ClosedServed, Pending, Scanned, DocInv
  <2> QED
    BY <2>1, <2>3 DEF DocInv
<1>8. ASSUME NEW p \in Path, NEW t \in Text, DidEdit(p, t)
      PROVE  DocInv'
  <2>1. editor' = [editor EXCEPT ![p] = t] /\ editor \in [Path -> MaybeText]
    BY <1>8 DEF DidEdit, MemInv, Typed
  <2>2. /\ editor' \in [Path -> MaybeText] /\ editor'[p] = t /\ t # NoText
        /\ \A q \in Path \ {p} : editor'[q] = editor[q]
    BY <2>1, TextAssumption DEF MaybeText
  <2>3. tracked' = editor' /\ diags' = editor'
    BY <1>8, <2>1 DEF DidEdit, TrackDocument, DocInv
  <2>4. /\ UpdateFile(p, t) /\ project' = project /\ disk' = disk /\ indexed' = indexed
        /\ todo' = todo /\ stale' = stale /\ pc = "read" /\ pc' = "done"
    BY <1>8 DEF DidEdit, Reads
  <2> QED
    BY <2>2, <2>3, <2>4, DocUpdate
<1>9. ASSUME NEW p \in Path, DidClose(p)
      PROVE  DocInv'
  <2>1. editor' = [editor EXCEPT ![p] = NoText] /\ editor \in [Path -> MaybeText]
    BY <1>9 DEF DidClose, MemInv, Typed
  <2>2. /\ editor' \in [Path -> MaybeText] /\ editor'[p] = NoText
        /\ \A q \in Path \ {p} : editor'[q] = editor[q]
    BY <2>1 DEF MaybeText
  <2>3. tracked' = editor' /\ diags' = editor'
    BY <1>9, <2>1 DEF DidClose, UntrackDocument, DocInv
  <2>4. /\ project' = project /\ disk' = disk /\ indexed' = indexed /\ todo' = todo
        /\ pc = "read" /\ pc' = "done" /\ editor[p] # NoText
    BY <1>9 DEF DidClose, Reads
  <2>5. files[p] # NoRef
    BY <2>4 DEF DocInv, OpenServed, Pending
  <2>6. CASE disk[p] # NoText
    <3>1. disk[p] \in Text /\ UpdateFile(p, disk[p]) /\ stale' = stale \ {p}
      BY <1>9, <2>5, <2>6 DEF DidClose, MemInv, Typed, MaybeText
    <3> QED
      BY <2>2, <2>3, <2>4, <3>1, DocUpdate
  <2>7. CASE disk[p] = NoText
    <3>1. files' = files /\ stale' = stale
      BY <1>9, <2>7 DEF DidClose
    <3>2. ASSUME NEW q \in Path PROVE OpenServed(q)' /\ ClosedServed(q)'
      <4>1. CASE q = p
        BY <4>1, <2>2, <2>3, <2>4, <2>7 DEF OpenServed, ClosedServed, Pending, Scanned
      <4>2. CASE q # p
        BY <4>2, <2>2, <2>3, <2>4, <3>1 DEF OpenServed, ClosedServed, Pending, Scanned, DocInv
      <4> QED
        BY <4>1, <4>2
    <3> QED
      BY <2>3, <2>4, <3>2 DEF DocInv
  <2> QED
    BY <2>6, <2>7
<1>10. ASSUME NEW p \in Path, ScanFile(p)
       PROVE  DocInv'
  <2>1. /\ UNCHANGED <<disk, editor, project, tracked, indexed, diags, pc>>
        /\ pc \in {"scan", "rescan"} /\ p \in todo /\ todo' = todo \ {p}
        /\ stale' = IF files[p] = NoRef THEN stale \ {p} ELSE stale
    BY <1>10 DEF ScanFile
  <2>2. editor' = editor /\ editor \in [Path -> MaybeText]
    BY <2>1 DEF MemInv, Typed
  <2>3. CASE files[p] = NoRef /\ disk[p] # NoText
    <3>1. disk[p] \in Text /\ UpdateFile(p, disk[p])
      BY <1>10, <2>3 DEF ScanFile, MemInv, Typed, MaybeText
    <3>2. CASE editor[p] = NoText
      BY <2>1, <2>2, <3>1, <3>2, DocUpdate DEF DocInv
    <3>3. CASE editor[p] # NoText
      <4>1. pc = "rescan"
        BY <2>1, <2>3, <3>3 DEF DocInv, OpenServed, Pending
      <4>2. files' = [files EXCEPT ![p] = Parse(disk[p])]
        BY <3>1 DEF UpdateFile
      <4>3. \A q \in Path \ {p} : files'[q] = files[q]
        BY <4>2 DEF MemInv, Typed
      <4>4. ASSUME NEW q \in Path PROVE OpenServed(q)' /\ ClosedServed(q)'
        BY <2>1, <3>3, <4>1, <4>3 DEF OpenServed, ClosedServed, Pending, Scanned, DocInv
      <4> QED
        BY <2>1, <4>4 DEF DocInv
    <3> QED
      BY <3>2, <3>3
  <2>4. CASE ~(files[p] = NoRef /\ disk[p] # NoText)
    <3>1. files' = files
      BY <1>10, <2>4 DEF ScanFile
    <3>2. ASSUME NEW q \in Path PROVE OpenServed(q)' /\ ClosedServed(q)'
      <4>1. OpenServed(q)'
        BY <2>1, <3>1 DEF OpenServed, Pending, DocInv
      <4>2. ClosedServed(q)'
        BY <2>1, <2>4, <3>1 DEF ClosedServed, Scanned, DocInv
      <4> QED
        BY <4>1, <4>2
    <3> QED
      BY <2>1, <3>2 DEF DocInv
  <2> QED
    BY <2>3, <2>4
<1>11. ASSUME NEW p \in Path, Reopen(p)
       PROVE  DocInv'
  <2>1. /\ UpdateFile(p, tracked[p]) /\ todo' = todo \ {p} /\ p \in todo /\ pc = "reopen"
        /\ UNCHANGED <<disk, editor, project, tracked, indexed, diags, pc, stale>>
    BY <1>11 DEF Reopen
  <2>2. tracked[p] \in Text /\ tracked[p] # NoText /\ editor' \in [Path -> MaybeText]
    BY <2>1, TextAssumption DEF MemInv, Typed, MaybeText, Documents
  <2>3. tracked' = editor' /\ diags' = editor' /\ tracked = editor
    BY <2>1 DEF DocInv
  <2> QED
    BY <2>1, <2>2, <2>3, DocUpdate
<1> QED
  BY <1>1, <1>2, <1>3, <1>4, <1>5, <1>6, <1>7, <1>8, <1>9, <1>10, <1>11 DEF Next, Server

\* Both invariants hold in every reachable state.
LEMMA DocAlways ==
    ASSUME Encoded = {}
    PROVE  Spec => [](MemInv /\ DocInv)
BY MemInit, MemNext, DocInit, DocNext, PTL DEF Spec

\* An open document is served with the editor's text, and shows that text's diagnostics,
\* whatever is read from disk in between, a rebuild of the whole project included.
THEOREM EditorIsServed ==
    ASSUME Encoded = {}
    PROVE  Spec => []ServesEditor
<1>1. MemInv /\ DocInv => ServesEditor
  BY DEF DocInv, OpenServed, Pending, ServesEditor, Served
<1> QED
  BY <1>1, DocAlways, PTL

\* A document that is not open is served with what is on disk, unless the disk changed
\* since: closing, scanning and rebuilding leave no unsaved text and no file behind.
THEOREM DiskIsServed ==
    ASSUME Encoded = {}
    PROVE  Spec => []ClosedServesDisk
<1>1. MemInv /\ DocInv => ClosedServesDisk
  BY DEF DocInv, ClosedServed, Scanned, ClosedServesDisk, Served
<1> QED
  BY <1>1, DocAlways, PTL

----------------------------------------------------------------------------
(* The server implements Documents. *)

ViewOf(p) == IF pc \in {"rescan", "reopen"} /\ tracked[p] # NoText THEN tracked[p]
             ELSE Served(p)

View == [p \in Path |-> ViewOf(p)]

\* What the server shows of a file is a text or nothing.
LEMMA ViewTyped == MemInv => View \in [Path -> MaybeText]
<1> SUFFICES ASSUME MemInv, NEW p \in Path PROVE ViewOf(p) \in MaybeText
  BY DEF View
<1>1. files[p] \in Parsed \cup {NoRef} /\ tracked[p] \in MaybeText
  BY DEF MemInv, Typed
<1>2. Served(p) \in MaybeText
  BY <1>1 DEF Served, Parsed, MaybeText
<1> QED
  BY <1>1, <1>2 DEF ViewOf

\* A step that changes no open document's view reads files again, or forgets them.
LEMMA RefreshIs ==
    ASSUME MemInv', UNCHANGED <<disk, editor>>,
           \A p \in Path : \/ ViewOf(p)' = ViewOf(p)
                           \/ editor[p] = NoText /\ ViewOf(p)' \in {disk[p], NoText}
    PROVE  Docs!Next
<1>1. View' \in [Path -> MaybeText]
  <2>1. (MemInv => View \in [Path -> MaybeText])'
    BY ViewTyped, PTL
  <2> QED
    BY <2>1 DEF MaybeText
<1>2. \A p \in Path : View[p] = ViewOf(p) /\ View'[p] = ViewOf(p)'
  BY DEF View
<1>3. \A p \in Path : IF editor[p] # NoText THEN View'[p] = View[p]
                       ELSE View'[p] \in {View[p], disk[p], NoText}
  BY <1>2
<1>4. Docs!Refresh
  BY <1>1, <1>3 DEF Docs!Refresh, View, ViewOf, MaybeText
<1> QED
  BY <1>4 DEF Docs!Next

\* The server starts as Documents does.
LEMMA DocsInit == Init => Docs!Init
BY DEF Init, Docs!Init, Served, MaybeText

\* Each of its steps is one of Documents, or none.
LEMMA DocsNext ==
    ASSUME Encoded = {}, MemInv, DocInv, MemInv', DocInv', [Next]_vars
    PROVE  [Docs!Next]_(Docs!vars)
<1>1. CASE Initialize \/ Initialized \/ Exit \/ Keep
  BY <1>1, RefreshIs DEF Initialize, Initialized, Exit, Keep, server, Reads, ViewOf, Served
<1>2. CASE ScanEnds
  BY <1>2, RefreshIs DEF ScanEnds, ViewOf, Served, DocInv, OpenServed, Pending
<1>3. CASE RebuildEnds
  BY <1>3, RefreshIs DEF RebuildEnds, ViewOf, Served, DocInv, OpenServed, Pending
<1>4. CASE UNCHANGED vars
  BY <1>4, RefreshIs DEF vars, server, ViewOf, Served
<1>5. ASSUME NEW n \in Scratch, ReadOnly(n)
      PROVE  Docs!Next
  BY <1>5, RefreshIs DEF ReadOnly, ViewOf, Served
<1>6. CASE Rebuild
  <2>1. UNCHANGED <<disk, editor, tracked>> /\ pc = "done" /\ tracked = editor
    BY <1>6 DEF Rebuild, DocInv
  <2>2. pc' \in {"rescan", "reopen"} /\ \A p \in Path : files'[p] = NoRef
    BY <1>6 DEF Rebuild
  <2>3. ASSUME NEW p \in Path
        PROVE  ViewOf(p)' = ViewOf(p) \/ (editor[p] = NoText /\ ViewOf(p)' = NoText)
    BY <2>1, <2>2 DEF ViewOf, Served, DocInv, OpenServed, Pending
  <2> QED
    BY <2>1, <2>3, RefreshIs
<1>7. ASSUME NEW p \in Path, NEW t \in MaybeText, Store(p, t)
      PROVE  Docs!Next
  <2>1. UNCHANGED <<editor, files, tracked, pc>> /\ disk' = [disk EXCEPT ![p] = t]
    BY <1>7 DEF Store, server
  <2>2. Docs!Store(p, t)
    BY <2>1 DEF Docs!Store, Served
  <2> QED
    BY <2>2 DEF Docs!Next, MaybeText
<1>8. ASSUME NEW p \in Path, NEW t \in Text, DidEdit(p, t)
      PROVE  Docs!Next
  <2>1. /\ disk' = disk /\ editor' = [editor EXCEPT ![p] = t] /\ pc = "read" /\ pc' = "done"
        /\ UpdateFile(p, t) /\ project' = project
    BY <1>8 DEF DidEdit, Reads
  <2>2. /\ files' = [files EXCEPT ![p] = Parse(t)] /\ Parse(t) # NoRef /\ Parse(t).text = t
    BY <2>1, UpdateFileIs
  <2>3. files'[p] = Parse(t) /\ \A q \in Path \ {p} : files'[q] = files[q]
    BY <2>2 DEF MemInv, Typed
  <2>4. \A q \in Path : ViewOf(q)' = IF q = p THEN t ELSE ViewOf(q)
    BY <2>1, <2>2, <2>3 DEF ViewOf, Served
  <2>5. View' = [View EXCEPT ![p] = t]
    BY <2>4 DEF View
  <2>6. Docs!Edit(p, t)
    BY <2>1, <2>5 DEF Docs!Edit, View, ViewOf
  <2> QED
    BY <2>6 DEF Docs!Next
<1>9. ASSUME NEW p \in Path, DidClose(p)
      PROVE  Docs!Next
  <2>1. /\ disk' = disk /\ editor' = [editor EXCEPT ![p] = NoText] /\ editor[p] # NoText
        /\ pc = "read" /\ pc' = "done" /\ project' = project
    BY <1>9 DEF DidClose, Reads
  <2>2. files[p] # NoRef
    BY <2>1 DEF DocInv, OpenServed, Pending
  <2>3. \A q \in Path : ViewOf(q)' = IF q = p /\ disk[p] # NoText THEN disk[p] ELSE ViewOf(q)
    <3>1. CASE disk[p] # NoText
      <4>1. disk[p] \in Text /\ UpdateFile(p, disk[p])
        BY <1>9, <2>2, <3>1 DEF DidClose, MemInv, Typed, MaybeText
      <4>2. /\ files' = [files EXCEPT ![p] = Parse(disk[p])]
            /\ Parse(disk[p]) # NoRef /\ Parse(disk[p]).text = disk[p]
        BY <2>1, <4>1, UpdateFileIs
      <4>3. files'[p] = Parse(disk[p]) /\ \A q \in Path \ {p} : files'[q] = files[q]
        BY <4>2 DEF MemInv, Typed
      <4> QED
        BY <2>1, <3>1, <4>2, <4>3 DEF ViewOf, Served
    <3>2. CASE disk[p] = NoText
      <4>1. files' = files
        BY <1>9, <3>2 DEF DidClose
      <4> QED
        BY <2>1, <3>2, <4>1 DEF ViewOf, Served
    <3> QED
      BY <3>1, <3>2
  <2>4. View' = [View EXCEPT ![p] = IF disk[p] # NoText THEN disk[p] ELSE @]
    BY <2>3 DEF View
  <2>5. Docs!Close(p)
    BY <2>1, <2>4 DEF Docs!Close, View, ViewOf
  <2> QED
    BY <2>5 DEF Docs!Next
<1>10. ASSUME NEW p \in Path, ScanFile(p)
       PROVE  Docs!Next
  <2>1. /\ UNCHANGED <<disk, editor, project, tracked, pc>> /\ pc \in {"scan", "rescan"}
        /\ tracked = editor
    BY <1>10 DEF ScanFile, DocInv
  <2>2. CASE files[p] = NoRef /\ disk[p] # NoText
    <3>1. disk[p] \in Text /\ UpdateFile(p, disk[p])
      BY <1>10, <2>2 DEF ScanFile, MemInv, Typed, MaybeText
    <3>2. /\ files' = [files EXCEPT ![p] = Parse(disk[p])]
          /\ Parse(disk[p]) # NoRef /\ Parse(disk[p]).text = disk[p]
      BY <2>1, <3>1, UpdateFileIs
    <3>3. files'[p] = Parse(disk[p]) /\ \A q \in Path \ {p} : files'[q] = files[q]
      BY <3>2 DEF MemInv, Typed
    <3>4. editor[p] # NoText => pc = "rescan"
      BY <2>1, <2>2 DEF DocInv, OpenServed, Pending
    <3>5. ASSUME NEW q \in Path
          PROVE  ViewOf(q)' = ViewOf(q) \/ (editor[q] = NoText /\ ViewOf(q)' = disk[q])
      BY <2>1, <3>2, <3>3, <3>4 DEF ViewOf, Served
    <3> QED
      BY <2>1, <3>5, RefreshIs
  <2>3. CASE ~(files[p] = NoRef /\ disk[p] # NoText)
    <3>1. files' = files
      BY <1>10, <2>3 DEF ScanFile
    <3> QED
      BY <2>1, <3>1, RefreshIs DEF ViewOf, Served
  <2> QED
    BY <2>2, <2>3
<1>11. ASSUME NEW p \in Path, Reopen(p)
       PROVE  Docs!Next
  <2>1. /\ UNCHANGED <<disk, editor, tracked, pc>> /\ pc = "reopen" /\ p \in todo
        /\ UpdateFile(p, tracked[p])
    BY <1>11 DEF Reopen
  <2>2. tracked[p] # NoText
    BY <2>1 DEF MemInv, Documents
  <2>3. \A q \in Path \ {p} : files'[q] = files[q]
    BY <2>1 DEF UpdateFile, MemInv, Typed
  <2>4. \A q \in Path : ViewOf(q)' = ViewOf(q)
    BY <2>1, <2>2, <2>3 DEF ViewOf, Served
  <2> QED
    BY <2>1, <2>4, RefreshIs
<1> QED
  BY <1>1, <1>2, <1>3, <1>4, <1>5, <1>6, <1>7, <1>8, <1>9, <1>10, <1>11 DEF Next, Server

\* The server keeps the promises of Documents: an edit and a close are one step each for
\* the editor, and a rebuild, which takes many, only reads files that are not open again.
THEOREM ServesDocuments ==
    ASSUME Encoded = {}
    PROVE  Spec => DocumentsServed
<1>1. MemInv /\ DocInv /\ (MemInv /\ DocInv)' /\ [Next]_vars => [Docs!Next]_(Docs!vars)
  BY DocsNext
<1> QED
  BY <1>1, DocsInit, DocAlways, PTL DEF Spec, DocumentsServed, Docs!Spec
=============================================================================
