-------------------------- MODULE BuildGraphProofs --------------------------
(***************************************************************************)
(* Proofs about the build graph: components() finds the cycles, and the    *)
(* waves put providers first or name the packages nothing orders.          *)
(*                                                                         *)
(* Reach, Endless and Depth are recursive functions, so first come a form  *)
(* of induction over sets of numbers and, with it, what those functions    *)
(* return.  The invariant of the search is Tarjan's argument: the stack is *)
(* a chain in which everything reaches what is above it and reaches back   *)
(* to a call in progress, and low is the lowest number that was looked at  *)
(* from the part of the stack that belongs to a call.                      *)
(***************************************************************************)
EXTENDS BuildGraphCore, WellFoundedInduction, FiniteSetTheorems, SequenceTheorems, TLAPS

----------------------------------------------------------------------------
(* Sets *)

\* Induction over the naturals, for a set.
LEMMA NatSetInduction ==
    ASSUME NEW S, 0 \in S, \A n \in Nat : n \in S => n + 1 \in S
    PROVE  Nat \subseteq S
<1> DEFINE Missing == Nat \ S
           Less == OpToRel(<, Nat)
<1>1. SUFFICES ASSUME Missing # {} PROVE FALSE
    OBVIOUS
<1>2. IsWellFoundedOn(Less, Nat)
    BY NatLessThanWellFounded
<1>3. Missing \subseteq Nat
    OBVIOUS
<1> HIDE DEF Missing, Less
<1>4. PICK least \in Missing : \A n \in Missing : ~(<<n, least>> \in Less)
    BY <1>1, <1>2, <1>3, WFMin
<1>5. least \in Nat /\ least # 0
    BY <1>3 DEF Missing
<1>6. least - 1 \in Nat /\ least - 1 < least /\ (least - 1) + 1 = least
    BY <1>5
<1>7. least - 1 \notin S
    BY <1>5, <1>6 DEF Missing
<1>8. least - 1 \in Missing
    BY <1>6, <1>7 DEF Missing
<1>9. <<least - 1, least>> \in Less
    BY <1>5, <1>6 DEF Less, OpToRel
<1>10. QED
    BY <1>4, <1>8, <1>9

\* A set of natural numbers that is not empty has a least member.
LEMMA LeastOf ==
    ASSUME NEW S \in SUBSET Nat, S # {}
    PROVE  \E least \in S : \A n \in S : least <= n
<1> DEFINE Less == OpToRel(<, Nat)
<1>1. IsWellFoundedOn(Less, Nat)
    BY NatLessThanWellFounded
<1> HIDE DEF Less
<1>2. PICK least \in S : \A n \in S : ~(<<n, least>> \in Less)
    BY <1>1, WFMin
<1>3. \A n \in S : ~(n < least)
    BY <1>2 DEF Less, OpToRel
<1>4. QED BY <1>2, <1>3

\* A growing chain of subsets of a finite set that never stands still.
LEMMA ChainGrows ==
    ASSUME NEW B, IsFiniteSet(B), NEW n \in Nat, NEW chain,
           \A k \in 0..n : chain[k] \subseteq B,
           \A k \in 0..(n - 1) : chain[k] \subseteq chain[k + 1] /\ chain[k + 1] # chain[k]
    PROVE  /\ Cardinality(chain[0]) \in Nat
           /\ Cardinality(chain[n]) \in Nat
           /\ n + Cardinality(chain[0]) <= Cardinality(chain[n])
<1> DEFINE Size(k) == Cardinality(chain[k])
           S == {k \in Nat : k <= n => k + Size(0) <= Size(k)}
<1>1. \A k \in 0..n : IsFiniteSet(chain[k]) /\ Size(k) \in Nat
    BY FS_Subset, FS_CardinalityType
<1>2. 0 \in S
    BY <1>1
<1>3. ASSUME NEW k \in Nat, k \in S
      PROVE  k + 1 \in S
    <2> SUFFICES ASSUME k + 1 <= n PROVE (k + 1) + Size(0) <= Size(k + 1)
        OBVIOUS
    <2>1. k \in 0..(n - 1) /\ k \in 0..n /\ k + 1 \in 0..n /\ 0 \in 0..n
        OBVIOUS
    <2>2. chain[k] \subseteq chain[k + 1] /\ chain[k + 1] # chain[k] /\ IsFiniteSet(chain[k + 1])
        BY <1>1, <2>1
    <2>3. Size(k) <= Size(k + 1) /\ Size(k + 1) # Size(k)
        BY <2>2, FS_Subset
    <2>4. k + Size(0) <= Size(k)
        BY <1>3
    <2>5. Size(k) \in Nat /\ Size(k + 1) \in Nat /\ Size(0) \in Nat
        BY <1>1, <2>1
    <2> HIDE DEF Size
    <2>6. Size(k) < Size(k + 1)
        BY <2>3, <2>5
    <2>7. QED BY <2>4, <2>5, <2>6
<1>4. Nat \subseteq S
    <2> HIDE DEF S
    <2>1. QED BY <1>2, <1>3, NatSetInduction
<1>5. n \in S /\ 0 \in 0..n /\ n \in 0..n
    BY <1>4
<1>6. QED BY <1>1, <1>5

----------------------------------------------------------------------------
(* What a package reaches *)

Size == Cardinality(in.build)

\* The build set is a finite set of recipes.
LEMMA BuildIsFinite ==
    ASSUME in \in Inputs
    PROVE  /\ IsFiniteSet(in.build) /\ Size \in Nat
           /\ in.build \subseteq Recipes /\ in.build \subseteq Nat
<1>1. in.build \subseteq Recipes
    BY GraphAssumption
<1>2. IsFiniteSet(in.build)
    BY <1>1, GraphAssumption, FS_Subset
<1>3. QED BY <1>1, <1>2, GraphAssumption, FS_CardinalityType DEF Size

\* One step further along the edges.
Further(near) == near \cup UNION {Inside(q) : q \in near}

\* within is what r reaches in each of up to n steps.
Reaching(r, within, n) ==
    within = [k \in 0..n |-> IF k = 0 THEN {r} ELSE Further(within[k - 1])]

\* Reach(r) is the last value of such a function, if there is one.
LEMMA ReachUnfolds ==
    ASSUME NEW r
    PROVE  Reach(r) = (CHOOSE within : Reaching(r, within, Size))[Size]
BY DEF Reach, Reaching, Further, Size

\* There is one for every number of steps.
LEMMA ReachingExists ==
    ASSUME NEW r, NEW n \in Nat
    PROVE  \E within : Reaching(r, within, n)
<1> DEFINE S == {m \in Nat : \E within : Reaching(r, within, m)}
<1>1. 0 \in S
    <2>1. Reaching(r, [k \in 0..0 |-> {r}], 0)
        BY DEF Reaching
    <2>2. QED BY <2>1
<1>2. ASSUME NEW m \in Nat, m \in S
      PROVE  m + 1 \in S
    <2>1. PICK within : Reaching(r, within, m)
        BY <1>2
    <2> DEFINE next == [k \in 0..(m + 1) |-> IF k = m + 1 THEN Further(within[m]) ELSE within[k]]
    <2>2. ASSUME NEW k \in 0..(m + 1)
          PROVE  next[k] = IF k = 0 THEN {r} ELSE Further(next[k - 1])
        <3>1. CASE k = m + 1
            BY <3>1
        <3>2. CASE k # m + 1
            <4>1. k \in 0..m
                BY <3>2
            <4>2. within[k] = IF k = 0 THEN {r} ELSE Further(within[k - 1])
                BY <2>1, <4>1 DEF Reaching
            <4>3. next[k] = within[k] /\ (k # 0 => next[k - 1] = within[k - 1])
                BY <4>1
            <4>4. QED BY <4>2, <4>3
        <3>3. QED BY <3>1, <3>2
    <2>3. next = [k \in 0..(m + 1) |-> next[k]]
        OBVIOUS
    <2> HIDE DEF next
    <2>4. next = [k \in 0..(m + 1) |-> IF k = 0 THEN {r} ELSE Further(next[k - 1])]
        BY <2>2, <2>3
    <2>5. Reaching(r, next, m + 1)
        BY <2>4 DEF Reaching
    <2>6. QED BY <2>5
<1>3. Nat \subseteq S
    <2> HIDE DEF S
    <2>1. QED BY <1>1, <1>2, NatSetInduction
<1>4. QED BY <1>3

\* Reach(r) as the last set of a chain.
LEMMA ReachIsLast ==
    ASSUME in \in Inputs, NEW r
    PROVE  \E within : /\ Reach(r) = within[Size]
                       /\ within[0] = {r}
                       /\ \A k \in 0..(Size - 1) : within[k + 1] = Further(within[k])
<1>1. Size \in Nat
    BY BuildIsFinite
<1>2. \E within : Reaching(r, within, Size)
    BY <1>1, ReachingExists
<1>3. Reaching(r, CHOOSE within : Reaching(r, within, Size), Size)
    BY <1>2
<1>4. Reaching(r, CHOOSE within : Reaching(r, within, Size), Size)
      /\ Reach(r) = (CHOOSE within : Reaching(r, within, Size))[Size]
    BY <1>3, ReachUnfolds
<1>5. PICK within : within = CHOOSE other : Reaching(r, other, Size)
    OBVIOUS
<1>6. Reaching(r, within, Size) /\ Reach(r) = within[Size]
    BY <1>4, <1>5
<1>7. within[0] = {r}
    BY <1>1, <1>6 DEF Reaching
<1>8. ASSUME NEW k \in 0..(Size - 1)
      PROVE  within[k + 1] = Further(within[k])
    <2>1. k + 1 \in 0..Size /\ k + 1 # 0 /\ (k + 1) - 1 = k
        BY <1>1
    <2>2. QED BY <1>6, <2>1 DEF Reaching
<1>9. QED BY <1>6, <1>7, <1>8

\* Whatever holds r and what its members need holds all that r reaches.
LEMMA ReachIsLeast ==
    ASSUME in \in Inputs, NEW r, NEW S, r \in S, \A q \in S : Inside(q) \subseteq S
    PROVE  Reach(r) \subseteq S
<1>1. PICK within : /\ Reach(r) = within[Size]
                    /\ within[0] = {r}
                    /\ \A k \in 0..(Size - 1) : within[k + 1] = Further(within[k])
    BY ReachIsLast
<1>2. Size \in Nat
    BY BuildIsFinite
<1> DEFINE I == {k \in Nat : k <= Size => within[k] \subseteq S}
<1>3. 0 \in I
    BY <1>1
<1>4. ASSUME NEW k \in Nat, k \in I
      PROVE  k + 1 \in I
    <2> SUFFICES ASSUME k + 1 <= Size PROVE within[k + 1] \subseteq S
        OBVIOUS
    <2>1. k \in 0..(Size - 1) /\ within[k] \subseteq S
        BY <1>2, <1>4
    <2>2. within[k + 1] = Further(within[k])
        BY <1>1, <2>1
    <2>3. QED BY <2>1, <2>2 DEF Further
<1>5. Nat \subseteq I
    <2> HIDE DEF I
    <2>1. QED BY <1>3, <1>4, NatSetInduction
<1>6. QED BY <1>1, <1>2, <1>5

\* A package reaches itself, and what the packages it reaches need: in as many
\* steps as there are packages nothing is left to be found.
LEMMA ReachIsClosed ==
    ASSUME in \in Inputs, NEW r \in in.build
    PROVE  /\ r \in Reach(r) /\ Reach(r) \subseteq in.build
           /\ \A q \in Reach(r) : Inside(q) \subseteq Reach(r)
<1>1. PICK within : /\ Reach(r) = within[Size]
                    /\ within[0] = {r}
                    /\ \A k \in 0..(Size - 1) : within[k + 1] = Further(within[k])
    BY ReachIsLast
<1>2. Size \in Nat /\ IsFiniteSet(in.build)
    BY BuildIsFinite
<1>3. \A k \in 0..(Size - 1) : within[k] \subseteq within[k + 1]
    BY <1>1 DEF Further
<1>4. \A k \in 0..Size : r \in within[k] /\ within[k] \subseteq in.build
    <2> DEFINE I == {k \in Nat : k <= Size => r \in within[k] /\ within[k] \subseteq in.build}
    <2>1. 0 \in I
        BY <1>1
    <2>2. ASSUME NEW k \in Nat, k \in I
          PROVE  k + 1 \in I
        <3> SUFFICES ASSUME k + 1 <= Size
                     PROVE  r \in within[k + 1] /\ within[k + 1] \subseteq in.build
            OBVIOUS
        <3>1. k \in 0..(Size - 1) /\ r \in within[k] /\ within[k] \subseteq in.build
            BY <1>2, <2>2
        <3>2. within[k + 1] = Further(within[k])
            BY <1>1, <3>1
        <3>3. QED BY <3>1, <3>2 DEF Further, Inside
    <2>3. Nat \subseteq I
        <3> HIDE DEF I
        <3>1. QED BY <2>1, <2>2, NatSetInduction
    <2>4. QED BY <2>3
<1>5. PICK k \in 0..(Size - 1) : within[k + 1] = within[k]
    <2>1. SUFFICES ASSUME \A k \in 0..(Size - 1) : within[k + 1] # within[k]
                   PROVE  FALSE
        OBVIOUS
    <2>2. Size + Cardinality(within[0]) <= Cardinality(within[Size])
          /\ Cardinality(within[Size]) \in Nat
        BY <1>2, <1>3, <1>4, <2>1, ChainGrows
    <2>3. Cardinality(within[0]) = 1
        BY <1>1, FS_Singleton
    <2>4. Cardinality(within[Size]) <= Size
        BY <1>2, <1>4, FS_Subset DEF Size
    <2>5. QED BY <1>2, <2>2, <2>3, <2>4
<1>6. Further(within[k]) = within[k]
    BY <1>1, <1>5
<1>7. within[Size] = within[k]
    <2> DEFINE I == {j \in Nat : k <= j /\ j <= Size => within[j] = within[k]}
    <2>1. 0 \in I
        OBVIOUS
    <2>2. ASSUME NEW j \in Nat, j \in I
          PROVE  j + 1 \in I
        <3> SUFFICES ASSUME k <= j + 1, j + 1 <= Size PROVE within[j + 1] = within[k]
            OBVIOUS
        <3>1. CASE k = j + 1
            BY <3>1
        <3>2. CASE k # j + 1
            <4>1. j \in 0..(Size - 1) /\ within[j] = within[k]
                BY <1>2, <2>2, <3>2
            <4>2. within[j + 1] = Further(within[j])
                BY <1>1, <4>1
            <4>3. QED BY <1>6, <4>1, <4>2
        <3>3. QED BY <3>1, <3>2
    <2>3. Nat \subseteq I
        <3> HIDE DEF I
        <3>1. QED BY <2>1, <2>2, NatSetInduction
    <2>4. Size \in I /\ k <= Size /\ Size <= Size
        BY <1>2, <2>3
    <2>5. QED BY <2>4
<1>8. Further(Reach(r)) = Reach(r)
    BY <1>1, <1>6, <1>7
<1>9. \A q \in Reach(r) : Inside(q) \subseteq Reach(r)
    BY <1>8 DEF Further
<1>10. QED BY <1>1, <1>2, <1>4, <1>9

\* To reach is transitive.
LEMMA ReachTransitive ==
    ASSUME in \in Inputs, NEW r \in in.build, NEW q \in Reach(r)
    PROVE  q \in in.build /\ Reach(q) \subseteq Reach(r)
<1>1. /\ Reach(r) \subseteq in.build
      /\ \A p \in Reach(r) : Inside(p) \subseteq Reach(r)
    BY ReachIsClosed
<1>2. QED BY <1>1, ReachIsLeast

----------------------------------------------------------------------------
(* The inductive invariant of the search *)

\* The packages that have an index, and those whose component is known.
Seen == {m \in in.build : index[m] # Unseen}
Settled == UNION found

\* A call in progress: its node, and the children it has not looked at.
Frames == [node : in.build, left : SUBSET in.build]

Types ==
    /\ in \in Inputs
    /\ edges \in [Recipes -> SUBSET Recipes]
    /\ phase \in {"load", "components", "waves", "raised", "jobs", "listed", "refused"}
    /\ index \in [Recipes -> {Unseen} \cup Nat] /\ low \in [Recipes -> {Unseen} \cup Nat]
    /\ stack \in Seq(in.build)
    /\ work \in Seq(Frames)
    /\ found \subseteq SUBSET in.build

\* The stack holds what is seen and not settled, in the order of discovery.
Stacked ==
    /\ OnStack = Seen \ Settled /\ Settled \subseteq Seen
    /\ \A m \in Seen : index[m] < Cardinality(Seen)
    /\ \A i, j \in DOMAIN stack : i < j => index[stack[i]] < index[stack[j]]

\* The calls in progress are a path through the stack.
Path ==
    /\ \A i \in DOMAIN work : work[i].node \in OnStack /\ work[i].left \subseteq Inside(work[i].node)
    /\ \A i, j \in DOMAIN work :
           i < j => /\ index[work[i].node] < index[work[j].node]
                    /\ work[j].node \in Reach(work[i].node)

\* A child is looked at before its parent's call returns.
ChildrenSeen ==
    \A m \in Seen : \A c \in Inside(m) :
        c \in Seen \/ \E i \in DOMAIN work : work[i].node = m /\ c \in work[i].left

\* What is settled is whole cycles, and needs only what is settled.
SettledWhole ==
    /\ found \subseteq Cycles
    /\ \A m \in Settled : Inside(m) \subseteq Settled

\* Down the stack every package reaches those above it, and each of them
\* reaches back to a call in progress that is no further up.
Connected ==
    /\ \A i, j \in DOMAIN stack : i < j => stack[j] \in Reach(stack[i])
    /\ \A m \in OnStack : \E i \in DOMAIN work :
           index[work[i].node] <= index[m] /\ work[i].node \in Reach(m)

\* The part of the stack that belongs to the i-th call and to those it has
\* made and that have returned.
Segment(i) ==
    {m \in OnStack : /\ index[work[i].node] <= index[m]
                     /\ i + 1 \in DOMAIN work => index[m] < index[work[i + 1].node]}

\* low is reached from its node, and nothing that was looked at from the
\* node's segment is below it.
LowIsLowest ==
    \A i \in DOMAIN work :
        LET n == work[i].node
        IN  /\ low[n] <= index[n]
            /\ \E m \in OnStack : index[m] = low[n] /\ m \in Reach(n)
            /\ \A m \in Segment(i) : \A c \in Inside(m) \cap OnStack :
                   (m = n /\ c \in work[i].left) \/ low[n] <= index[c]

SearchInvariant ==
    Stacked /\ Path /\ ChildrenSeen /\ SettledWhole /\ Connected /\ LowIsLowest

----------------------------------------------------------------------------
(* Lemmas *)

\* As long as the graph stands, so does what is reached in it.
LEMMA GraphStands ==
    ASSUME UNCHANGED <<in, edges>>
    PROVE  /\ \A r : Inside(r)' = Inside(r) /\ Reach(r)' = Reach(r)
           /\ Cycles' = Cycles
<1>1. \A r : Inside(r)' = Inside(r)
    BY DEF Inside
<1>2. ASSUME NEW r PROVE Reach(r)' = Reach(r)
    BY DEF Reach, Inside
<1>3. Cycles' = Cycles
    BY <1>2 DEF Cycles
<1>4. QED BY <1>1, <1>2, <1>3

\* The cycle p is in.
CycleOf(p) == {q \in in.build : q \in Reach(p) /\ p \in Reach(q)}

\* Cycles are the cycles packages are in.
LEMMA CyclesAre == Cycles = {CycleOf(p) : p \in in.build}
BY DEF Cycles, CycleOf

\* Packages of one cycle have the same cycle.
LEMMA SameCycleOf ==
    ASSUME in \in Inputs, NEW p \in in.build, NEW q \in CycleOf(p)
    PROVE  CycleOf(q) = CycleOf(p)
<1>1. q \in in.build /\ q \in Reach(p) /\ p \in Reach(q)
    BY DEF CycleOf
<1>2. Reach(q) = Reach(p)
    BY <1>1, ReachTransitive
<1>3. \A r \in in.build : p \in Reach(r) <=> q \in Reach(r)
    BY <1>1, <1>2, ReachIsClosed, ReachTransitive
<1>4. QED BY <1>2, <1>3 DEF CycleOf

\* The stack is a sequence of packages of the build set.
LEMMA OnStackIs ==
    ASSUME Types
    PROVE  /\ Len(stack) \in Nat /\ DOMAIN stack = 1..Len(stack)
           /\ OnStack = {stack[i] : i \in 1..Len(stack)}
           /\ OnStack \subseteq in.build
BY DEF Types, OnStack, ToSet

\* The calls in progress are a sequence of frames.
LEMMA WorkIs ==
    ASSUME Types
    PROVE  /\ Len(work) \in Nat /\ DOMAIN work = 1..Len(work)
           /\ \A i \in 1..Len(work) : work[i].node \in in.build /\ work[i].left \subseteq in.build
           /\ work # <<>> <=> Len(work) # 0
<1>1. work \in Seq(Frames)
    BY DEF Types
<1>2. work # <<>> <=> Len(work) # 0
    BY <1>1, EmptySeq
<1>3. \A i \in 1..Len(work) : work[i] \in Frames
    BY <1>1
<1>4. QED BY <1>1, <1>2, <1>3 DEF Frames

\* The numbers a package is given are its own.
LEMMA SeenIs ==
    ASSUME Types, Stacked
    PROVE  /\ in \in Inputs /\ in.build \subseteq Recipes
           /\ Cardinality(Seen) \in Nat
           /\ \A m \in Seen : index[m] \in Nat /\ index[m] < Cardinality(Seen) /\ m \in in.build
           /\ OnStack \subseteq Seen
           /\ \A m \in in.build : index[m] \in Int /\ low[m] \in Int
<1>1. in \in Inputs /\ IsFiniteSet(in.build) /\ in.build \subseteq Recipes
    BY BuildIsFinite DEF Types
<1>2. IsFiniteSet(Seen)
    BY <1>1, FS_Subset DEF Seen
<1>3. Cardinality(Seen) \in Nat
    BY <1>2, FS_CardinalityType
<1>4. \A m \in in.build : index[m] \in {Unseen} \cup Nat /\ low[m] \in {Unseen} \cup Nat
    BY <1>1 DEF Types
<1>5. QED BY <1>1, <1>3, <1>4 DEF Stacked, Seen, Unseen

\* Every package on the stack reaches the call that is running.
LEMMA ReachesTop ==
    ASSUME Types, Stacked, Path, Connected, NEW m \in OnStack
    PROVE  work # <<>> /\ work[Len(work)].node \in Reach(m)
<1>1. PICK i \in DOMAIN work : work[i].node \in Reach(m)
    BY DEF Connected
<1>2. i \in 1..Len(work) /\ Len(work) \in DOMAIN work /\ work # <<>> /\ work[i].node \in in.build
    BY <1>1, WorkIs
<1>3. m \in in.build /\ in \in Inputs
    BY SeenIs
<1>4. work[Len(work)].node \in Reach(work[i].node)
    <2>1. CASE i = Len(work)
        BY <1>2, <1>3, <2>1, ReachIsClosed
    <2>2. CASE i < Len(work)
        BY <1>2, <2>2 DEF Path
    <2>3. QED BY <1>2, <2>1, <2>2, WorkIs
<1>5. QED BY <1>1, <1>2, <1>3, <1>4, ReachTransitive

\* The first n of a sequence.
LEMMA PrefixIs ==
    ASSUME NEW S, NEW s \in Seq(S), NEW n \in Nat, n <= Len(s)
    PROVE  /\ SubSeq(s, 1, n) \in Seq(S) /\ Len(SubSeq(s, 1, n)) = n
           /\ \A i \in 1..n : SubSeq(s, 1, n)[i] = s[i]
<1>1. SubSeq(s, 1, n) \in Seq(S)
    OBVIOUS
<1>2. Len(SubSeq(s, 1, n)) = n
    OBVIOUS
<1>3. \A i \in 1..n : SubSeq(s, 1, n)[i] = s[i]
    OBVIOUS
<1>4. QED BY <1>1, <1>2, <1>3

\* All but the last of a sequence.
LEMMA FrontIs ==
    ASSUME NEW S, NEW s \in Seq(S), Len(s) \in Nat \ {0}
    PROVE  /\ Front(s) \in Seq(S) /\ Len(Front(s)) = Len(s) - 1
           /\ \A i \in 1..Len(s) - 1 : Front(s)[i] = s[i]
<1>1. PICK n \in Nat : n = Len(s) - 1
    OBVIOUS
<1>2. Front(s) = SubSeq(s, 1, n) /\ n <= Len(s)
    BY <1>1 DEF Front
<1>3. QED BY <1>1, <1>2, PrefixIs

----------------------------------------------------------------------------
(* A package is discovered *)

\* c is given its numbers, goes on the stack, and its call is made by the one
\* that was running, if any.
Discovers(c) ==
    /\ c \in in.build /\ index[c] = Unseen
    /\ index' = [index EXCEPT ![c] = Cardinality(Seen)]
    /\ low' = [low EXCEPT ![c] = Cardinality(Seen)]
    /\ stack' = Append(stack, c)
    /\ work' \in Seq(Frames) /\ Len(work') = Len(work) + 1
    /\ work'[Len(work) + 1].node = c /\ work'[Len(work) + 1].left = Inside(c)
    /\ \A i \in 1..Len(work) :
           /\ work'[i].node = work[i].node
           /\ work'[i].left \subseteq work[i].left
           /\ work[i].left \ {c} \subseteq work'[i].left
    /\ work # <<>> => c \in Inside(work[Len(work)].node)
    /\ UNCHANGED <<in, edges, phase, found>>

\* The frames of a call and of what it calls.
LEMMA FrameIs ==
    ASSUME NEW c \in in.build
    PROVE  /\ Frame(c) \in Frames
           /\ Frame(c).node = c /\ Frame(c).left = Inside(c)
BY DEF Frame, Inside, Frames

\* The loop over the nodes discovers one.
LEMMA VisitDiscovers ==
    ASSUME Types, Visit
    PROVE  \E c \in in.build : Discovers(c)
<1>1. PICK c \in in.build : /\ index[c] = Unseen /\ Discover(c)
                            /\ work = <<>> /\ work' = <<Frame(c)>>
    BY DEF Visit
<1>2. /\ c \in Recipes /\ index \in [Recipes -> {Unseen} \cup Nat]
      /\ low \in [Recipes -> {Unseen} \cup Nat]
    BY BuildIsFinite DEF Types
<1>3. /\ index' = [index EXCEPT ![c] = Cardinality(Seen)]
      /\ low' = [low EXCEPT ![c] = Cardinality(Seen)]
      /\ stack' = Append(stack, c)
    BY <1>1, <1>2 DEF Discover, Seen
<1>4. PICK frame \in Frames :
          frame = Frame(c) /\ frame.node = c /\ frame.left = Inside(c)
    BY FrameIs
<1>5. /\ work' \in Seq(Frames) /\ Len(work') = 1
      /\ work'[1] = frame /\ Len(work) = 0
    BY <1>1, <1>4
<1>6. UNCHANGED <<in, edges, phase, found>>
    BY DEF Visit, Untouched
<1>7. Discovers(c)
    BY <1>1, <1>3, <1>4, <1>5, <1>6 DEF Discovers
<1>8. QED BY <1>7

\* The stack of calls when the running one has looked at one more child.
LEMMA LookedIs ==
    ASSUME Types, Path, Looking
    PROVE  /\ Child \in work[Len(work)].left /\ Child \in Inside(work[Len(work)].node)
           /\ Child \in in.build /\ work # <<>>
           /\ Top = work[Len(work)]
           /\ Front(work) \o <<Looked>> \in Seq(Frames)
           /\ Len(Front(work) \o <<Looked>>) = Len(work)
           /\ \A i \in 1..Len(work) - 1 : (Front(work) \o <<Looked>>)[i] = work[i]
           /\ (Front(work) \o <<Looked>>)[Len(work)].node = work[Len(work)].node
           /\ (Front(work) \o <<Looked>>)[Len(work)].left = work[Len(work)].left \ {Child}
<1>1. /\ work \in Seq(Frames) /\ work # <<>> /\ Len(work) \in Nat \ {0}
      /\ Top = work[Len(work)] /\ Top \in Frames /\ Top.left # {}
    <2>1. work \in Seq(Frames) /\ work # <<>> /\ Top.left # {} /\ Top = work[Len(work)]
        BY DEF Types, Looking, Top, Last
    <2>2. Len(work) \in Nat \ {0}
        BY <2>1, EmptySeq
    <2>3. QED BY <2>1, <2>2
<1>2. Child \in Top.left
    <2>1. Top.left \in SUBSET Nat
        BY <1>1, BuildIsFinite DEF Types, Frames
    <2>2. \E least \in Top.left : \A n \in Top.left : least <= n
        BY <1>1, <2>1, LeastOf DEF Frames
    <2>3. QED BY <2>2 DEF Child, Min
<1>3. Child \in Inside(work[Len(work)].node) /\ Child \in in.build
    BY <1>1, <1>2, WorkIs DEF Path, Inside
<1>4. PICK looked \in Frames : /\ looked = Looked
                               /\ looked.node = Top.node /\ looked.left = Top.left \ {Child}
    <2>1. [Top EXCEPT !.left = Top.left \ {Child}] \in Frames
          /\ [Top EXCEPT !.left = Top.left \ {Child}].node = Top.node
          /\ [Top EXCEPT !.left = Top.left \ {Child}].left = Top.left \ {Child}
        BY <1>1 DEF Frames
    <2>2. QED BY <2>1 DEF Looked
<1>5. PICK front \in Seq(Frames) : /\ front = Front(work) /\ Len(front) = Len(work) - 1
                                   /\ \A i \in 1..Len(work) - 1 : front[i] = work[i]
    <2>1. work \in Seq(Frames) /\ Len(work) \in Nat \ {0}
        BY <1>1
    <2>2. QED BY <2>1, FrontIs
<1>6. PICK after : after = front \o <<looked>>
    OBVIOUS
<1>7. /\ after \in Seq(Frames) /\ Len(after) = Len(work)
      /\ \A i \in 1..Len(work) - 1 : after[i] = work[i]
      /\ after[Len(work)] = looked
    BY <1>1, <1>4, <1>5, <1>6
<1>8. after = Front(work) \o <<Looked>>
    BY <1>4, <1>5, <1>6
<1>9. QED BY <1>1, <1>2, <1>3, <1>4, <1>7, <1>8

\* The running call discovers a child.
LEMMA DescendDiscovers ==
    ASSUME Types, Path, Descend
    PROVE  \E c \in in.build : Discovers(c)
<1>1. PICK c : c = Child
    OBVIOUS
<1>2. PICK looked : looked = Front(work) \o <<Looked>>
    OBVIOUS
<1>3. /\ c \in work[Len(work)].left /\ c \in Inside(work[Len(work)].node)
      /\ c \in in.build /\ work # <<>>
      /\ looked \in Seq(Frames) /\ Len(looked) = Len(work)
      /\ \A i \in 1..Len(work) - 1 : looked[i] = work[i]
      /\ looked[Len(work)].node = work[Len(work)].node
      /\ looked[Len(work)].left = work[Len(work)].left \ {c}
    BY <1>1, <1>2, LookedIs DEF Descend
<1>4. PICK frame \in Frames : frame = Frame(c) /\ frame.node = c /\ frame.left = Inside(c)
    BY <1>3, FrameIs
<1>5. index[c] = Unseen /\ Discover(c) /\ work' = Append(looked, frame)
    BY <1>1, <1>2, <1>4 DEF Descend
<1>6. /\ c \in Recipes /\ index \in [Recipes -> {Unseen} \cup Nat]
      /\ low \in [Recipes -> {Unseen} \cup Nat]
    BY <1>3, BuildIsFinite DEF Types
<1>7. /\ index' = [index EXCEPT ![c] = Cardinality(Seen)]
      /\ low' = [low EXCEPT ![c] = Cardinality(Seen)]
      /\ stack' = Append(stack, c)
    BY <1>5, <1>6 DEF Discover, Seen
<1>8. /\ work' \in Seq(Frames) /\ Len(work') = Len(work) + 1 /\ Len(work) \in Nat
      /\ work'[Len(work) + 1] = frame
      /\ \A i \in 1..Len(work) : work'[i] = looked[i]
    BY <1>3, <1>4, <1>5
<1>9. \A i \in 1..Len(work) :
          /\ work'[i].node = work[i].node
          /\ work'[i].left \subseteq work[i].left
          /\ work[i].left \ {c} \subseteq work'[i].left
    <2> SUFFICES ASSUME NEW i \in 1..Len(work)
                 PROVE  /\ work'[i].node = work[i].node
                        /\ work'[i].left \subseteq work[i].left
                        /\ work[i].left \ {c} \subseteq work'[i].left
        OBVIOUS
    <2>1. CASE i = Len(work)
        BY <1>3, <1>8, <2>1
    <2>2. CASE i # Len(work)
        BY <1>3, <1>8, <2>2
    <2>3. QED BY <2>1, <2>2
<1>10. UNCHANGED <<in, edges, phase, found>>
    BY DEF Descend, Untouched
<1>11. Discovers(c)
    BY <1>3, <1>4, <1>5, <1>7, <1>8, <1>9, <1>10 DEF Discovers
<1>12. QED BY <1>3, <1>11

\* What the state looks like when c has been discovered.
LEMMA DiscoversDoes ==
    ASSUME Types, Stacked, Path, NEW c, Discovers(c)
    PROVE  /\ Types' /\ c \in in.build /\ c \notin Seen /\ c \notin OnStack /\ c \notin Settled
           /\ Seen' = Seen \cup {c} /\ OnStack' = OnStack \cup {c} /\ Settled' = Settled
           /\ Cardinality(Seen)' = Cardinality(Seen) + 1
           /\ index'[c] = Cardinality(Seen) /\ low'[c] = Cardinality(Seen)
           /\ \A m \in in.build : m # c => index'[m] = index[m] /\ low'[m] = low[m]
           /\ Len(stack') = Len(stack) + 1 /\ stack'[Len(stack) + 1] = c
           /\ \A i \in 1..Len(stack) : stack'[i] = stack[i]
           /\ DOMAIN work' = 1..(Len(work) + 1) /\ DOMAIN stack' = 1..(Len(stack) + 1)
<1>1. /\ in \in Inputs /\ in.build \subseteq Recipes /\ IsFiniteSet(in.build)
      /\ index \in [Recipes -> {Unseen} \cup Nat] /\ low \in [Recipes -> {Unseen} \cup Nat]
      /\ stack \in Seq(in.build) /\ c \in in.build /\ index[c] = Unseen
      /\ Cardinality(Seen) \in Nat
    BY BuildIsFinite, SeenIs DEF Types, Discovers
<1>2. c \notin Seen /\ c \notin OnStack /\ c \notin Settled
    BY <1>1 DEF Seen, Stacked
<1>3. /\ index' \in [Recipes -> {Unseen} \cup Nat] /\ low' \in [Recipes -> {Unseen} \cup Nat]
      /\ index'[c] = Cardinality(Seen) /\ low'[c] = Cardinality(Seen)
      /\ \A m \in in.build : m # c => index'[m] = index[m] /\ low'[m] = low[m]
    BY <1>1 DEF Discovers
<1>4. /\ stack' \in Seq(in.build) /\ Len(stack') = Len(stack) + 1 /\ stack'[Len(stack) + 1] = c
      /\ \A i \in 1..Len(stack) : stack'[i] = stack[i]
      /\ Len(stack) \in Nat /\ DOMAIN stack = 1..Len(stack) /\ DOMAIN stack' = 1..(Len(stack) + 1)
    BY <1>1 DEF Discovers
<1>5. Types'
    BY <1>1, <1>3, <1>4 DEF Types, Discovers, Frames
<1>6. Seen' = Seen \cup {c}
    <2>1. in' = in /\ index'[c] # Unseen
        BY <1>1, <1>3 DEF Discovers, Unseen
    <2>2. Seen' = {m \in in.build : index'[m] # Unseen}
        BY <2>1 DEF Seen
    <2>3. QED BY <1>1, <1>3, <2>1, <2>2 DEF Seen
<1>7. Cardinality(Seen)' = Cardinality(Seen) + 1
    <2>1. IsFiniteSet(Seen)
        BY <1>1, FS_Subset DEF Seen
    <2>2. Cardinality(Seen \cup {c}) = Cardinality(Seen) + 1
        BY <1>2, <2>1, FS_AddElement
    <2>3. QED BY <1>6, <2>2
<1>8. OnStack' = OnStack \cup {c}
    <2>1. OnStack = {stack[i] : i \in 1..Len(stack)}
        BY <1>4 DEF OnStack, ToSet
    <2>2. OnStack' = {stack'[i] : i \in 1..(Len(stack) + 1)}
        BY <1>4 DEF OnStack, ToSet
    <2>3. ASSUME NEW m \in OnStack' PROVE m \in OnStack \cup {c}
        <3>1. PICK i \in 1..(Len(stack) + 1) : m = stack'[i]
            BY <2>2
        <3>2. CASE i = Len(stack) + 1
            BY <1>4, <3>1, <3>2
        <3>3. CASE i \in 1..Len(stack)
            BY <1>4, <2>1, <3>1, <3>3
        <3>4. QED BY <1>4, <3>2, <3>3
    <2>4. ASSUME NEW m \in OnStack \cup {c} PROVE m \in OnStack'
        <3>1. CASE m = c
            <4>1. Len(stack) + 1 \in 1..(Len(stack) + 1)
                BY <1>4
            <4>2. QED BY <1>4, <2>2, <3>1, <4>1
        <3>2. CASE m \in OnStack
            <4>1. PICK i \in 1..Len(stack) : m = stack[i]
                BY <2>1, <3>2
            <4>2. i \in 1..(Len(stack) + 1)
                BY <1>4
            <4>3. QED BY <1>4, <2>2, <4>1, <4>2
        <3>3. QED BY <2>4, <3>1, <3>2
    <2>5. QED BY <2>3, <2>4
<1>9. Settled' = Settled
    BY DEF Settled, Discovers
<1>10. DOMAIN work' = 1..(Len(work) + 1)
    BY DEF Discovers
<1>11. QED BY <1>1, <1>2, <1>3, <1>4, <1>5, <1>6, <1>7, <1>8, <1>9, <1>10

\* A discovery keeps the invariant of the search.
LEMMA DiscoversSearch ==
    ASSUME Types, SearchInvariant, NEW c, Discovers(c)
    PROVE  Types' /\ SearchInvariant'
<1> USE DEF SearchInvariant
<1>1. /\ Types' /\ c \in in.build /\ c \notin Seen /\ c \notin OnStack /\ c \notin Settled
      /\ Seen' = Seen \cup {c} /\ OnStack' = OnStack \cup {c} /\ Settled' = Settled
      /\ Cardinality(Seen)' = Cardinality(Seen) + 1
      /\ index'[c] = Cardinality(Seen) /\ low'[c] = Cardinality(Seen)
      /\ \A m \in in.build : m # c => index'[m] = index[m] /\ low'[m] = low[m]
      /\ Len(stack') = Len(stack) + 1 /\ stack'[Len(stack) + 1] = c
      /\ \A i \in 1..Len(stack) : stack'[i] = stack[i]
      /\ DOMAIN work' = 1..(Len(work) + 1) /\ DOMAIN stack' = 1..(Len(stack) + 1)
    BY DiscoversDoes
<1>2. /\ in \in Inputs /\ in.build \subseteq Recipes
      /\ Cardinality(Seen) \in Nat
      /\ \A m \in Seen : index[m] \in Nat /\ index[m] < Cardinality(Seen) /\ m \in in.build
      /\ OnStack \subseteq Seen
      /\ \A m \in in.build : index[m] \in Int /\ low[m] \in Int
      /\ Len(stack) \in Nat /\ DOMAIN stack = 1..Len(stack)
      /\ OnStack = {stack[i] : i \in 1..Len(stack)}
      /\ Len(work) \in Nat /\ DOMAIN work = 1..Len(work)
    BY SeenIs, OnStackIs, WorkIs
<1>3. /\ in' = in /\ edges' = edges /\ found' = found
      /\ work'[Len(work) + 1].node = c /\ work'[Len(work) + 1].left = Inside(c)
      /\ \A i \in 1..Len(work) :
             /\ work'[i].node = work[i].node
             /\ work'[i].left \subseteq work[i].left
             /\ work[i].left \ {c} \subseteq work'[i].left
      /\ work # <<>> => c \in Inside(work[Len(work)].node)
    BY DEF Discovers
<1>4. (\A r : Inside(r)' = Inside(r) /\ Reach(r)' = Reach(r)) /\ Cycles' = Cycles
    BY <1>3, GraphStands
\* The nodes of the calls so far are not c and keep their numbers.
<1>5. ASSUME NEW i \in 1..Len(work)
      PROVE  /\ work[i].node \in OnStack /\ work[i].node \in Seen /\ work[i].node # c
             /\ work[i].node \in in.build
             /\ work'[i].node = work[i].node
             /\ index'[work[i].node] = index[work[i].node]
             /\ index[work[i].node] \in Nat /\ index[work[i].node] < Cardinality(Seen)
             /\ low'[work[i].node] = low[work[i].node]
    <2>1. work[i].node \in OnStack
        BY <1>2 DEF Path
    <2>2. QED BY <1>1, <1>2, <1>3, <2>1
\* Everything on the stack reaches c.
<1>6. ASSUME NEW m \in OnStack PROVE c \in Reach(m)
    <2>1. work # <<>> /\ work[Len(work)].node \in Reach(m)
        BY ReachesTop
    <2>2. c \in Inside(work[Len(work)].node) /\ m \in in.build
        BY <1>2, <1>3, <2>1
    <2>3. QED BY <1>2, <2>1, <2>2, ReachIsClosed
<1>7. Stacked'
    <2>1. OnStack' = Seen' \ Settled' /\ Settled' \subseteq Seen'
        BY <1>1 DEF Stacked
    <2>2. \A m \in Seen' : index'[m] < Cardinality(Seen)'
        BY <1>1, <1>2
    <2>3. ASSUME NEW i \in DOMAIN stack', NEW j \in DOMAIN stack', i < j
          PROVE  index'[stack'[i]] < index'[stack'[j]]
        <3>1. i \in 1..Len(stack) /\ stack'[i] = stack[i] /\ stack[i] \in OnStack
            BY <1>1, <1>2, <2>3
        <3>2. index'[stack'[i]] = index[stack[i]] /\ index[stack[i]] < Cardinality(Seen)
            BY <1>1, <1>2, <3>1
        <3>3. CASE j = Len(stack) + 1
            BY <1>1, <3>2, <3>3
        <3>4. CASE j \in 1..Len(stack)
            <4>1. stack'[j] = stack[j] /\ stack[j] \in OnStack
                BY <1>1, <1>2, <3>4
            <4>2. index'[stack'[j]] = index[stack[j]]
                BY <1>1, <1>2, <4>1
            <4>3. index[stack[i]] < index[stack[j]]
                BY <1>2, <2>3, <3>1, <3>4 DEF Stacked
            <4>4. QED BY <3>2, <4>2, <4>3
        <3>5. QED BY <1>1, <1>2, <3>3, <3>4
    <2>4. QED BY <2>1, <2>2, <2>3 DEF Stacked
<1>8. Path'
    <2>1. ASSUME NEW i \in DOMAIN work'
          PROVE  work'[i].node \in OnStack' /\ work'[i].left \subseteq Inside(work[i].node)'
        <3>1. CASE i = Len(work) + 1
            BY <1>1, <1>3, <1>4, <3>1
        <3>2. CASE i \in 1..Len(work)
            <4>1. work[i].left \subseteq Inside(work[i].node)
                BY <1>2, <3>2 DEF Path
            <4>2. QED BY <1>1, <1>3, <1>4, <1>5, <3>2, <4>1
        <3>3. QED BY <1>1, <1>2, <3>1, <3>2
    <2>2. ASSUME NEW i \in DOMAIN work', NEW j \in DOMAIN work', i < j
          PROVE  /\ index'[work'[i].node] < index'[work'[j].node]
                 /\ work'[j].node \in Reach(work[i].node)'
        <3>1. i \in 1..Len(work)
            BY <1>1, <1>2, <2>2
        <3>2. CASE j = Len(work) + 1
            <4>1. work'[j].node = c
                BY <1>3, <3>2
            <4>2. index'[work'[i].node] < index'[c]
                BY <1>1, <1>5, <3>1
            <4>3. c \in Reach(work'[i].node)
                BY <1>5, <1>6, <3>1
            <4>4. QED BY <1>4, <4>1, <4>2, <4>3
        <3>3. CASE j \in 1..Len(work)
            <4>1. /\ index[work[i].node] < index[work[j].node]
                  /\ work[j].node \in Reach(work[i].node)
                BY <1>2, <2>2, <3>1, <3>3 DEF Path
            <4>2. QED BY <1>4, <1>5, <3>1, <3>3, <4>1
        <3>4. QED BY <1>1, <1>2, <3>2, <3>3
    <2>3. QED BY <2>1, <2>2 DEF Path
<1>9. ChildrenSeen'
    <2> SUFFICES ASSUME NEW m \in Seen', NEW d \in Inside(m)', d \notin Seen'
                 PROVE  \E i \in DOMAIN work' : work'[i].node = m /\ d \in work'[i].left
        BY DEF ChildrenSeen
    <2>1. d \in Inside(m) /\ d \notin Seen /\ d # c
        BY <1>1, <1>4
    <2>2. CASE m = c
        <3>1. Len(work) + 1 \in DOMAIN work'
            BY <1>1, <1>2
        <3>2. QED BY <1>3, <2>1, <2>2, <3>1
    <2>3. CASE m \in Seen
        <3>1. PICK i \in 1..Len(work) : work[i].node = m /\ d \in work[i].left
            BY <1>2, <2>1, <2>3 DEF ChildrenSeen
        <3>2. i \in DOMAIN work'
            BY <1>1, <1>2
        <3>3. QED BY <1>3, <2>1, <3>1, <3>2
    <2>4. QED BY <1>1, <2>2, <2>3
<1>10. SettledWhole'
    BY <1>1, <1>3, <1>4 DEF SettledWhole
<1>11. Connected'
    <2>1. ASSUME NEW i \in DOMAIN stack', NEW j \in DOMAIN stack', i < j
          PROVE  stack'[j] \in Reach(stack[i])'
        <3>1. i \in 1..Len(stack) /\ stack'[i] = stack[i] /\ stack[i] \in OnStack
            BY <1>1, <1>2, <2>1
        <3>2. CASE j = Len(stack) + 1
            BY <1>1, <1>4, <1>6, <3>1, <3>2
        <3>3. CASE j \in 1..Len(stack)
            <4>1. stack[j] \in Reach(stack[i])
                BY <1>2, <2>1, <3>1, <3>3 DEF Connected
            <4>2. QED BY <1>1, <1>4, <3>1, <3>3, <4>1
        <3>4. QED BY <1>1, <1>2, <3>2, <3>3
    <2>2. ASSUME NEW m \in OnStack'
          PROVE  \E i \in DOMAIN work' :
                     index'[work'[i].node] <= index'[m] /\ work'[i].node \in Reach(m)'
        <3>1. CASE m = c
            <4>1. Len(work) + 1 \in DOMAIN work' /\ c \in Reach(c)
                BY <1>1, <1>2, ReachIsClosed
            <4>2. index'[c] <= index'[c]
                BY <1>1, <1>2
            <4>3. QED BY <1>3, <1>4, <3>1, <4>1, <4>2
        <3>2. CASE m \in OnStack
            <4>1. PICK i \in 1..Len(work) :
                      index[work[i].node] <= index[m] /\ work[i].node \in Reach(m)
                BY <1>2, <3>2 DEF Connected
            <4>2. index'[m] = index[m] /\ i \in DOMAIN work'
                BY <1>1, <1>2, <3>2
            <4>3. QED BY <1>4, <1>5, <4>1, <4>2
        <3>3. QED BY <1>1, <3>1, <3>2
    <2>3. QED BY <2>1, <2>2 DEF Connected
<1>12. LowIsLowest'
    <2>1. ASSUME NEW i \in 1..Len(work), NEW n, n = work[i].node
          PROVE  /\ low'[n] <= index'[n]
                 /\ \E m \in OnStack' : index'[m] = low'[n] /\ m \in Reach(n)'
                 /\ \A m \in Segment(i)' : \A d \in Inside(m)' \cap OnStack' :
                        (m = n /\ d \in work'[i].left) \/ low'[n] <= index'[d]
        <3>1. /\ n \in OnStack /\ n \in in.build /\ n # c /\ work'[i].node = n
              /\ index'[n] = index[n] /\ low'[n] = low[n]
              /\ index[n] \in Nat /\ index[n] < Cardinality(Seen)
            BY <1>5, <2>1
        <3>2. /\ low[n] <= index[n]
              /\ \E m \in OnStack : index[m] = low[n] /\ m \in Reach(n)
              /\ \A m \in Segment(i) : \A d \in Inside(m) \cap OnStack :
                     (m = n /\ d \in work[i].left) \/ low[n] <= index[d]
            BY <1>2, <2>1 DEF LowIsLowest
        <3>3. \E m \in OnStack' : index'[m] = low'[n] /\ m \in Reach(n)'
            <4>1. PICK m \in OnStack : index[m] = low[n] /\ m \in Reach(n)
                BY <3>2
            <4>2. m \in OnStack' /\ index'[m] = index[m]
                BY <1>1, <1>2
            <4>3. QED BY <1>4, <3>1, <4>1, <4>2
        <3>4. ASSUME NEW m \in Segment(i)'
              PROVE  m \in Segment(i)
            <4>1. /\ m \in OnStack' /\ index'[n] <= index'[m]
                  /\ i + 1 \in DOMAIN work' => index'[m] < index'[work'[i + 1].node]
                BY <3>1 DEF Segment
            <4>2. i + 1 \in DOMAIN work' /\ index'[m] < index'[work'[i + 1].node]
                BY <1>1, <1>2, <4>1
            <4>3. m # c
                <5>1. CASE i = Len(work)
                    BY <1>1, <1>2, <1>3, <4>2, <5>1
                <5>2. CASE i # Len(work)
                    <6>1. i + 1 \in 1..Len(work)
                        BY <1>2, <5>2
                    <6>2. index'[work'[i + 1].node] < Cardinality(Seen)
                        BY <1>5, <6>1
                    <6>3. index'[work'[i + 1].node] \in Nat
                        BY <1>5, <6>1
                    <6>4. QED BY <1>1, <1>2, <4>2, <6>2, <6>3
                <5>3. QED BY <5>1, <5>2
            <4>4. m \in OnStack /\ index'[m] = index[m] /\ index[m] \in Nat
                BY <1>1, <1>2, <4>1, <4>3
            <4>5. i + 1 \in DOMAIN work => index[m] < index[work[i + 1].node]
                <5>1. ASSUME i + 1 \in DOMAIN work PROVE index[m] < index[work[i + 1].node]
                    <6>1. i + 1 \in 1..Len(work)
                        BY <1>2, <5>1
                    <6>2. index'[work'[i + 1].node] = index[work[i + 1].node]
                        BY <1>5, <6>1
                    <6>3. QED BY <4>2, <4>4, <6>2
                <5>2. QED BY <5>1
            <4>6. index[n] <= index[m]
                BY <3>1, <4>1, <4>4
            <4>7. QED BY <2>1, <4>4, <4>5, <4>6 DEF Segment
        <3>5. ASSUME NEW m \in Segment(i)', NEW d \in Inside(m)' \cap OnStack'
              PROVE  (m = n /\ d \in work'[i].left) \/ low'[n] <= index'[d]
            <4>1. m \in Segment(i) /\ d \in Inside(m)
                BY <1>4, <3>4
            <4>2. CASE d = c
                BY <1>1, <1>2, <3>1, <3>2, <4>2
            <4>3. CASE d # c
                <5>1. d \in OnStack /\ index'[d] = index[d]
                    BY <1>1, <1>2, <4>3
                <5>2. (m = n /\ d \in work[i].left) \/ low[n] <= index[d]
                    BY <3>2, <4>1, <5>1
                <5>3. QED BY <1>3, <3>1, <4>3, <5>1, <5>2
            <4>4. QED BY <4>2, <4>3
        <3>6. QED BY <3>1, <3>2, <3>3, <3>5
    <2>2. ASSUME NEW i, i = Len(work) + 1
          PROVE  /\ low'[c] <= index'[c]
                 /\ \E m \in OnStack' : index'[m] = low'[c] /\ m \in Reach(c)'
                 /\ \A m \in Segment(i)' : \A d \in Inside(m)' \cap OnStack' :
                        (m = c /\ d \in work'[i].left) \/ low'[c] <= index'[d]
        <3>1. low'[c] <= index'[c] /\ index'[c] = low'[c] /\ c \in OnStack' /\ c \in Reach(c)
            BY <1>1, <1>2, ReachIsClosed
        <3>2. ASSUME NEW m \in Segment(i)'
              PROVE  m = c
            <4>1. m \in OnStack' /\ index'[c] <= index'[m]
                BY <1>3, <2>2, <3>2 DEF Segment
            <4>2. SUFFICES ASSUME m # c PROVE FALSE
                OBVIOUS
            <4>3. m \in OnStack /\ index'[m] = index[m] /\ index[m] < Cardinality(Seen)
                  /\ index[m] \in Nat
                BY <1>1, <1>2, <4>1, <4>2
            <4>4. QED BY <1>1, <1>2, <4>1, <4>3
        <3>3. \A m \in Segment(i)' : \A d \in Inside(m)' \cap OnStack' :
                  (m = c /\ d \in work'[i].left) \/ low'[c] <= index'[d]
            BY <1>3, <1>4, <2>2, <3>2
        <3>4. QED BY <1>4, <3>1, <3>3
    <2>3. ASSUME NEW i \in DOMAIN work', NEW n, n = work'[i].node
          PROVE  /\ low'[n] <= index'[n]
                 /\ \E m \in OnStack' : index'[m] = low'[n] /\ m \in Reach(n)'
                 /\ \A m \in Segment(i)' : \A d \in Inside(m)' \cap OnStack' :
                        (m = n /\ d \in work'[i].left) \/ low'[n] <= index'[d]
        <3>1. CASE i \in 1..Len(work)
            <4>1. n = work[i].node
                BY <1>3, <2>3, <3>1
            <4>2. QED BY <2>1, <3>1, <4>1
        <3>2. CASE i = Len(work) + 1
            <4>1. n = c
                BY <1>3, <2>3, <3>2
            <4>2. QED BY <2>2, <3>2, <4>1
        <3>3. QED BY <1>1, <1>2, <2>3, <3>1, <3>2
    <2>4. QED BY <2>3 DEF LowIsLowest
<1>13. QED BY <1>1, <1>7, <1>8, <1>9, <1>10, <1>11, <1>12

----------------------------------------------------------------------------
(* The running call looks at a child that has been seen *)

\* The smaller of two numbers.
LEMMA MinOfTwo ==
    ASSUME NEW a \in Int, NEW b \in Int
    PROVE  /\ Min({a, b}) \in {a, b} /\ Min({a, b}) <= a /\ Min({a, b}) <= b
<1>1. \E x \in {a, b} : \A y \in {a, b} : x <= y
    <2>1. CASE a <= b
        BY <2>1
    <2>2. CASE b <= a
        BY <2>2
    <2>3. QED BY <2>1, <2>2
<1>2. Min({a, b}) \in {a, b} /\ \A y \in {a, b} : Min({a, b}) <= y
    BY <1>1 DEF Min
<1>3. QED BY <1>2

\* The calls and the stack are what they were; n, which runs, has looked at c,
\* and low[n] is not above index[c] if c is on the stack.
LooksAt(n, c) ==
    /\ Len(work) # 0 /\ n = work[Len(work)].node
    /\ c \in work[Len(work)].left /\ c \in Inside(n) /\ c \in Seen
    /\ low' \in [Recipes -> {Unseen} \cup Nat]
    /\ \A m \in in.build : m # n => low'[m] = low[m]
    /\ low'[n] <= low[n]
    /\ c \in OnStack => low'[n] <= index[c]
    /\ low'[n] = low[n] \/ (c \in OnStack /\ low'[n] = index[c])
    /\ work' \in Seq(Frames) /\ Len(work') = Len(work)
    /\ \A i \in 1..Len(work) - 1 : work'[i] = work[i]
    /\ work'[Len(work)].node = n /\ work'[Len(work)].left = work[Len(work)].left \ {c}
    /\ UNCHANGED <<in, edges, phase, index, stack, found>>

\* That is what LookBack does.
LEMMA LookBackLooks ==
    ASSUME Types, Stacked, Path, LookBack
    PROVE  \E n \in in.build, c \in in.build : LooksAt(n, c)
<1>1. PICK n : n = work[Len(work)].node
    OBVIOUS
<1>2. PICK c : c = Child
    OBVIOUS
<1>3. PICK looked : looked = Front(work) \o <<Looked>>
    OBVIOUS
<1>4. /\ Looking /\ index[c] # Unseen /\ work' = looked
      /\ UNCHANGED <<in, edges, phase, index, stack, found>>
    BY <1>2, <1>3 DEF LookBack, Untouched
<1>5. /\ c \in work[Len(work)].left /\ c \in Inside(n) /\ c \in in.build /\ work # <<>>
      /\ Top = work[Len(work)]
      /\ looked \in Seq(Frames) /\ Len(looked) = Len(work)
      /\ \A i \in 1..Len(work) - 1 : looked[i] = work[i]
      /\ looked[Len(work)].node = n
      /\ looked[Len(work)].left = work[Len(work)].left \ {c}
    BY <1>1, <1>2, <1>3, <1>4, LookedIs
<1>6. /\ n \in in.build /\ Len(work) # 0 /\ in.build \subseteq Recipes
      /\ low \in [Recipes -> {Unseen} \cup Nat] /\ index \in [Recipes -> {Unseen} \cup Nat]
      /\ c \in Seen /\ low[n] \in Int /\ index[c] \in Nat
    <2>1. Len(work) # 0 /\ Len(work) \in 1..Len(work)
        BY <1>5, WorkIs
    <2>2. n \in in.build
        BY <1>1, <2>1, WorkIs
    <2>3. c \in Seen
        BY <1>4, <1>5 DEF Seen
    <2>4. QED BY <2>1, <2>2, <2>3, SeenIs DEF Types
<1>7. low' = [low EXCEPT ![n] = Lowered(n, c)]
    BY <1>1, <1>2, <1>5 DEF LookBack
<1>8. /\ Lowered(n, c) \in {Unseen} \cup Nat /\ Lowered(n, c) <= low[n]
      /\ c \in OnStack => Lowered(n, c) <= index[c]
      /\ Lowered(n, c) = low[n] \/ (c \in OnStack /\ Lowered(n, c) = index[c])
    <2>1. low[n] \in {Unseen} \cup Nat
        BY <1>6
    <2>2. CASE c \in OnStack
        <3>1. PICK a \in Int, b \in Int : a = low[n] /\ b = index[c]
            BY <1>6
        <3>2. Lowered(n, c) = Min({a, b})
            BY <2>2, <3>1 DEF Lowered
        <3>3. Min({a, b}) \in {a, b} /\ Min({a, b}) <= a /\ Min({a, b}) <= b
            BY MinOfTwo
        <3>4. a \in {Unseen} \cup Nat /\ b \in {Unseen} \cup Nat
            BY <1>6, <2>1, <3>1
        <3>5. QED BY <2>2, <3>1, <3>2, <3>3, <3>4
    <2>3. CASE c \notin OnStack
        BY <1>6, <2>1, <2>3 DEF Lowered
    <2>4. QED BY <2>2, <2>3
<1>9. LooksAt(n, c)
    BY <1>1, <1>4, <1>5, <1>6, <1>7, <1>8 DEF LooksAt
<1>10. QED BY <1>5, <1>6, <1>9

\* Looking at a child keeps the invariant of the search.
LEMMA LooksAtSearch ==
    ASSUME Types, SearchInvariant, NEW n \in in.build, NEW c \in in.build, LooksAt(n, c)
    PROVE  Types' /\ SearchInvariant'
<1> USE DEF SearchInvariant
<1>1. /\ in \in Inputs /\ in.build \subseteq Recipes
      /\ \A m \in Seen : index[m] \in Nat /\ m \in in.build
      /\ OnStack \subseteq Seen
      /\ \A m \in in.build : index[m] \in Int /\ low[m] \in Int
      /\ Len(work) \in Nat /\ DOMAIN work = 1..Len(work)
      /\ \A i \in 1..Len(work) : work[i].node \in in.build
    BY SeenIs, WorkIs
<1>2. /\ Len(work) # 0 /\ n = work[Len(work)].node
      /\ c \in work[Len(work)].left /\ c \in Inside(n) /\ c \in Seen
      /\ low' \in [Recipes -> {Unseen} \cup Nat]
      /\ \A m \in in.build : m # n => low'[m] = low[m]
      /\ low'[n] <= low[n]
      /\ c \in OnStack => low'[n] <= index[c]
      /\ low'[n] = low[n] \/ (c \in OnStack /\ low'[n] = index[c])
      /\ work' \in Seq(Frames) /\ Len(work') = Len(work)
      /\ \A i \in 1..Len(work) - 1 : work'[i] = work[i]
      /\ work'[Len(work)].node = n /\ work'[Len(work)].left = work[Len(work)].left \ {c}
      /\ UNCHANGED <<in, edges, phase, index, stack, found>>
    BY DEF LooksAt
<1>3. (\A r : Inside(r)' = Inside(r) /\ Reach(r)' = Reach(r)) /\ Cycles' = Cycles
    BY <1>2, GraphStands
<1>4. Seen' = Seen /\ OnStack' = OnStack /\ Settled' = Settled
    BY <1>2 DEF Seen, OnStack, Settled
<1>5. /\ DOMAIN work' = 1..Len(work)
      /\ \A i \in 1..Len(work) : /\ work'[i].node = work[i].node
                                 /\ work'[i].left \subseteq work[i].left
                                 /\ work[i].left \ {c} \subseteq work'[i].left
    <2>1. DOMAIN work' = 1..Len(work)
        BY <1>2
    <2>2. ASSUME NEW i \in 1..Len(work)
          PROVE  /\ work'[i].node = work[i].node
                 /\ work'[i].left \subseteq work[i].left
                 /\ work[i].left \ {c} \subseteq work'[i].left
        <3>1. CASE i = Len(work)
            BY <1>2, <3>1
        <3>2. CASE i # Len(work)
            <4>1. i \in 1..Len(work) - 1
                <5>1. Len(work) \in Nat
                    BY <1>1
                <5>2. QED BY <2>2, <3>2, <5>1
            <4>2. work'[i] = work[i]
                BY <1>2, <4>1
            <4>3. QED BY <4>2
        <3>3. QED BY <3>1, <3>2
    <2>3. QED BY <2>1, <2>2
<1>6. Types'
    BY <1>2 DEF Types, Frames
<1>7. Stacked'
    BY <1>2, <1>4 DEF Stacked
<1>8. Path'
    <2>1. ASSUME NEW i \in DOMAIN work'
          PROVE  work'[i].node \in OnStack' /\ work'[i].left \subseteq Inside(work[i].node)'
        <3>1. work[i].node \in OnStack /\ work[i].left \subseteq Inside(work[i].node)
            BY <1>1, <1>5, <2>1 DEF Path
        <3>2. QED BY <1>3, <1>4, <1>5, <2>1, <3>1
    <2>2. ASSUME NEW i \in DOMAIN work', NEW j \in DOMAIN work', i < j
          PROVE  /\ index'[work'[i].node] < index'[work'[j].node]
                 /\ work'[j].node \in Reach(work[i].node)'
        <3>1. /\ index[work[i].node] < index[work[j].node]
              /\ work[j].node \in Reach(work[i].node)
            BY <1>1, <1>5, <2>2 DEF Path
        <3>2. QED BY <1>2, <1>3, <1>5, <2>2, <3>1
    <2>3. QED BY <2>1, <2>2 DEF Path
<1>9. ChildrenSeen'
    <2> SUFFICES ASSUME NEW m \in Seen', NEW d \in Inside(m)', d \notin Seen'
                 PROVE  \E i \in DOMAIN work' : work'[i].node = m /\ d \in work'[i].left
        BY DEF ChildrenSeen
    <2>1. m \in Seen /\ d \in Inside(m) /\ d \notin Seen /\ d # c
        BY <1>2, <1>3, <1>4
    <2>2. PICK i \in 1..Len(work) : work[i].node = m /\ d \in work[i].left
        BY <1>1, <2>1 DEF ChildrenSeen
    <2>3. QED BY <1>5, <2>1, <2>2
<1>10. SettledWhole'
    BY <1>2, <1>3, <1>4 DEF SettledWhole
<1>11. Connected'
    <2>1. \A i, j \in DOMAIN stack' : i < j => stack'[j] \in Reach(stack[i])'
        BY <1>2, <1>3 DEF Connected
    <2>2. ASSUME NEW m \in OnStack'
          PROVE  \E i \in DOMAIN work' :
                     index'[work'[i].node] <= index'[m] /\ work'[i].node \in Reach(m)'
        <3>1. PICK i \in 1..Len(work) :
                  index[work[i].node] <= index[m] /\ work[i].node \in Reach(m)
            BY <1>1, <1>4 DEF Connected
        <3>2. QED BY <1>2, <1>3, <1>5, <3>1
    <2>3. QED BY <2>1, <2>2 DEF Connected
<1>12. LowIsLowest'
    <2>1. ASSUME NEW i \in DOMAIN work', NEW p, p = work'[i].node
          PROVE  /\ low'[p] <= index'[p]
                 /\ \E m \in OnStack' : index'[m] = low'[p] /\ m \in Reach(p)'
                 /\ \A m \in Segment(i)' : \A d \in Inside(m)' \cap OnStack' :
                        (m = p /\ d \in work'[i].left) \/ low'[p] <= index'[d]
        <3>1. i \in 1..Len(work) /\ p = work[i].node /\ p \in in.build
            BY <1>1, <1>5, <2>1
        <3>2. /\ low[p] <= index[p]
              /\ \E m \in OnStack : index[m] = low[p] /\ m \in Reach(p)
              /\ \A m \in Segment(i) : \A d \in Inside(m) \cap OnStack :
                     (m = p /\ d \in work[i].left) \/ low[p] <= index[d]
            BY <1>1, <3>1 DEF LowIsLowest
        <3>3. ASSUME NEW m \in Segment(i)' PROVE m \in Segment(i)
            <4>1. /\ m \in OnStack /\ index[work[i].node] <= index[m]
                  /\ i + 1 \in DOMAIN work' => index[m] < index[work'[i + 1].node]
                BY <1>2, <1>4, <2>1, <3>1, <3>3 DEF Segment
            <4>2. i + 1 \in DOMAIN work => index[m] < index[work[i + 1].node]
                BY <1>1, <1>5, <4>1
            <4>3. QED BY <4>1, <4>2 DEF Segment
        <3>4. low'[p] <= low[p] /\ low'[p] \in Int
            <4>1. low'[p] \in {Unseen} \cup Nat
                BY <1>1, <1>2, <3>1
            <4>2. low'[p] \in Int
                BY <4>1 DEF Unseen
            <4>3. low'[p] <= low[p]
                <5>1. CASE p = n
                    BY <1>2, <5>1
                <5>2. CASE p # n
                    BY <1>1, <1>2, <3>1, <5>2
                <5>3. QED BY <5>1, <5>2
            <4>4. QED BY <4>2, <4>3
        <3>5. low'[p] <= index'[p]
            BY <1>1, <1>2, <3>1, <3>2, <3>4
        <3>6. \E m \in OnStack' : index'[m] = low'[p] /\ m \in Reach(p)'
            <4>1. CASE low'[p] = low[p]
                BY <1>2, <1>3, <1>4, <3>2, <4>1
            <4>2. CASE low'[p] # low[p]
                <5>1. p = n /\ c \in OnStack /\ low'[p] = index[c]
                    BY <1>2, <3>1, <4>2
                <5>2. c \in Reach(n)
                    BY <1>1, <1>2, ReachIsClosed
                <5>3. QED BY <1>2, <1>3, <1>4, <5>1, <5>2
            <4>3. QED BY <4>1, <4>2
        <3>7. ASSUME NEW m \in Segment(i)', NEW d \in Inside(m)' \cap OnStack'
              PROVE  (m = p /\ d \in work'[i].left) \/ low'[p] <= index'[d]
            <4>1. m \in Segment(i) /\ d \in Inside(m) /\ d \in OnStack
                BY <1>3, <1>4, <3>3, <3>7
            <4>2. (m = p /\ d \in work[i].left) \/ low[p] <= index[d]
                BY <3>2, <4>1
            <4>3. index[d] \in Int /\ index'[d] = index[d]
                BY <1>1, <1>2, <4>1
            <4>4. CASE low[p] <= index[d]
                BY <1>1, <3>1, <3>4, <4>3, <4>4
            <4>5. CASE m = p /\ d \in work[i].left
                <5>1. CASE d # c
                    BY <1>5, <3>1, <4>5, <5>1
                <5>2. CASE d = c /\ i = Len(work)
                    BY <1>2, <3>1, <4>1, <4>3, <5>2
                <5>3. CASE i # Len(work)
                    <6>1. work'[i] = work[i]
                        BY <1>1, <1>2, <3>1, <5>3
                    <6>2. QED BY <4>5, <6>1
                <5>4. QED BY <5>1, <5>2, <5>3
            <4>6. QED BY <4>2, <4>4, <4>5
        <3>8. QED BY <3>5, <3>6, <3>7
    <2>2. QED BY <2>1 DEF LowIsLowest
<1>13. QED BY <1>6, <1>7, <1>8, <1>9, <1>10, <1>11, <1>12

----------------------------------------------------------------------------
(* The running call returns *)

\* The call of n is over; its caller, if there is one, takes the lower low.
Returns(n) ==
    /\ Len(work) # 0 /\ n = work[Len(work)].node /\ work[Len(work)].left = {}
    /\ work' \in Seq(Frames) /\ Len(work') = Len(work) - 1
    /\ \A i \in 1..Len(work) - 1 : work'[i] = work[i]
    /\ low' \in [Recipes -> {Unseen} \cup Nat]
    /\ \A m \in in.build : (Len(work) = 1 \/ m # work[Len(work) - 1].node) => low'[m] = low[m]
    /\ Len(work) # 1 => LET p == work[Len(work) - 1].node
                        IN  low'[p] \in {low[p], low[n]} /\ low'[p] <= low[p] /\ low'[p] <= low[n]
    /\ UNCHANGED <<in, edges, phase, index>>

\* n is not a root: it stays on the stack.
Stays(n) == low[n] # index[n] /\ UNCHANGED <<stack, found>>

\* n is a root: the part of the stack from n up is a component.
Settles(n) ==
    /\ low[n] = index[n]
    /\ found' = found \cup {Members(n)}
    /\ stack' = SubSeq(stack, 1, Place(n) - 1)

\* That is what Return does.
LEMMA ReturnReturns ==
    ASSUME Types, Stacked, Path, Return
    PROVE  \E n \in in.build : Returns(n) /\ (Stays(n) \/ Settles(n))
<1>1. PICK n : n = work[Len(work)].node
    OBVIOUS
<1>2. PICK rest : rest = Front(work)
    OBVIOUS
<1>3. /\ Top = work[Len(work)] /\ work # <<>> /\ work[Len(work)].left = {} /\ work' = rest
      /\ low' = IF rest = <<>> THEN low
                ELSE [low EXCEPT ![Last(rest).node] = Min({low[Last(rest).node], low[n]})]
      /\ Stays(n) \/ Settles(n)
      /\ UNCHANGED <<in, edges, phase, index>>
    BY <1>1, <1>2 DEF Return, Top, Last, Untouched, Stays, Settles
<1>4. /\ Len(work) \in Nat \ {0} /\ work \in Seq(Frames)
      /\ \A i \in 1..Len(work) : work[i].node \in in.build
      /\ in.build \subseteq Recipes /\ low \in [Recipes -> {Unseen} \cup Nat]
      /\ \A m \in in.build : low[m] \in Int
    BY <1>3, WorkIs, SeenIs DEF Types
<1>5. n \in in.build
    BY <1>1, <1>4
<1>6. /\ rest \in Seq(Frames) /\ Len(rest) = Len(work) - 1
      /\ \A i \in 1..Len(work) - 1 : rest[i] = work[i]
    <2>1. work \in Seq(Frames) /\ Len(work) \in Nat \ {0}
        BY <1>4
    <2>2. QED BY <1>2, <2>1, FrontIs
<1>7. /\ low' \in [Recipes -> {Unseen} \cup Nat]
      /\ \A m \in in.build : (Len(work) = 1 \/ m # work[Len(work) - 1].node) => low'[m] = low[m]
      /\ Len(work) # 1 => LET p == work[Len(work) - 1].node
                          IN  low'[p] \in {low[p], low[n]} /\ low'[p] <= low[p] /\ low'[p] <= low[n]
    <2>1. CASE Len(work) = 1
        <3>1. rest = <<>>
            BY <1>4, <1>6, <2>1, EmptySeq
        <3>2. QED BY <1>3, <1>4, <2>1, <3>1
    <2>2. CASE Len(work) # 1
        <3>1. Len(rest) \in Nat \ {0} /\ Len(work) - 1 \in 1..Len(work) - 1 /\ Len(work) - 1 \in 1..Len(work)
            BY <1>4, <1>6, <2>2
        <3>2. rest # <<>>
            BY <1>6, <3>1, EmptySeq
        <3>3. PICK p \in in.build : p = work[Len(work) - 1].node
            BY <1>4, <3>1
        <3>4. Last(rest).node = p
            BY <1>6, <3>1, <3>3 DEF Last
        <3>5. PICK a \in Int, b \in Int : a = low[p] /\ b = low[n]
            BY <1>4, <1>5
        <3>6. Min({a, b}) \in {a, b} /\ Min({a, b}) <= a /\ Min({a, b}) <= b
            BY MinOfTwo
        <3>7. PICK least : least = Min({a, b})
            OBVIOUS
        <3>8. low' = [low EXCEPT ![p] = least]
            BY <1>3, <3>2, <3>4, <3>5, <3>7
        <3>9. least \in {a, b} /\ least <= a /\ least <= b
            BY <3>6, <3>7
        <3>10. a \in {Unseen} \cup Nat /\ b \in {Unseen} \cup Nat /\ p \in Recipes
            BY <1>4, <1>5, <3>5
        <3>11. low' \in [Recipes -> {Unseen} \cup Nat]
            BY <1>4, <3>8, <3>9, <3>10
        <3>12. low'[p] = least /\ \A m \in in.build : m # p => low'[m] = low[m]
            BY <1>4, <3>8, <3>10
        <3>13. QED BY <2>2, <3>3, <3>5, <3>9, <3>11, <3>12
    <2>3. QED BY <2>1, <2>2
<1>8. Returns(n)
    BY <1>1, <1>3, <1>4, <1>6, <1>7 DEF Returns
<1>9. QED BY <1>3, <1>5, <1>8

\* What the state looks like when n returns.
LEMMA ReturnsDoes ==
    ASSUME Types, SearchInvariant, NEW n \in in.build, Returns(n)
    PROVE  /\ in \in Inputs /\ in.build \subseteq Recipes
           /\ Len(work) \in Nat \ {0} /\ Len(stack) \in Nat
           /\ DOMAIN work = 1..Len(work) /\ DOMAIN work' = 1..Len(work) - 1
           /\ \A i \in 1..Len(work) - 1 : work'[i] = work[i] /\ i \in 1..Len(work)
           /\ n \in OnStack
           /\ \A i \in 1..Len(work) - 1 :
                  /\ work[i].node \in OnStack /\ work[i].node \in in.build
                  /\ index[work[i].node] < index[n] /\ n \in Reach(work[i].node)
           /\ \A m \in in.build : index[m] \in Int /\ low[m] \in Int
           /\ OnStack \subseteq in.build
           /\ \A m \in OnStack : index[n] <= index[m] =>
                  \A d \in Inside(m) : d \in Seen /\ (d \in OnStack => low[n] <= index[d])
           /\ Seen' = Seen
<1> USE DEF SearchInvariant
<1>1. /\ in \in Inputs /\ in.build \subseteq Recipes
      /\ Len(work) \in Nat /\ Len(work) # 0 /\ Len(stack) \in Nat
      /\ DOMAIN work = 1..Len(work) /\ n = work[Len(work)].node
      /\ work[Len(work)].left = {}
      /\ \A m \in in.build : index[m] \in Int /\ low[m] \in Int
      /\ OnStack \subseteq in.build
      /\ \A i \in 1..Len(work) : work[i].node \in in.build
    BY SeenIs, WorkIs, OnStackIs DEF Returns
<1>2. /\ DOMAIN work' = 1..Len(work) - 1
      /\ \A i \in 1..Len(work) - 1 : work'[i] = work[i]
      /\ in' = in /\ index' = index
    BY <1>1 DEF Returns
<1>3. /\ Len(work) \in 1..Len(work)
      /\ \A i \in 1..Len(work) - 1 : i \in 1..Len(work) /\ i < Len(work)
    BY <1>1
<1>4. n \in OnStack
    BY <1>1, <1>3 DEF Path
<1>5. ASSUME NEW i \in 1..Len(work) - 1
      PROVE  /\ work[i].node \in OnStack /\ work[i].node \in in.build
             /\ index[work[i].node] < index[n] /\ n \in Reach(work[i].node)
    BY <1>1, <1>3, <1>5 DEF Path
<1>6. ASSUME NEW m \in OnStack, index[n] <= index[m], NEW d \in Inside(m)
      PROVE  d \in Seen /\ (d \in OnStack => low[n] <= index[d])
    <2>1. ASSUME NEW i \in 1..Len(work), work[i].node = m, d \in work[i].left
          PROVE  FALSE
        <3>1. CASE i = Len(work)
            BY <1>1, <2>1, <3>1
        <3>2. CASE i # Len(work)
            <4>1. i \in 1..Len(work) - 1
                <5>1. Len(work) \in Nat
                    BY <1>1
                <5>2. QED BY <2>1, <3>2, <5>1
            <4>2. index[m] < index[n]
                BY <1>5, <2>1, <4>1
            <4>3. index[m] \in Int /\ index[n] \in Int
                BY <1>1, <1>6
            <4>4. QED BY <1>6, <4>2, <4>3
        <3>3. QED BY <3>1, <3>2
    <2>2. m \in Seen
        BY <1>6 DEF Stacked
    <2>3. d \in Seen
        BY <1>1, <1>6, <2>1, <2>2 DEF ChildrenSeen
    <2>4. ASSUME d \in OnStack PROVE low[n] <= index[d]
        <3>1. m \in Segment(Len(work))
            <4>1. ~(Len(work) + 1 \in DOMAIN work)
                BY <1>1
            <4>2. QED BY <1>1, <1>6, <4>1 DEF Segment
        <3>2. (m = n /\ d \in work[Len(work)].left) \/ low[n] <= index[d]
            BY <1>1, <1>3, <1>6, <2>4, <3>1 DEF LowIsLowest
        <3>3. QED BY <1>1, <3>2
    <2>5. QED BY <2>3, <2>4
<1>7. Seen' = Seen
    BY <1>2 DEF Seen
<1>8. QED BY <1>1, <1>2, <1>3, <1>4, <1>5, <1>6, <1>7

\* A call that stays on the stack.
LEMMA StaysSearch ==
    ASSUME Types, SearchInvariant, NEW n \in in.build, Returns(n), Stays(n)
    PROVE  Types' /\ SearchInvariant'
<1> USE DEF SearchInvariant
<1>1. /\ in \in Inputs /\ in.build \subseteq Recipes
      /\ Len(work) \in Nat \ {0}
      /\ DOMAIN work = 1..Len(work) /\ DOMAIN work' = 1..Len(work) - 1
      /\ \A i \in 1..Len(work) - 1 : work'[i] = work[i] /\ i \in 1..Len(work)
      /\ n \in OnStack
      /\ \A i \in 1..Len(work) - 1 :
             /\ work[i].node \in OnStack /\ work[i].node \in in.build
             /\ index[work[i].node] < index[n] /\ n \in Reach(work[i].node)
      /\ \A m \in in.build : index[m] \in Int /\ low[m] \in Int
      /\ OnStack \subseteq in.build
      /\ \A m \in OnStack : index[n] <= index[m] =>
             \A d \in Inside(m) : d \in Seen /\ (d \in OnStack => low[n] <= index[d])
      /\ Seen' = Seen
    BY ReturnsDoes
<1>2. /\ n = work[Len(work)].node /\ work[Len(work)].left = {}
      /\ low' \in [Recipes -> {Unseen} \cup Nat]
      /\ \A m \in in.build : (Len(work) = 1 \/ m # work[Len(work) - 1].node) => low'[m] = low[m]
      /\ work' \in Seq(Frames) /\ low[n] # index[n]
      /\ UNCHANGED <<in, edges, phase, index, stack, found>>
    BY DEF Returns, Stays
<1>3. (\A r : Inside(r)' = Inside(r) /\ Reach(r)' = Reach(r)) /\ Cycles' = Cycles
    BY <1>2, GraphStands
<1>4. OnStack' = OnStack /\ Settled' = Settled
    BY <1>2 DEF OnStack, Settled
<1>5. Len(work) \in 1..Len(work)
    BY <1>1
\* n reaches a package below it, and from there a call that is still running.
<1>6. PICK low1 \in OnStack : index[low1] = low[n] /\ low1 \in Reach(n)
    BY <1>1, <1>2, <1>5 DEF LowIsLowest
<1>7. index[low1] < index[n]
    <2>1. low[n] <= index[n] /\ low[n] \in Int /\ index[n] \in Int
        BY <1>1, <1>2, <1>5 DEF LowIsLowest
    <2>2. QED BY <1>2, <1>6, <2>1
<1>8. PICK k \in 1..Len(work) - 1 :
          /\ index[work[k].node] <= index[low1] /\ work[k].node \in Reach(n)
    <2>1. PICK k \in 1..Len(work) :
              index[work[k].node] <= index[low1] /\ work[k].node \in Reach(low1)
        BY <1>1, <1>6 DEF Connected
    <2>2. index[low1] \in Int /\ index[n] \in Int
        BY <1>1, <1>6
    <2>3. k # Len(work)
        BY <1>2, <1>7, <2>1, <2>2
    <2>4. k \in 1..Len(work) - 1
        <3>1. Len(work) \in Nat
            BY <1>1
        <3>2. QED BY <2>1, <2>3, <3>1
    <2>5. work[k].node \in Reach(n)
        BY <1>1, <1>6, <2>1, ReachTransitive
    <2>6. QED BY <2>1, <2>4, <2>5
<1>9. Types'
    BY <1>2 DEF Types, Frames
<1>10. Stacked'
    BY <1>1, <1>2, <1>4 DEF Stacked
<1>11. Path'
    <2>1. ASSUME NEW i \in DOMAIN work'
          PROVE  work'[i].node \in OnStack' /\ work'[i].left \subseteq Inside(work[i].node)'
        <3>1. i \in 1..Len(work) /\ work'[i] = work[i]
            BY <1>1, <2>1
        <3>2. work[i].node \in OnStack /\ work[i].left \subseteq Inside(work[i].node)
            BY <1>1, <3>1 DEF Path
        <3>3. QED BY <1>3, <1>4, <3>1, <3>2
    <2>2. ASSUME NEW i \in DOMAIN work', NEW j \in DOMAIN work', i < j
          PROVE  /\ index'[work'[i].node] < index'[work'[j].node]
                 /\ work'[j].node \in Reach(work[i].node)'
        <3>1. /\ i \in 1..Len(work) /\ j \in 1..Len(work)
              /\ work'[i] = work[i] /\ work'[j] = work[j]
            BY <1>1, <2>2
        <3>2. index[work[i].node] < index[work[j].node] /\ work[j].node \in Reach(work[i].node)
            BY <1>1, <2>2, <3>1 DEF Path
        <3>3. QED BY <1>2, <1>3, <3>1, <3>2
    <2>3. QED BY <2>1, <2>2 DEF Path
<1>12. ChildrenSeen'
    <2> SUFFICES ASSUME NEW m \in Seen', NEW d \in Inside(m)', d \notin Seen'
                 PROVE  \E i \in DOMAIN work' : work'[i].node = m /\ d \in work'[i].left
        BY DEF ChildrenSeen
    <2>1. PICK i \in 1..Len(work) : work[i].node = m /\ d \in work[i].left
        BY <1>1, <1>3 DEF ChildrenSeen
    <2>2. i # Len(work)
        BY <1>2, <2>1
    <2>3. i \in 1..Len(work) - 1
        <3>1. Len(work) \in Nat
            BY <1>1
        <3>2. QED BY <2>1, <2>2, <3>1
    <2>4. QED BY <1>1, <2>1, <2>3
<1>13. SettledWhole'
    BY <1>2, <1>3, <1>4 DEF SettledWhole
<1>14. Connected'
    <2>1. \A i, j \in DOMAIN stack' : i < j => stack'[j] \in Reach(stack[i])'
        BY <1>2, <1>3 DEF Connected
    <2>2. ASSUME NEW m \in OnStack'
          PROVE  \E i \in DOMAIN work' :
                     index'[work'[i].node] <= index'[m] /\ work'[i].node \in Reach(m)'
        <3>1. m \in OnStack /\ m \in in.build /\ index[m] \in Int
            BY <1>1, <1>4, <2>2
        <3>2. PICK i \in 1..Len(work) :
                  index[work[i].node] <= index[m] /\ work[i].node \in Reach(m)
            BY <1>1, <3>1 DEF Connected
        <3>3. CASE i \in 1..Len(work) - 1
            BY <1>1, <1>2, <1>3, <3>2, <3>3
        <3>4. CASE i = Len(work)
            <4>1. n \in Reach(m) /\ index[n] <= index[m]
                BY <1>2, <3>2, <3>4
            <4>2. work[k].node \in Reach(m)
                BY <1>1, <1>8, <3>1, <4>1, ReachTransitive
            <4>3. /\ index[work[k].node] \in Int /\ index[low1] \in Int /\ index[n] \in Int
                BY <1>1, <1>6, <1>8
            <4>4. index[work[k].node] <= index[m]
                BY <1>7, <1>8, <3>1, <4>1, <4>3
            <4>5. QED BY <1>1, <1>2, <1>3, <1>8, <4>2, <4>4
        <3>5. i \in 1..Len(work) - 1 \/ i = Len(work)
            <4>1. Len(work) \in Nat
                BY <1>1
            <4>2. QED BY <3>2, <4>1
        <3>6. QED BY <3>3, <3>4, <3>5
    <2>3. QED BY <2>1, <2>2 DEF Connected
<1>15. LowIsLowest'
    <2>1. ASSUME NEW i \in DOMAIN work', NEW p, p = work'[i].node
          PROVE  /\ low'[p] <= index'[p]
                 /\ \E m \in OnStack' : index'[m] = low'[p] /\ m \in Reach(p)'
                 /\ \A m \in Segment(i)' : \A d \in Inside(m)' \cap OnStack' :
                        (m = p /\ d \in work'[i].left) \/ low'[p] <= index'[d]
        <3>1. /\ i \in 1..Len(work) - 1 /\ i \in 1..Len(work) /\ work'[i] = work[i]
              /\ p = work[i].node /\ p \in in.build
              /\ index[p] < index[n] /\ n \in Reach(p)
            BY <1>1, <2>1
        <3>2. /\ low[p] <= index[p]
              /\ \E m \in OnStack : index[m] = low[p] /\ m \in Reach(p)
              /\ \A m \in Segment(i) : \A d \in Inside(m) \cap OnStack :
                     (m = p /\ d \in work[i].left) \/ low[p] <= index[d]
            BY <1>1, <3>1 DEF LowIsLowest
        <3>3. low[p] \in Int /\ index[p] \in Int /\ low[n] \in Int /\ index[n] \in Int
            BY <1>1, <3>1
        <3>4. CASE i # Len(work) - 1
            <4>1. i + 1 \in 1..Len(work) - 1
                <5>1. Len(work) \in Nat
                    BY <1>1
                <5>2. QED BY <3>1, <3>4, <5>1
            <4>2. index[p] < index[work[Len(work) - 1].node]
                <5>1. Len(work) \in Nat
                    BY <1>1
                <5>2. i < Len(work) - 1 /\ Len(work) - 1 \in 1..Len(work)
                    BY <3>1, <3>4, <5>1
                <5>3. QED BY <1>1, <3>1, <5>2 DEF Path
            <4>3. low'[p] = low[p]
                BY <1>2, <3>1, <3>3, <4>2
            <4>4. ASSUME NEW m \in Segment(i)' PROVE m \in Segment(i)
                BY <1>1, <1>2, <1>4, <3>1, <4>1, <4>4 DEF Segment
            <4>5. QED BY <1>2, <1>3, <1>4, <3>1, <3>2, <4>3, <4>4
        <3>5. CASE i = Len(work) - 1
            <4>1. low'[p] \in {low[p], low[n]} /\ low'[p] <= low[p] /\ low'[p] <= low[n]
                BY <1>1, <3>1, <3>5 DEF Returns
            <4>2. low'[p] <= index'[p]
                BY <1>2, <3>2, <3>3, <4>1
            <4>3. \E m \in OnStack' : index'[m] = low'[p] /\ m \in Reach(p)'
                <5>1. low1 \in Reach(p)
                    BY <1>1, <1>6, <3>1, ReachTransitive
                <5>2. QED BY <1>2, <1>3, <1>4, <1>6, <3>2, <4>1, <5>1
            <4>4. ASSUME NEW m \in Segment(i)', NEW d \in Inside(m)' \cap OnStack'
                  PROVE  (m = p /\ d \in work'[i].left) \/ low'[p] <= index'[d]
                <5>1. /\ m \in OnStack /\ index[p] <= index[m] /\ index[m] \in Int
                      /\ d \in Inside(m) /\ d \in OnStack /\ index[d] \in Int /\ index'[d] = index[d]
                    BY <1>1, <1>2, <1>3, <1>4, <3>1, <4>4 DEF Segment
                <5>2. CASE index[n] <= index[m]
                    BY <1>1, <3>3, <4>1, <5>1, <5>2
                <5>3. CASE index[m] < index[n]
                    <6>1. i + 1 = Len(work)
                        BY <1>1, <3>5
                    <6>2. m \in Segment(i)
                        BY <1>2, <3>1, <5>1, <5>3, <6>1 DEF Segment
                    <6>3. QED BY <3>1, <3>2, <3>3, <4>1, <5>1, <6>2
                <5>4. QED BY <3>3, <5>1, <5>2, <5>3
            <4>5. QED BY <4>2, <4>3, <4>4
        <3>6. QED BY <3>4, <3>5
    <2>2. QED BY <2>1 DEF LowIsLowest
<1>16. QED BY <1>9, <1>10, <1>11, <1>12, <1>13, <1>14, <1>15

\* The part of the stack from n up is what was discovered from n on.
LEMMA MembersAre ==
    ASSUME Types, Stacked, NEW n \in OnStack
    PROVE  /\ Place(n) \in 1..Len(stack) /\ stack[Place(n)] = n
           /\ \A i \in 1..Len(stack) : index[n] <= index[stack[i]] <=> Place(n) <= i
           /\ Members(n) = {m \in OnStack : index[n] <= index[m]}
<1>1. /\ Len(stack) \in Nat /\ DOMAIN stack = 1..Len(stack)
      /\ OnStack = {stack[i] : i \in 1..Len(stack)}
      /\ \A m \in OnStack : index[m] \in Int
    BY OnStackIs, SeenIs
<1>2. PICK place : place = Place(n)
    OBVIOUS
<1>3. place \in 1..Len(stack) /\ stack[place] = n
    <2>1. \E i \in 1..Len(stack) : stack[i] = n
        BY <1>1
    <2>2. QED BY <1>1, <1>2, <2>1 DEF Place
<1>4. ASSUME NEW i \in 1..Len(stack)
      PROVE  index[n] <= index[stack[i]] <=> place <= i
    <2>1. index[n] \in Int /\ index[stack[i]] \in Int /\ place \in Int /\ i \in Int
        BY <1>1, <1>3
    <2>2. place < i => index[n] < index[stack[i]]
        BY <1>1, <1>3 DEF Stacked
    <2>3. i < place => index[stack[i]] < index[n]
        BY <1>1, <1>3 DEF Stacked
    <2>4. i = place => stack[i] = n
        BY <1>3
    <2>5. QED BY <2>1, <2>2, <2>3, <2>4
<1>5. Members(n) = {stack[i] : i \in place..Len(stack)}
    BY <1>2 DEF Members
<1>6. ASSUME NEW m PROVE m \in Members(n) <=> m \in OnStack /\ index[n] <= index[m]
    <2>1. ASSUME m \in Members(n) PROVE m \in OnStack /\ index[n] <= index[m]
        <3>1. PICK i \in place..Len(stack) : m = stack[i]
            BY <1>5, <2>1
        <3>2. i \in 1..Len(stack) /\ place <= i
            BY <1>1, <1>3, <3>1
        <3>3. QED BY <1>1, <1>4, <3>1, <3>2
    <2>2. ASSUME m \in OnStack, index[n] <= index[m] PROVE m \in Members(n)
        <3>1. PICK i \in 1..Len(stack) : m = stack[i]
            BY <1>1, <2>2
        <3>2. place <= i
            BY <1>4, <2>2, <3>1
        <3>3. i \in place..Len(stack)
            BY <1>1, <1>3, <3>1, <3>2
        <3>4. QED BY <1>5, <3>1, <3>3
    <2>3. QED BY <2>1, <2>2
<1>7. QED BY <1>2, <1>3, <1>4, <1>6

\* What is discovered from a root on is the root's cycle.
LEMMA RootIsWhole ==
    ASSUME Types, SearchInvariant, NEW n \in in.build, Returns(n), Settles(n)
    PROVE  /\ Members(n) = CycleOf(n)
           /\ \A m \in Members(n) : Inside(m) \subseteq Members(n) \cup Settled
<1> USE DEF SearchInvariant
<1>1. /\ in \in Inputs
      /\ Len(work) \in Nat \ {0} /\ DOMAIN work = 1..Len(work)
      /\ n \in OnStack /\ OnStack \subseteq in.build /\ low[n] = index[n]
      /\ \A m \in OnStack : index[n] <= index[m] =>
             \A d \in Inside(m) : d \in Seen /\ (d \in OnStack => low[n] <= index[d])
    BY ReturnsDoes DEF Settles
<1>2. n = work[Len(work)].node
    BY DEF Returns
<1>3. PICK M : M = Members(n)
    OBVIOUS
<1>4. /\ Place(n) \in 1..Len(stack) /\ stack[Place(n)] = n
      /\ \A i \in 1..Len(stack) : index[n] <= index[stack[i]] <=> Place(n) <= i
      /\ M = {m \in OnStack : index[n] <= index[m]}
    BY <1>1, <1>3, MembersAre
<1>5. \A m \in M : Inside(m) \subseteq M \cup Settled
    BY <1>1, <1>4 DEF Stacked
<1>6. \A m \in Settled : Inside(m) \subseteq Settled
    BY DEF SettledWhole
<1>7. n \in M
    BY <1>1, <1>4, SeenIs
<1>8. Reach(n) \subseteq M \cup Settled
    BY <1>1, <1>5, <1>6, <1>7, ReachIsLeast
<1>9. ASSUME NEW m \in M PROVE m \in CycleOf(n)
    <2>1. n \in Reach(m)
        BY <1>2, <1>4, ReachesTop
    <2>2. m \in Reach(n)
        <3>1. PICK i \in 1..Len(stack) : m = stack[i]
            BY <1>4, OnStackIs
        <3>2. Place(n) <= i
            BY <1>4, <3>1
        <3>3. CASE Place(n) = i
            BY <1>1, <1>4, <3>1, <3>3, ReachIsClosed
        <3>4. CASE Place(n) # i
            <4>1. Place(n) < i
                BY <1>4, <3>1, <3>2, <3>4, OnStackIs
            <4>2. QED BY <1>4, <3>1, <4>1, OnStackIs DEF Connected
        <3>5. QED BY <3>3, <3>4
    <2>3. QED BY <1>1, <1>4, <2>1, <2>2 DEF CycleOf
<1>10. ASSUME NEW q \in CycleOf(n) PROVE q \in M
    <2>1. q \in M \cup Settled /\ n \in Reach(q)
        BY <1>8 DEF CycleOf
    <2>2. SUFFICES ASSUME q \in Settled PROVE FALSE
        BY <2>1
    <2>3. Reach(q) \subseteq Settled
        BY <1>1, <1>6, <2>2, ReachIsLeast
    <2>4. QED BY <1>1, <2>1, <2>3 DEF Stacked
<1>11. QED BY <1>3, <1>5, <1>9, <1>10

\* What the state looks like when a component has been found.
LEMMA SettlesDoes ==
    ASSUME Types, SearchInvariant, NEW n \in in.build, Returns(n), Settles(n)
    PROVE  /\ stack' \in Seq(in.build) /\ Len(stack') \in Nat /\ DOMAIN stack' = 1..Len(stack')
           /\ \A i \in 1..Len(stack') : stack'[i] = stack[i] /\ i \in DOMAIN stack
           /\ OnStack' = {m \in OnStack : index[m] < index[n]}
           /\ Settled' = Settled \cup CycleOf(n)
           /\ found' = found \cup {CycleOf(n)}
           /\ OnStack' = OnStack \ CycleOf(n) /\ CycleOf(n) \subseteq OnStack
           /\ \A m \in CycleOf(n) : Inside(m) \subseteq CycleOf(n) \cup Settled
<1> USE DEF SearchInvariant
<1>1. /\ Len(stack) \in Nat /\ DOMAIN stack = 1..Len(stack) /\ stack \in Seq(in.build)
      /\ OnStack = {stack[i] : i \in 1..Len(stack)}
      /\ n \in OnStack /\ \A m \in OnStack : index[m] \in Int
    BY OnStackIs, SeenIs, ReturnsDoes DEF Types
<1>2. /\ Place(n) \in 1..Len(stack)
      /\ \A i \in 1..Len(stack) : index[n] <= index[stack[i]] <=> Place(n) <= i
      /\ Members(n) = {m \in OnStack : index[n] <= index[m]}
      /\ Members(n) = CycleOf(n)
      /\ \A m \in Members(n) : Inside(m) \subseteq Members(n) \cup Settled
    BY <1>1, MembersAre, RootIsWhole
<1>3. PICK k \in Nat : k = Place(n) - 1 /\ k <= Len(stack)
    BY <1>1, <1>2
<1>4. stack' = SubSeq(stack, 1, k)
    BY <1>3 DEF Settles
<1>5. stack' \in Seq(in.build) /\ Len(stack') = k /\ \A i \in 1..k : stack'[i] = stack[i]
    <2>1. stack \in Seq(in.build) /\ k <= Len(stack)
        BY <1>1, <1>3
    <2>2. QED BY <1>4, <2>1, PrefixIs
<1>6. DOMAIN stack' = 1..k /\ \A i \in 1..k : i \in 1..Len(stack)
    BY <1>1, <1>3, <1>5
<1>7. OnStack' = {stack'[i] : i \in 1..k}
    BY <1>6 DEF OnStack, ToSet
<1>8. \A i \in 1..Len(stack) : i \in 1..k <=> index[stack[i]] < index[n]
    <2>1. ASSUME NEW i \in 1..Len(stack)
          PROVE  i \in 1..k <=> index[stack[i]] < index[n]
        <3>1. index[n] <= index[stack[i]] <=> Place(n) <= i
            BY <1>2, <2>1
        <3>2. index[stack[i]] \in Int /\ index[n] \in Int
            BY <1>1, <2>1
        <3>3. Place(n) = k + 1 /\ i \in Nat /\ 1 <= i
            BY <1>1, <1>2, <1>3, <2>1
        <3>4. QED BY <3>1, <3>2, <3>3
    <2>2. QED BY <2>1
<1>9. OnStack' = {m \in OnStack : index[m] < index[n]}
    BY <1>1, <1>5, <1>6, <1>7, <1>8
<1>10. found' = found \cup {CycleOf(n)}
    BY <1>2 DEF Settles
<1>11. Settled' = Settled \cup CycleOf(n)
    BY <1>10 DEF Settled
<1>12. OnStack' = OnStack \ CycleOf(n) /\ CycleOf(n) \subseteq OnStack
    BY <1>1, <1>2, <1>9
<1>13. QED BY <1>1, <1>2, <1>5, <1>6, <1>9, <1>10, <1>11, <1>12

\* A call that ends a component.
LEMMA SettlesSearch ==
    ASSUME Types, SearchInvariant, NEW n \in in.build, Returns(n), Settles(n)
    PROVE  Types' /\ SearchInvariant'
<1> USE DEF SearchInvariant
<1>1. /\ in \in Inputs /\ in.build \subseteq Recipes
      /\ Len(work) \in Nat \ {0}
      /\ DOMAIN work = 1..Len(work) /\ DOMAIN work' = 1..Len(work) - 1
      /\ \A i \in 1..Len(work) - 1 : work'[i] = work[i] /\ i \in 1..Len(work)
      /\ n \in OnStack
      /\ \A i \in 1..Len(work) - 1 :
             /\ work[i].node \in OnStack /\ work[i].node \in in.build
             /\ index[work[i].node] < index[n] /\ n \in Reach(work[i].node)
      /\ \A m \in in.build : index[m] \in Int /\ low[m] \in Int
      /\ OnStack \subseteq in.build
      /\ Seen' = Seen
    BY ReturnsDoes
<1>2. /\ n = work[Len(work)].node /\ work[Len(work)].left = {}
      /\ low' \in [Recipes -> {Unseen} \cup Nat]
      /\ \A m \in in.build : (Len(work) = 1 \/ m # work[Len(work) - 1].node) => low'[m] = low[m]
      /\ work' \in Seq(Frames) /\ low[n] = index[n]
      /\ UNCHANGED <<in, edges, phase, index>>
    BY DEF Returns, Settles
<1>3. /\ stack' \in Seq(in.build) /\ Len(stack') \in Nat /\ DOMAIN stack' = 1..Len(stack')
      /\ \A i \in 1..Len(stack') : stack'[i] = stack[i] /\ i \in DOMAIN stack
      /\ OnStack' = {m \in OnStack : index[m] < index[n]}
      /\ Settled' = Settled \cup CycleOf(n)
      /\ found' = found \cup {CycleOf(n)}
      /\ OnStack' = OnStack \ CycleOf(n) /\ CycleOf(n) \subseteq OnStack
      /\ \A m \in CycleOf(n) : Inside(m) \subseteq CycleOf(n) \cup Settled
    BY SettlesDoes
<1>4. (\A r : Inside(r)' = Inside(r) /\ Reach(r)' = Reach(r)) /\ Cycles' = Cycles
    BY <1>2, GraphStands
<1>5. Len(work) \in 1..Len(work) /\ \A i \in 1..Len(work) : i # Len(work) => i \in 1..Len(work) - 1
    <2>1. Len(work) \in Nat \ {0}
        BY <1>1
    <2>2. QED BY <2>1
<1>6. Types'
    <2>1. CycleOf(n) \subseteq in.build
        BY DEF CycleOf
    <2>2. QED BY <1>2, <1>3, <2>1 DEF Types, Frames
<1>7. Stacked'
    <2>1. OnStack' = Seen' \ Settled' /\ Settled' \subseteq Seen'
        BY <1>1, <1>3 DEF Stacked
    <2>2. \A m \in Seen' : index'[m] < Cardinality(Seen)'
        BY <1>1, <1>2 DEF Stacked
    <2>3. \A i, j \in DOMAIN stack' : i < j => index'[stack'[i]] < index'[stack'[j]]
        BY <1>2, <1>3 DEF Stacked
    <2>4. QED BY <2>1, <2>2, <2>3 DEF Stacked
<1>8. Path'
    <2>1. ASSUME NEW i \in DOMAIN work'
          PROVE  work'[i].node \in OnStack' /\ work'[i].left \subseteq Inside(work[i].node)'
        <3>1. /\ i \in 1..Len(work) /\ work'[i] = work[i] /\ index[work[i].node] < index[n]
              /\ work[i].node \in OnStack
            BY <1>1, <2>1
        <3>2. work[i].left \subseteq Inside(work[i].node)
            BY <1>1, <3>1 DEF Path
        <3>3. QED BY <1>3, <1>4, <3>1, <3>2
    <2>2. ASSUME NEW i \in DOMAIN work', NEW j \in DOMAIN work', i < j
          PROVE  /\ index'[work'[i].node] < index'[work'[j].node]
                 /\ work'[j].node \in Reach(work[i].node)'
        <3>1. /\ i \in 1..Len(work) /\ j \in 1..Len(work)
              /\ work'[i] = work[i] /\ work'[j] = work[j]
            BY <1>1, <2>2
        <3>2. index[work[i].node] < index[work[j].node] /\ work[j].node \in Reach(work[i].node)
            BY <1>1, <2>2, <3>1 DEF Path
        <3>3. QED BY <1>2, <1>4, <3>1, <3>2
    <2>3. QED BY <2>1, <2>2 DEF Path
<1>9. ChildrenSeen'
    <2> SUFFICES ASSUME NEW m \in Seen', NEW d \in Inside(m)', d \notin Seen'
                 PROVE  \E i \in DOMAIN work' : work'[i].node = m /\ d \in work'[i].left
        BY DEF ChildrenSeen
    <2>1. PICK i \in 1..Len(work) : work[i].node = m /\ d \in work[i].left
        BY <1>1, <1>4 DEF ChildrenSeen
    <2>2. i # Len(work)
        BY <1>2, <2>1
    <2>3. i \in 1..Len(work) - 1
        BY <1>5, <2>1, <2>2
    <2>4. QED BY <1>1, <2>1, <2>3
<1>10. SettledWhole'
    <2>1. CycleOf(n) \in Cycles
        BY CyclesAre
    <2>2. found' \subseteq Cycles'
        BY <1>3, <1>4, <2>1 DEF SettledWhole
    <2>3. \A m \in Settled' : Inside(m)' \subseteq Settled'
        BY <1>3, <1>4 DEF SettledWhole
    <2>4. QED BY <2>2, <2>3 DEF SettledWhole
<1>11. Connected'
    <2>1. \A i, j \in DOMAIN stack' : i < j => stack'[j] \in Reach(stack[i])'
        BY <1>3, <1>4 DEF Connected
    <2>2. ASSUME NEW m \in OnStack'
          PROVE  \E i \in DOMAIN work' :
                     index'[work'[i].node] <= index'[m] /\ work'[i].node \in Reach(m)'
        <3>1. m \in OnStack /\ m \in in.build /\ index[m] < index[n]
              /\ index[m] \in Int /\ index[n] \in Int
            BY <1>1, <1>3, <2>2
        <3>2. PICK i \in 1..Len(work) :
                  index[work[i].node] <= index[m] /\ work[i].node \in Reach(m)
            BY <1>1, <3>1 DEF Connected
        <3>3. i # Len(work)
            BY <1>2, <3>1, <3>2
        <3>4. i \in 1..Len(work) - 1
            BY <1>5, <3>2, <3>3
        <3>5. QED BY <1>1, <1>2, <1>4, <3>2, <3>4
    <2>3. QED BY <2>1, <2>2 DEF Connected
<1>12. LowIsLowest'
    <2>1. ASSUME NEW i \in DOMAIN work', NEW p, p = work'[i].node
          PROVE  /\ low'[p] <= index'[p]
                 /\ \E m \in OnStack' : index'[m] = low'[p] /\ m \in Reach(p)'
                 /\ \A m \in Segment(i)' : \A d \in Inside(m)' \cap OnStack' :
                        (m = p /\ d \in work'[i].left) \/ low'[p] <= index'[d]
        <3>1. /\ i \in 1..Len(work) - 1 /\ i \in 1..Len(work) /\ work'[i] = work[i]
              /\ p = work[i].node /\ p \in in.build /\ index[p] < index[n]
            BY <1>1, <2>1
        <3>2. /\ low[p] <= index[p]
              /\ \E m \in OnStack : index[m] = low[p] /\ m \in Reach(p)
              /\ \A m \in Segment(i) : \A d \in Inside(m) \cap OnStack :
                     (m = p /\ d \in work[i].left) \/ low[p] <= index[d]
            BY <1>1, <3>1 DEF LowIsLowest
        <3>3. low[p] \in Int /\ index[p] \in Int /\ index[n] \in Int
            BY <1>1, <3>1
        <3>4. low'[p] = low[p]
            <4>1. CASE p # work[Len(work) - 1].node
                BY <1>2, <3>1, <4>1
            <4>2. CASE p = work[Len(work) - 1].node
                <5>1. Len(work) # 1
                    BY <3>1
                <5>2. low'[p] \in {low[p], low[n]} /\ low'[p] <= low[p] /\ low'[p] <= low[n]
                    BY <4>2, <5>1 DEF Returns
                <5>3. low[p] < low[n]
                    BY <1>2, <3>1, <3>2, <3>3
                <5>4. QED BY <1>2, <3>3, <5>2, <5>3
            <4>3. QED BY <4>1, <4>2
        <3>5. \E m \in OnStack' : index'[m] = low'[p] /\ m \in Reach(p)'
            <4>1. PICK m \in OnStack : index[m] = low[p] /\ m \in Reach(p)
                BY <3>2
            <4>2. index[m] < index[n]
                BY <3>1, <3>2, <3>3, <4>1
            <4>3. QED BY <1>2, <1>3, <1>4, <3>4, <4>1, <4>2
        <3>6. ASSUME NEW m \in Segment(i)' PROVE m \in Segment(i)
            <4>1. /\ m \in OnStack /\ index[m] < index[n] /\ index[p] <= index[m]
                  /\ i + 1 \in DOMAIN work' => index[m] < index[work'[i + 1].node]
                BY <1>2, <1>3, <3>1, <3>6 DEF Segment
            <4>2. i + 1 \in DOMAIN work => index[m] < index[work[i + 1].node]
                <5>1. CASE i + 1 = Len(work)
                    BY <1>2, <4>1, <5>1
                <5>2. CASE i + 1 # Len(work)
                    BY <1>1, <1>5, <4>1, <5>2
                <5>3. QED BY <5>1, <5>2
            <4>3. QED BY <3>1, <4>1, <4>2 DEF Segment
        <3>7. QED BY <1>2, <1>3, <1>4, <3>1, <3>2, <3>4, <3>5, <3>6
    <2>2. QED BY <2>1 DEF LowIsLowest
<1>13. QED BY <1>6, <1>7, <1>8, <1>9, <1>10, <1>11, <1>12

----------------------------------------------------------------------------
(* The whole program *)

\* The search has not begun.
NotBegun ==
    /\ index = [r \in Recipes |-> Unseen]
    /\ stack = <<>> /\ work = <<>> /\ found = {}

\* The graph that is searched is the one the inputs give, and the result of the
\* search is its cycles.
GraphInvariant ==
    /\ Types /\ SearchInvariant
    /\ phase = "load" \/ ~in.graph => NotBegun
    /\ in.graph /\ phase # "load" => edges = Graph
    /\ phase \in {"components", "waves", "raised"} => in.graph
    /\ in.graph /\ phase \notin {"load", "components"} => found = Cycles

\* A search that has not begun is in order.
LEMMA NotBegunSearch == in \in Inputs /\ NotBegun => SearchInvariant
<1> SUFFICES ASSUME in \in Inputs, NotBegun PROVE SearchInvariant
    OBVIOUS
<1>1. in.build \subseteq Recipes
    BY BuildIsFinite
<1>2. Seen = {} /\ Settled = {} /\ DOMAIN stack = {} /\ DOMAIN work = {}
    BY <1>1 DEF NotBegun, Seen, Settled
<1>3. OnStack = {}
    BY <1>2 DEF OnStack, ToSet
<1>4. Stacked
    BY <1>2, <1>3 DEF Stacked
<1>5. Path /\ ChildrenSeen
    BY <1>2 DEF Path, ChildrenSeen
<1>6. SettledWhole
    BY <1>2 DEF SettledWhole, NotBegun
<1>7. Connected /\ LowIsLowest
    BY <1>2, <1>3 DEF Connected, LowIsLowest
<1>8. QED BY <1>4, <1>5, <1>6, <1>7 DEF SearchInvariant

\* A step of the search keeps its invariant.
LEMMA SearchStep ==
    ASSUME Types, SearchInvariant, Visit \/ Descend \/ LookBack \/ Return
    PROVE  Types' /\ SearchInvariant' /\ UNCHANGED <<in, edges, phase>>
<1> USE DEF SearchInvariant
<1>1. CASE Visit
    <2>1. PICK c \in in.build : Discovers(c)
        BY <1>1, VisitDiscovers
    <2>2. QED BY <2>1, DiscoversSearch DEF Discovers
<1>2. CASE Descend
    <2>1. PICK c \in in.build : Discovers(c)
        BY <1>2, DescendDiscovers
    <2>2. QED BY <2>1, DiscoversSearch DEF Discovers
<1>3. CASE LookBack
    <2>1. PICK n \in in.build, c \in in.build : LooksAt(n, c)
        BY <1>3, LookBackLooks
    <2>2. QED BY <2>1, LooksAtSearch DEF LooksAt
<1>4. CASE Return
    <2>1. PICK n \in in.build : Returns(n) /\ (Stays(n) \/ Settles(n))
        BY <1>4, ReturnReturns
    <2>2. CASE Stays(n)
        BY <2>1, <2>2, StaysSearch DEF Returns
    <2>3. CASE Settles(n)
        BY <2>1, <2>3, SettlesSearch DEF Returns
    <2>4. QED BY <2>1, <2>2, <2>3
<1>5. QED BY <1>1, <1>2, <1>3, <1>4

\* When the loop over the nodes ends, every cycle has been found.
LEMMA AllSeenFinds ==
    ASSUME Types, SearchInvariant, AllSeen
    PROVE  found = Cycles
<1> USE DEF SearchInvariant
<1>1. in \in Inputs /\ DOMAIN work = {} /\ Seen = in.build
    BY DEF Types, AllSeen, Seen
<1>2. OnStack = {}
    BY <1>1 DEF Connected
<1>3. Settled = in.build
    BY <1>1, <1>2 DEF Stacked
<1>4. found \subseteq Cycles
    BY DEF SettledWhole
<1>5. ASSUME NEW p \in in.build PROVE CycleOf(p) \in found
    <2>1. PICK c \in found : p \in c
        BY <1>3 DEF Settled
    <2>2. PICK q \in in.build : c = CycleOf(q)
        BY <1>4, <2>1, CyclesAre
    <2>3. CycleOf(p) = CycleOf(q)
        BY <1>1, <2>1, <2>2, SameCycleOf
    <2>4. QED BY <2>1, <2>2, <2>3
<1>6. QED BY <1>4, <1>5, CyclesAre

\* The program begins with the search not begun.
LEMMA GraphInit == Init => GraphInvariant
<1> SUFFICES ASSUME Init PROVE GraphInvariant
    OBVIOUS
<1>1. Types
    BY DEF Init, Types, Unseen
<1>2. in \in Inputs /\ NotBegun
    BY DEF Init, NotBegun
<1>3. SearchInvariant
    BY <1>2, NotBegunSearch
<1>4. QED BY <1>1, <1>2, <1>3 DEF GraphInvariant, Init

\* What is needed is among the recipes.
LEMMA GraphIs == Graph \in [Recipes -> SUBSET Recipes]
BY DEF Graph, Providers

\* Every step keeps the invariant.
LEMMA GraphNext == GraphInvariant /\ [Next]_vars => GraphInvariant'
<1> SUFFICES ASSUME GraphInvariant, [Next]_vars PROVE GraphInvariant'
    OBVIOUS
<1>1. Types /\ SearchInvariant
    BY DEF GraphInvariant
\* The steps of which the search sees nothing.
<1>2. ASSUME UNCHANGED <<in, edges, tarjan>>
      PROVE  (NotBegun => NotBegun') /\ SearchInvariant' /\ Cycles' = Cycles /\ Graph' = Graph
             /\ (Types' <=> phase' \in {"load", "components", "waves", "raised",
                                        "jobs", "listed", "refused"})
    <2>1. UNCHANGED <<in, edges, index, low, stack, work, found>>
        BY <1>2 DEF tarjan
    <2>2. (\A r : Inside(r)' = Inside(r) /\ Reach(r)' = Reach(r)) /\ Cycles' = Cycles
        BY <2>1, GraphStands
    <2>3. Seen' = Seen /\ OnStack' = OnStack /\ Settled' = Settled
        BY <2>1 DEF Seen, OnStack, Settled
    <2>4. Stacked' /\ Path'
        BY <1>1, <2>1, <2>2, <2>3 DEF SearchInvariant, Stacked, Path
    <2>5. ChildrenSeen' /\ SettledWhole' /\ Connected'
        BY <1>1, <2>1, <2>2, <2>3 DEF SearchInvariant, ChildrenSeen, SettledWhole, Connected
    <2>6. \A i : Segment(i)' = Segment(i)
        BY <2>1, <2>3 DEF Segment
    <2>7. LowIsLowest'
        BY <1>1, <2>1, <2>2, <2>3, <2>6 DEF SearchInvariant, LowIsLowest
    <2>8. Types' <=> phase' \in {"load", "components", "waves", "raised",
                                 "jobs", "listed", "refused"}
        BY <1>1, <2>1 DEF Types, Frames
    <2>9. NotBegun => NotBegun'
        BY <2>1 DEF NotBegun
    <2>10. Graph' = Graph
        BY <2>1 DEF Graph, Providers
    <2>11. QED BY <2>2, <2>4, <2>5, <2>7, <2>8, <2>9, <2>10 DEF SearchInvariant
<1>3. CASE Load
    <2>1. /\ phase = "load" /\ in.graph /\ edges' = Graph /\ phase' = "components"
          /\ UNCHANGED <<in, index, low, stack, work, found>>
        BY <1>3 DEF Load
    <2>2. NotBegun' /\ in' \in Inputs
        BY <1>1, <2>1 DEF GraphInvariant, NotBegun, Types
    <2>3. SearchInvariant'
        <3>1. (in \in Inputs /\ NotBegun => SearchInvariant)'
            BY NotBegunSearch, PTL
        <3>2. QED BY <2>2, <3>1
    <2>4. Types'
        BY <1>1, <2>1, GraphIs DEF Types, Frames
    <2>5. Graph' = Graph
        BY <2>1 DEF Graph, Providers
    <2>6. QED BY <2>1, <2>2, <2>3, <2>4, <2>5 DEF GraphInvariant
<1>4. CASE Visit \/ Descend \/ LookBack \/ Return
    <2>1. Types' /\ SearchInvariant' /\ UNCHANGED <<in, edges, phase>>
        BY <1>1, <1>4, SearchStep
    <2>2. phase = "components"
        BY <1>4 DEF Visit, Descend, LookBack, Return, Looking
    <2>3. Graph' = Graph
        BY <2>1 DEF Graph, Providers
    <2>4. QED BY <2>1, <2>2, <2>3 DEF GraphInvariant
<1>5. CASE AllSeen
    <2>1. phase = "components" /\ phase' = "waves" /\ UNCHANGED <<in, edges, tarjan>>
        BY <1>5 DEF AllSeen
    <2>2. found = Cycles /\ found' = found
        BY <1>1, <1>5, <2>1, AllSeenFinds DEF tarjan
    <2>3. QED BY <1>2, <2>1, <2>2 DEF GraphInvariant
<1>6. CASE Solve
    <2>1. phase = "waves" /\ phase' \in {"jobs", "raised"} /\ UNCHANGED <<in, edges, tarjan>>
        BY <1>6 DEF Solve
    <2>2. found' = found
        BY <2>1 DEF tarjan
    <2>3. QED BY <1>2, <2>1, <2>2 DEF GraphInvariant
<1>7. CASE StageWaves \/ ListJobs \/ RefuseTooDeep
    <2>1. /\ phase \in {"load", "jobs"} /\ phase' \in {"jobs", "listed", "refused"}
          /\ phase = "load" => ~in.graph
          /\ UNCHANGED <<in, edges, tarjan>>
        BY <1>7 DEF StageWaves, ListJobs, RefuseTooDeep
    <2>2. found' = found
        BY <2>1 DEF tarjan
    <2>3. QED BY <1>2, <2>1, <2>2 DEF GraphInvariant
<1>8. CASE UNCHANGED vars
    <2>1. phase' = phase /\ found' = found /\ UNCHANGED <<in, edges, tarjan>>
        BY <1>8 DEF vars, tarjan
    <2>2. phase \in {"load", "components", "waves", "raised", "jobs", "listed", "refused"}
        BY <1>1 DEF Types
    <2>3. QED BY <1>2, <2>1, <2>2 DEF GraphInvariant
<1>9. QED BY <1>3, <1>4, <1>5, <1>6, <1>7, <1>8 DEF Next, Tarjan

\* The invariant holds throughout.
THEOREM GraphIsInvariant == Spec => []GraphInvariant
BY GraphInit, GraphNext, PTL DEF Spec

\* components() returns the strongly connected components of what the build set
\* BuildRequires of itself; until it does, each package on the stack reaches
\* those above it and what has left the stack is whole cycles.
THEOREM SearchCorrect == Spec => []SearchIsSound
<1>1. GraphInvariant => SearchIsSound
    <2> SUFFICES ASSUME GraphInvariant PROVE SearchIsSound
        OBVIOUS
    <2>1. Types /\ Connected /\ SettledWhole
        BY DEF GraphInvariant, SearchInvariant
    <2>2. ComponentsAreCycles
        BY DEF GraphInvariant, ComponentsAreCycles
    <2>3. DOMAIN stack = 1..Len(stack)
        BY <2>1, OnStackIs
    <2>4. StackIsConnected
        BY <2>1, <2>3 DEF StackIsConnected, Connected, SettledWhole
    <2>5. QED BY <2>2, <2>4 DEF SearchIsSound
<1>2. QED BY GraphIsInvariant, <1>1, PTL

----------------------------------------------------------------------------
(* Breaking the cycles *)

\* The edges that survive: to another cycle, or to an earlier stage.
Survives(p, q) == q \in Inside(p) /\ (q \notin CycleOf(p) \/ in.stage[q] < in.stage[p])

\* A set with two members has more than one.
LEMMA TwoMembers ==
    ASSUME NEW S, IsFiniteSet(S), NEW p \in S, NEW q \in S, p # q
    PROVE  Cardinality(S) > 1
<1>1. Cardinality(S) \in Nat
    BY FS_CardinalityType
<1>2. Cardinality(S) # 0
    BY FS_EmptySet
<1>3. Cardinality(S) # 1
    <2>1. SUFFICES ASSUME Cardinality(S) = 1 PROVE FALSE
        OBVIOUS
    <2>2. PICK x : S = {x}
        BY <2>1, FS_Singleton
    <2>3. QED BY <2>2
<1>4. QED BY <1>1, <1>2, <1>3

\* Every package is in its own cycle; the cycles are finite sets.
LEMMA CycleOfIs ==
    ASSUME in \in Inputs, NEW p \in in.build
    PROVE  /\ p \in CycleOf(p) /\ CycleOf(p) \subseteq in.build /\ IsFiniteSet(CycleOf(p))
           /\ CycleOf(p) \in Cycles
           /\ \A c \in Cycles : p \in c => c = CycleOf(p)
           /\ \A q \in in.build : SameCycle(p, q) <=> q \in CycleOf(p)
<1>1. p \in Reach(p)
    BY ReachIsClosed
<1>2. p \in CycleOf(p) /\ CycleOf(p) \subseteq in.build
    BY <1>1 DEF CycleOf
<1>3. IsFiniteSet(CycleOf(p))
    BY <1>2, BuildIsFinite, FS_Subset
<1>4. ASSUME NEW c \in Cycles, p \in c PROVE c = CycleOf(p)
    <2>1. PICK q \in in.build : c = CycleOf(q)
        BY <1>4, CyclesAre
    <2>2. QED BY <1>4, <2>1, SameCycleOf
<1>5. QED BY <1>2, <1>3, <1>4, CyclesAre DEF SameCycle, CycleOf

\* No package needs itself.
LEMMA NoLoops ==
    ASSUME edges = Graph, in \in Inputs, NEW p \in in.build
    PROVE  p \notin Inside(p)
<1>1. p \in Recipes
    BY BuildIsFinite
<1>2. QED BY <1>1 DEF Graph, Inside

\* break_cycles() keeps the edges that survive, and no other.
LEMMA RestrictedIs ==
    ASSUME in \in Inputs, edges = Graph, found = Cycles
    PROVE  /\ DOMAIN Restricted = in.build
           /\ \A p \in in.build : Restricted[p] = {q \in Inside(p) : Survives(p, q)}
<1>1. DOMAIN Restricted = in.build
    BY DEF Restricted
<1>2. ASSUME NEW p \in in.build
      PROVE  Restricted[p] = {q \in Inside(p) : Survives(p, q)}
    <2>1. /\ p \in CycleOf(p) /\ CycleOf(p) \in found
          /\ \A c \in found : p \in c => c = CycleOf(p)
          /\ CycleOf(p) \subseteq in.build /\ IsFiniteSet(CycleOf(p))
        BY CycleOfIs
    <2>2. PICK component : component = CHOOSE c \in found : p \in c
        OBVIOUS
    <2>3. component = CycleOf(p)
        BY <2>1, <2>2
    <2>4. Restricted[p] = IF Cardinality(component) = 1 THEN Inside(p) ELSE Kept(component, p)
        BY <1>2, <2>2 DEF Restricted
    <2>5. CASE Cardinality(component) = 1
        <3>1. PICK x : component = {x}
            BY <2>1, <2>3, <2>5, FS_Singleton
        <3>2. CycleOf(p) = {p}
            BY <2>1, <2>3, <3>1
        <3>3. \A q \in Inside(p) : q \notin CycleOf(p)
            BY <3>2, NoLoops
        <3>4. Restricted[p] = Inside(p)
            BY <2>4, <2>5
        <3>5. QED BY <3>3, <3>4 DEF Survives
    <2>6. CASE Cardinality(component) # 1
        <3>1. Restricted[p] = Kept(component, p)
            BY <2>4, <2>6
        <3>2. QED BY <2>3, <3>1 DEF Kept, Survives
    <2>7. QED BY <2>5, <2>6
<1>3. QED BY <1>1, <1>2

\* Along an edge that survives less is reached, or as much and the stage is
\* earlier: no set of packages has such an edge from each member to a member.
LEMMA NothingEndless ==
    ASSUME in \in Inputs, NEW E \in SUBSET in.build,
           \A p \in E : \E q \in E : Survives(p, q)
    PROVE  E = {}
<1>1. SUFFICES ASSUME E # {} PROVE FALSE
    OBVIOUS
<1>2. \A p \in E : /\ p \in in.build /\ Reach(p) \subseteq in.build
                   /\ IsFiniteSet(Reach(p)) /\ Cardinality(Reach(p)) \in Nat
                   /\ in.stage[p] \in Nat
    <2>1. ASSUME NEW p \in E
          PROVE  /\ p \in in.build /\ Reach(p) \subseteq in.build
                 /\ IsFiniteSet(Reach(p)) /\ Cardinality(Reach(p)) \in Nat
                 /\ in.stage[p] \in Nat
        <3>1. p \in in.build /\ Reach(p) \subseteq in.build
            BY ReachIsClosed
        <3>2. IsFiniteSet(Reach(p))
            BY <3>1, BuildIsFinite, FS_Subset
        <3>3. in.stage[p] \in Nat
            BY <3>1, BuildIsFinite, GraphAssumption
        <3>4. QED BY <3>1, <3>2, <3>3, FS_CardinalityType
    <2>2. QED BY <2>1
<1> DEFINE Sizes == {Cardinality(Reach(p)) : p \in E}
<1>3. PICK least \in Sizes : \A n \in Sizes : least <= n
    <2>1. Sizes \in SUBSET Nat /\ Sizes # {}
        BY <1>1, <1>2
    <2> HIDE DEF Sizes
    <2>2. QED BY <2>1, LeastOf
<1> DEFINE F == {p \in E : Cardinality(Reach(p)) = least}
           Levels == {in.stage[p] : p \in F}
<1>4. PICK first \in Levels : \A n \in Levels : first <= n
    <2>1. F # {}
        BY <1>3
    <2>2. Levels \in SUBSET Nat /\ Levels # {}
        BY <1>2, <2>1
    <2> HIDE DEF Levels
    <2>3. QED BY <2>2, LeastOf
<1>5. PICK p \in F : in.stage[p] = first
    BY <1>4
<1>6. PICK q \in E : Survives(p, q)
    BY <1>5
<1>7. q \in Inside(p) /\ (q \notin CycleOf(p) \/ in.stage[q] < in.stage[p])
    BY <1>6 DEF Survives
<1>8. q \in Reach(p) /\ Reach(q) \subseteq Reach(p) /\ p \in in.build /\ q \in in.build
    BY <1>2, <1>5, <1>7, ReachIsClosed, ReachTransitive
<1>9. CASE q \in CycleOf(p)
    <2>1. Reach(q) = Reach(p)
        BY <1>8, <1>9, ReachTransitive DEF CycleOf
    <2>2. q \in F
        BY <1>5, <2>1
    <2>3. first <= in.stage[q] /\ in.stage[q] < first
        BY <1>4, <1>5, <1>7, <1>9, <2>2
    <2>4. in.stage[q] \in Nat /\ first \in Nat
        BY <1>2, <1>5
    <2>5. QED BY <2>3, <2>4
<1>10. CASE q \notin CycleOf(p)
    <2>1. p \notin Reach(q)
        BY <1>8, <1>10 DEF CycleOf
    <2>2. p \in Reach(p)
        BY <1>8, ReachIsClosed
    <2>3. Reach(q) # Reach(p)
        BY <2>1, <2>2
    <2>4. /\ Cardinality(Reach(q)) <= Cardinality(Reach(p))
          /\ Cardinality(Reach(p)) # Cardinality(Reach(q))
        BY <1>2, <1>5, <1>8, <2>3, FS_Subset
    <2>5. least <= Cardinality(Reach(q)) /\ Cardinality(Reach(p)) = least
        BY <1>3, <1>5
    <2>6. Cardinality(Reach(q)) \in Nat /\ Cardinality(Reach(p)) \in Nat
        BY <1>2, <1>5
    <2>7. QED BY <2>4, <2>5, <2>6
<1>11. QED BY <1>9, <1>10

----------------------------------------------------------------------------
(* No walk is endless *)

\* What is left of near when the packages that keep no edge into it are gone.
Peel(kept, near) == {r \in near : kept[r] \cap near # {}}

\* after is what is left of the build set after each of up to n such steps.
Peeling(kept, after, n) ==
    after = [k \in 0..n |-> IF k = 0 THEN in.build ELSE Peel(kept, after[k - 1])]

\* Endless(kept) is the last value of such a function, if there is one.
LEMMA EndlessUnfolds ==
    ASSUME NEW kept
    PROVE  Endless(kept) = (CHOOSE after : Peeling(kept, after, Size))[Size]
BY DEF Endless, Peeling, Peel, Size

\* There is one for every number of steps.
LEMMA PeelingExists ==
    ASSUME NEW kept, NEW n \in Nat
    PROVE  \E after : Peeling(kept, after, n)
<1> DEFINE S == {m \in Nat : \E after : Peeling(kept, after, m)}
<1>1. 0 \in S
    <2>1. Peeling(kept, [k \in 0..0 |-> in.build], 0)
        BY DEF Peeling
    <2>2. QED BY <2>1
<1>2. ASSUME NEW m \in Nat, m \in S
      PROVE  m + 1 \in S
    <2>1. PICK after : Peeling(kept, after, m)
        BY <1>2
    <2> DEFINE next == [k \in 0..(m + 1) |-> IF k = m + 1 THEN Peel(kept, after[m]) ELSE after[k]]
    <2>2. ASSUME NEW k \in 0..(m + 1)
          PROVE  next[k] = IF k = 0 THEN in.build ELSE Peel(kept, next[k - 1])
        <3>1. CASE k = m + 1
            BY <3>1
        <3>2. CASE k # m + 1
            <4>1. k \in 0..m
                BY <3>2
            <4>2. after[k] = IF k = 0 THEN in.build ELSE Peel(kept, after[k - 1])
                BY <2>1, <4>1 DEF Peeling
            <4>3. next[k] = after[k] /\ (k # 0 => next[k - 1] = after[k - 1])
                BY <4>1
            <4>4. QED BY <4>2, <4>3
        <3>3. QED BY <3>1, <3>2
    <2>3. next = [k \in 0..(m + 1) |-> next[k]]
        OBVIOUS
    <2> HIDE DEF next
    <2>4. next = [k \in 0..(m + 1) |-> IF k = 0 THEN in.build ELSE Peel(kept, next[k - 1])]
        BY <2>2, <2>3
    <2>5. Peeling(kept, next, m + 1)
        BY <2>4 DEF Peeling
    <2>6. QED BY <2>5
<1>3. Nat \subseteq S
    <2> HIDE DEF S
    <2>1. QED BY <1>1, <1>2, NatSetInduction
<1>4. QED BY <1>3

\* Endless(kept) as the last set of a chain.
LEMMA EndlessIsLast ==
    ASSUME in \in Inputs, NEW kept
    PROVE  \E after : /\ Endless(kept) = after[Size]
                      /\ after[0] = in.build
                      /\ \A k \in 0..(Size - 1) : after[k + 1] = Peel(kept, after[k])
<1>1. Size \in Nat
    BY BuildIsFinite
<1>2. \E after : Peeling(kept, after, Size)
    BY <1>1, PeelingExists
<1>3. Peeling(kept, CHOOSE after : Peeling(kept, after, Size), Size)
    BY <1>2
<1>4. PICK after : after = CHOOSE other : Peeling(kept, other, Size)
    OBVIOUS
<1>5. Peeling(kept, after, Size) /\ Endless(kept) = after[Size]
    BY <1>3, <1>4, EndlessUnfolds
<1>6. after[0] = in.build
    BY <1>1, <1>5 DEF Peeling
<1>7. ASSUME NEW k \in 0..(Size - 1)
      PROVE  after[k + 1] = Peel(kept, after[k])
    <2>1. k + 1 \in 0..Size /\ k + 1 # 0 /\ (k + 1) - 1 = k
        BY <1>1
    <2>2. QED BY <1>5, <2>1 DEF Peeling
<1>8. QED BY <1>5, <1>6, <1>7

\* In as many steps as there are packages nothing more is peeled off.
LEMMA EndlessIsFixed ==
    ASSUME in \in Inputs, NEW kept
    PROVE  Endless(kept) \subseteq in.build /\ Peel(kept, Endless(kept)) = Endless(kept)
<1>1. PICK after : /\ Endless(kept) = after[Size]
                   /\ after[0] = in.build
                   /\ \A k \in 0..(Size - 1) : after[k + 1] = Peel(kept, after[k])
    BY EndlessIsLast
<1>2. Size \in Nat /\ IsFiniteSet(in.build)
    BY BuildIsFinite
<1>3. \A k \in 0..(Size - 1) : after[k + 1] \subseteq after[k]
    BY <1>1 DEF Peel
<1>4. \A k \in 0..Size : after[k] \subseteq in.build
    <2> DEFINE I == {k \in Nat : k <= Size => after[k] \subseteq in.build}
    <2>1. 0 \in I
        BY <1>1
    <2>2. ASSUME NEW k \in Nat, k \in I
          PROVE  k + 1 \in I
        <3> SUFFICES ASSUME k + 1 <= Size PROVE after[k + 1] \subseteq in.build
            OBVIOUS
        <3>1. k \in 0..(Size - 1) /\ after[k] \subseteq in.build
            BY <1>2, <2>2
        <3>2. QED BY <1>3, <3>1
    <2>3. Nat \subseteq I
        <3> HIDE DEF I
        <3>1. QED BY <2>1, <2>2, NatSetInduction
    <2>4. QED BY <2>3
<1>5. CASE \E k \in 0..(Size - 1) : after[k + 1] = after[k]
    <2>1. PICK k \in 0..(Size - 1) : after[k + 1] = after[k]
        BY <1>5
    <2>2. Peel(kept, after[k]) = after[k]
        BY <1>1, <2>1
    <2> DEFINE I == {j \in Nat : k <= j /\ j <= Size => after[j] = after[k]}
    <2>3. 0 \in I
        OBVIOUS
    <2>4. ASSUME NEW j \in Nat, j \in I
          PROVE  j + 1 \in I
        <3> SUFFICES ASSUME k <= j + 1, j + 1 <= Size PROVE after[j + 1] = after[k]
            OBVIOUS
        <3>1. CASE k = j + 1
            BY <3>1
        <3>2. CASE k # j + 1
            <4>1. j \in 0..(Size - 1) /\ after[j] = after[k]
                BY <1>2, <2>4, <3>2
            <4>2. after[j + 1] = Peel(kept, after[j])
                BY <1>1, <4>1
            <4>3. QED BY <2>2, <4>1, <4>2
        <3>3. QED BY <3>1, <3>2
    <2>5. Nat \subseteq I
        <3> HIDE DEF I
        <3>1. QED BY <2>3, <2>4, NatSetInduction
    <2>6. Size \in I /\ k <= Size /\ Size <= Size
        BY <1>2, <2>5
    <2>7. after[Size] = after[k]
        BY <2>6
    <2>8. Size \in 0..Size
        BY <1>2
    <2>9. QED BY <1>1, <1>4, <2>2, <2>7, <2>8
<1>6. CASE \A k \in 0..(Size - 1) : after[k + 1] # after[k]
    <2> DEFINE gone == [k \in 0..Size |-> in.build \ after[k]]
    <2>1. \A k \in 0..Size : gone[k] \subseteq in.build
        OBVIOUS
    <2>2. ASSUME NEW k \in 0..(Size - 1)
          PROVE  gone[k] \subseteq gone[k + 1] /\ gone[k + 1] # gone[k]
        <3>1. k \in 0..Size /\ k + 1 \in 0..Size
            BY <1>2
        <3>2. gone[k] = in.build \ after[k] /\ gone[k + 1] = in.build \ after[k + 1]
            BY <3>1
        <3>3. after[k + 1] \subseteq after[k] /\ after[k + 1] # after[k] /\ after[k] \subseteq in.build
            BY <1>3, <1>4, <1>6, <3>1
        <3>4. QED BY <3>2, <3>3
    <2> HIDE DEF gone
    <2>3. /\ Cardinality(gone[0]) \in Nat /\ Cardinality(gone[Size]) \in Nat
          /\ Size + Cardinality(gone[0]) <= Cardinality(gone[Size])
        BY <1>2, <2>1, <2>2, ChainGrows
    <2>4. Size \in 0..Size
        BY <1>2
    <2>5. gone[Size] \subseteq in.build /\ Cardinality(gone[Size]) <= Cardinality(in.build)
        BY <1>2, <2>1, <2>4, FS_Subset
    <2>6. Cardinality(in.build) = Cardinality(gone[Size])
        BY <1>2, <2>3, <2>5 DEF Size
    <2>7. gone[Size] = in.build
        BY <1>2, <2>5, <2>6, FS_Subset
    <2>8. after[Size] = {}
        BY <1>4, <2>4, <2>7 DEF gone
    <2>9. QED BY <1>1, <2>8 DEF Peel
<1>7. QED BY <1>5, <1>6

\* Without the broken edges every walk ends.
LEMMA EveryWalkEnds ==
    ASSUME in \in Inputs, edges = Graph, found = Cycles
    PROVE  Endless(Restricted) = {}
<1>1. PICK kept : kept = Restricted
    OBVIOUS
<1>2. PICK E : E = Endless(kept)
    OBVIOUS
<1>3. E \subseteq in.build /\ \A p \in E : kept[p] \cap E # {}
    BY <1>2, EndlessIsFixed DEF Peel
<1>4. \A p \in in.build : kept[p] = {q \in Inside(p) : Survives(p, q)}
    BY <1>1, RestrictedIs
<1>5. \A p \in E : \E q \in E : Survives(p, q)
    BY <1>3, <1>4
<1>6. E = {}
    BY <1>3, <1>5, NothingEndless
<1>7. QED BY <1>1, <1>2, <1>6

----------------------------------------------------------------------------
(* The waves *)

\* A finite set of natural numbers that is not empty has a greatest member.
LEMMA MaxOf ==
    ASSUME NEW S \in SUBSET Nat, IsFiniteSet(S), S # {}
    PROVE  Max(S) \in S /\ \A x \in S : x <= Max(S)
<1> DEFINE HasMost(T) == \E m \in T : \A x \in T : x <= m
           I == {n \in Nat : \A T \in SUBSET Nat :
                                IsFiniteSet(T) /\ Cardinality(T) = n /\ T # {} => HasMost(T)}
<1>1. 0 \in I
    BY FS_EmptySet
<1>2. ASSUME NEW n \in Nat, n \in I
      PROVE  n + 1 \in I
    <2> SUFFICES ASSUME NEW T \in SUBSET Nat, IsFiniteSet(T), Cardinality(T) = n + 1, T # {}
                 PROVE  HasMost(T)
        OBVIOUS
    <2>1. PICK a \in T : TRUE
        OBVIOUS
    <2>2. PICK U \in SUBSET Nat : U = T \ {a}
        OBVIOUS
    <2>3. IsFiniteSet(U) /\ Cardinality(U) = n
        <3>1. IsFiniteSet(T \ {a}) /\ Cardinality(T \ {a}) = (n + 1) - 1
            BY <2>1, FS_RemoveElement
        <3>2. QED BY <2>2, <3>1
    <2>4. CASE U = {}
        <3>1. T = {a}
            BY <2>1, <2>2, <2>4
        <3>2. QED BY <2>1, <3>1
    <2>5. CASE U # {}
        <3>1. PICK m \in U : \A x \in U : x <= m
            BY <1>2, <2>3, <2>5
        <3>2. a \in Nat /\ m \in Nat /\ m \in T /\ \A x \in T : x = a \/ x \in U
            BY <2>1, <2>2
        <3>3. CASE a <= m
            BY <3>1, <3>2, <3>3
        <3>4. CASE m <= a
            <4>1. \A x \in U : x <= a
                BY <3>1, <3>2, <3>4
            <4>2. QED BY <2>1, <3>2, <4>1
        <3>5. QED BY <3>2, <3>3, <3>4
    <2>6. QED BY <2>4, <2>5
<1>3. Nat \subseteq I
    <2> HIDE DEF I
    <2>1. QED BY <1>1, <1>2, NatSetInduction
<1>4. Cardinality(S) \in Nat
    BY FS_CardinalityType
<1>5. HasMost(S)
    BY <1>3, <1>4
<1>6. \E m \in S : \A x \in S : m >= x
    BY <1>5
<1>7. QED BY <1>6 DEF Max

\* One more than the deepest of what p keeps, by f.
Below(kept, f, p) == IF kept[p] = {} THEN 0 ELSE 1 + Max({f[q] : q \in kept[p]})

\* f is the depth of each member of S.
Deepens(kept, S, f) == f = [p \in S |-> Below(kept, f, p)]

\* Depth(kept) is such a function for the build set, if there is one.
LEMMA DepthUnfolds ==
    ASSUME NEW kept
    PROVE  Depth(kept) = [r \in Recipes |->
               IF r \in in.build THEN (CHOOSE f : Deepens(kept, in.build, f))[r] ELSE 0]
BY DEF Depth, Deepens, Below

\* No walk along kept stays in a set of packages.
WalksEnd(kept) ==
    /\ \A p \in in.build : kept[p] \subseteq in.build
    /\ \A E \in SUBSET in.build : (\A p \in E : kept[p] \cap E # {}) => E = {}

\* The function is built from the providers up.
LEMMA DepthExists ==
    ASSUME in \in Inputs, NEW kept, WalksEnd(kept)
    PROVE  \E f : Deepens(kept, in.build, f)
<1>1. Size \in Nat /\ IsFiniteSet(in.build)
    BY BuildIsFinite
<1> DEFINE Closed(S) == \A p \in S : kept[p] \subseteq S
           I == {n \in Nat : n <= Size => \E S \in SUBSET in.build : \E f :
                     n <= Cardinality(S) /\ Closed(S) /\ Deepens(kept, S, f)}
<1>2. 0 \in I
    <2>1. Deepens(kept, {}, [p \in {} |-> 0])
        BY DEF Deepens
    <2>2. 0 <= Cardinality({}) /\ Closed({}) /\ {} \in SUBSET in.build
        BY FS_EmptySet
    <2>3. QED BY <2>1, <2>2
<1>3. ASSUME NEW n \in Nat, n \in I
      PROVE  n + 1 \in I
    <2> SUFFICES ASSUME n + 1 <= Size
                 PROVE  \E S \in SUBSET in.build : \E f :
                            n + 1 <= Cardinality(S) /\ Closed(S) /\ Deepens(kept, S, f)
        OBVIOUS
    <2>1. PICK S \in SUBSET in.build : \E f :
                   n <= Cardinality(S) /\ Closed(S) /\ Deepens(kept, S, f)
        BY <1>1, <1>3
    <2>2. PICK f : n <= Cardinality(S) /\ Closed(S) /\ Deepens(kept, S, f)
        BY <2>1
    <2>3. IsFiniteSet(S) /\ Cardinality(S) \in Nat
        BY <1>1, FS_Subset, FS_CardinalityType
    <2>4. CASE S = in.build
        BY <2>2, <2>4 DEF Size
    <2>5. CASE S # in.build
        <3>1. in.build \ S # {}
            BY <2>5
        <3>2. PICK p \in in.build \ S : kept[p] \cap (in.build \ S) = {}
            BY <3>1 DEF WalksEnd
        <3>3. kept[p] \subseteq S
            BY <3>2 DEF WalksEnd
        <3> DEFINE T == S \cup {p}
                   g == [x \in T |-> IF x = p THEN Below(kept, f, p) ELSE f[x]]
        <3>4. Closed(T)
            BY <2>2, <3>3
        <3>5. ASSUME NEW x \in T
              PROVE  g[x] = Below(kept, g, x)
            <4>1. kept[x] \subseteq S
                BY <2>2, <3>3, <3>5
            <4>2. \A q \in kept[x] : g[q] = f[q]
                BY <3>2, <4>1
            <4>3. {g[q] : q \in kept[x]} = {f[q] : q \in kept[x]}
                BY <4>2
            <4>4. g[x] = Below(kept, f, x)
                <5>1. CASE x = p
                    BY <5>1
                <5>2. CASE x # p
                    <6>1. x \in S
                        BY <3>5, <5>2
                    <6>2. f[x] = Below(kept, f, x)
                        BY <2>2, <6>1 DEF Deepens
                    <6>3. QED BY <5>2, <6>1, <6>2
                <5>3. QED BY <5>1, <5>2
            <4> HIDE DEF g
            <4>5. QED BY <4>3, <4>4 DEF Below
        <3>6. g = [x \in T |-> g[x]]
            OBVIOUS
        <3>7. n + 1 <= Cardinality(T)
            <4>1. p \notin S
                BY <3>2
            <4>2. Cardinality(S \cup {p}) = Cardinality(S) + 1
                BY <2>3, <4>1, FS_AddElement
            <4>3. QED BY <2>2, <2>3, <4>2
        <3>8. T \in SUBSET in.build
            BY <3>2
        <3> HIDE DEF g, T
        <3>9. Deepens(kept, T, g)
            BY <3>5, <3>6 DEF Deepens
        <3>10. QED BY <3>4, <3>7, <3>8, <3>9
    <2>6. QED BY <2>4, <2>5
<1>4. Nat \subseteq I
    <2> HIDE DEF I
    <2>1. QED BY <1>2, <1>3, NatSetInduction
<1>5. PICK S \in SUBSET in.build : \E f :
               Size <= Cardinality(S) /\ Closed(S) /\ Deepens(kept, S, f)
    BY <1>1, <1>4
<1>6. S = in.build
    <2>1. Cardinality(S) <= Cardinality(in.build) /\ Cardinality(S) \in Nat
        BY <1>1, FS_Subset, FS_CardinalityType
    <2>2. Cardinality(in.build) = Cardinality(S)
        BY <1>1, <1>5, <2>1 DEF Size
    <2>3. QED BY <1>1, <2>2, FS_Subset
<1>7. QED BY <1>5, <1>6

\* The values of f on a finite set.
LEMMA ImageIsFinite ==
    ASSUME NEW S, IsFiniteSet(S), NEW f, \A x \in S : f[x] \in Nat
    PROVE  IsFiniteSet({f[x] : x \in S}) /\ {f[x] : x \in S} \in SUBSET Nat
<1> DEFINE T == {f[x] : x \in S}
           onto == [x \in S |-> f[x]]
<1>1. onto \in Surjection(S, T)
    BY DEF Surjection
<1> HIDE DEF onto
<1>2. IsFiniteSet(T)
    BY <1>1, FS_Surjection
<1>3. QED BY <1>2

\* Depths are natural numbers, greater than those of what is kept and one more
\* than the greatest of them.
LEMMA DepthIs ==
    ASSUME in \in Inputs, NEW kept, WalksEnd(kept)
    PROVE  /\ Depth(kept) \in [Recipes -> Nat]
           /\ \A p \in in.build : \A q \in kept[p] : Depth(kept)[q] < Depth(kept)[p]
           /\ \A p \in in.build :
                  kept[p] # {} => \E q \in kept[p] : Depth(kept)[p] = Depth(kept)[q] + 1
           /\ \A p \in Recipes : (p \in in.build => kept[p] = {}) => Depth(kept)[p] = 0
<1>1. IsFiniteSet(in.build) /\ in.build \subseteq Recipes
    BY BuildIsFinite
<1>2. PICK f : f = CHOOSE g : Deepens(kept, in.build, g)
    OBVIOUS
<1>3. Deepens(kept, in.build, f)
    BY <1>2, DepthExists
<1>4. \A p \in in.build : f[p] = Below(kept, f, p)
    BY <1>3 DEF Deepens
<1>5. ASSUME NEW p \in in.build, \A q \in kept[p] : f[q] \in Nat
      PROVE  /\ f[p] \in Nat /\ \A q \in kept[p] : f[q] < f[p]
             /\ kept[p] = {} => f[p] = 0
             /\ kept[p] # {} => \E q \in kept[p] : f[p] = f[q] + 1
    <2>1. CASE kept[p] = {}
        <3>1. f[p] = 0
            BY <1>4, <2>1 DEF Below
        <3>2. QED BY <2>1, <3>1
    <2>2. CASE kept[p] # {}
        <3>1. PICK T : T = {f[q] : q \in kept[p]}
            OBVIOUS
        <3>2. IsFiniteSet(kept[p])
            BY <1>1, FS_Subset DEF WalksEnd
        <3>3. IsFiniteSet(T) /\ T \in SUBSET Nat /\ T # {}
            BY <1>5, <2>2, <3>1, <3>2, ImageIsFinite
        <3>4. Max(T) \in T /\ \A x \in T : x <= Max(T)
            BY <3>3, MaxOf
        <3>5. f[p] = 1 + Max(T)
            BY <1>4, <2>2, <3>1 DEF Below
        <3>6. Max(T) \in Nat
            BY <3>3, <3>4
        <3>7. ASSUME NEW q \in kept[p] PROVE f[q] < f[p]
            <4>1. f[q] \in T /\ f[q] \in Nat
                BY <1>5, <3>1
            <4>2. f[q] <= Max(T)
                BY <3>4, <4>1
            <4>3. QED BY <3>5, <3>6, <4>1, <4>2
        <3>8. PICK q \in kept[p] : f[q] = Max(T)
            BY <3>1, <3>4
        <3>9. f[p] = f[q] + 1
            BY <3>5, <3>6, <3>8
        <3>10. QED BY <2>2, <3>5, <3>6, <3>7, <3>9
    <2>3. QED BY <2>1, <2>2
<1>6. \A p \in in.build : f[p] \in Nat
    <2>1. PICK E \in SUBSET in.build : E = {p \in in.build : f[p] \notin Nat}
        OBVIOUS
    <2>2. \A p \in E : kept[p] \cap E # {}
        BY <1>5, <2>1 DEF WalksEnd
    <2>3. E = {}
        BY <2>2 DEF WalksEnd
    <2>4. QED BY <2>1, <2>3
<1>7. \A p \in in.build :
          /\ \A q \in kept[p] : q \in in.build /\ f[q] < f[p]
          /\ kept[p] = {} => f[p] = 0
          /\ kept[p] # {} => \E q \in kept[p] : f[p] = f[q] + 1
    BY <1>5, <1>6 DEF WalksEnd
<1>8. Depth(kept) = [r \in Recipes |-> IF r \in in.build THEN f[r] ELSE 0]
    BY <1>2, DepthUnfolds
<1>9. QED BY <1>1, <1>6, <1>7, <1>8

\* The edges that survive.
LEMMA RestrictedEnds ==
    ASSUME in \in Inputs, edges = Graph, found = Cycles
    PROVE  WalksEnd(Restricted)
<1>1. \A p \in in.build : Restricted[p] = {q \in Inside(p) : Survives(p, q)}
    BY RestrictedIs
<1>2. \A p \in in.build : Restricted[p] \subseteq in.build
    BY <1>1 DEF Inside
<1>3. ASSUME NEW E \in SUBSET in.build, \A p \in E : Restricted[p] \cap E # {}
      PROVE  E = {}
    <2>1. \A p \in E : \E q \in E : Survives(p, q)
        BY <1>1, <1>3
    <2>2. QED BY <2>1, NothingEndless
<1>4. QED BY <1>2, <1>3 DEF WalksEnd

----------------------------------------------------------------------------
(* Providers first *)

\* The members of p's cycle at p's stage.
Level(p) == {r \in CycleOf(p) : in.stage[r] = in.stage[p]}

\* Two of them are among what SameStage reports.
LEMMA LevelIsReported ==
    ASSUME in \in Inputs, found = Cycles, NEW p \in in.build,
           NEW q \in CycleOf(p), p # q, in.stage[q] = in.stage[p]
    PROVE  Level(p) \in SameStage(found) /\ p \in Level(p) /\ q \in Level(p)
<1>1. p \in CycleOf(p) /\ CycleOf(p) \in found /\ IsFiniteSet(CycleOf(p))
    BY CycleOfIs
<1>2. Level(p) \subseteq CycleOf(p) /\ p \in Level(p) /\ q \in Level(p)
    BY <1>1 DEF Level
<1>3. IsFiniteSet(Level(p))
    BY <1>1, <1>2, FS_Subset
<1>4. Cardinality(Level(p)) > 1 /\ Cardinality(CycleOf(p)) > 1
    BY <1>1, <1>2, <1>3, TwoMembers
<1>5. PICK c \in {d \in found : Cardinality(d) > 1} : c = CycleOf(p)
    BY <1>1, <1>4
<1>6. PICK k \in {in.stage[r] : r \in in.build} : k = in.stage[p]
    OBVIOUS
<1>7. Level(p) = {r \in c : in.stage[r] = k}
    BY <1>5, <1>6 DEF Level
<1>8. Level(p) \in {{r \in d : in.stage[r] = j} : d \in {d \in found : Cardinality(d) > 1},
                                               j \in {in.stage[r] : r \in in.build}}
    BY <1>5, <1>6, <1>7
<1>9. QED BY <1>2, <1>4, <1>8 DEF SameStage

\* A wave is 0, or one more than the greatest of what survives.
WavesAreDepths ==
    \A p \in Recipes :
        LET kept == {q \in Inside(p) : Survives(p, q)}
        IN  IF p \notin in.build \/ kept = {}
            THEN wave[p] = 0
            ELSE (\A q \in kept : wave[q] < wave[p]) /\ \E q \in kept : wave[p] = wave[q] + 1

\* What waves() and break_cycles() leave behind.
LEMMA SolveOrders ==
    ASSUME GraphInvariant, Solve
    PROVE  /\ phase' = "jobs" /\ UNCHANGED <<in, edges, found>>
           /\ wave' \in [Recipes -> Nat]
           /\ unordered' = SameStage(found)
           /\ \A p \in in.build, q \in in.build : Survives(p, q) => wave'[q] < wave'[p]
           /\ WavesAreDepths'
<1>1. in \in Inputs /\ edges = Graph /\ found = Cycles
    BY DEF GraphInvariant, Types, Solve
<1>2. Endless(Restricted) = {}
    BY <1>1, EveryWalkEnds
<1>3. /\ phase' = "jobs" /\ UNCHANGED <<in, edges, found>>
      /\ wave' = Depth(Restricted) /\ unordered' = SameStage(found)
    BY <1>2 DEF Solve, tarjan
<1>4. PICK kept : kept = Restricted
    OBVIOUS
<1>5. WalksEnd(kept) /\ \A p \in in.build : kept[p] = {q \in Inside(p) : Survives(p, q)}
    BY <1>1, <1>4, RestrictedEnds, RestrictedIs
<1>6. /\ wave' \in [Recipes -> Nat]
      /\ \A p \in in.build : \A q \in kept[p] : wave'[q] < wave'[p]
      /\ \A p \in in.build : kept[p] # {} => \E q \in kept[p] : wave'[p] = wave'[q] + 1
      /\ \A p \in Recipes : (p \in in.build => kept[p] = {}) => wave'[p] = 0
    BY <1>1, <1>3, <1>4, <1>5, DepthIs
<1>7. in' = in /\ \A p, q : Inside(p)' = Inside(p) /\ Survives(p, q)' = Survives(p, q)
    <2>1. (\A r : Inside(r)' = Inside(r) /\ Reach(r)' = Reach(r)) /\ in' = in
        BY <1>3, GraphStands
    <2>2. \A p : CycleOf(p)' = CycleOf(p)
        BY <2>1 DEF CycleOf
    <2>3. QED BY <2>1, <2>2 DEF Survives
<1>8. ASSUME NEW p \in Recipes
      PROVE  LET left == {q \in Inside(p) : Survives(p, q)}
             IN  IF p \notin in.build \/ left = {}
                 THEN wave'[p] = 0
                 ELSE /\ \A q \in left : wave'[q] < wave'[p]
                      /\ \E q \in left : wave'[p] = wave'[q] + 1
    BY <1>5, <1>6
<1>9. WavesAreDepths'
    BY <1>7, <1>8 DEF WavesAreDepths
<1>10. QED BY <1>3, <1>5, <1>6, <1>9 DEF Survives

\* What is needed survives unless it is of the same cycle and not earlier.
LEMMA NeedSurvives ==
    ASSUME in \in Inputs, edges = Graph, NEW p \in in.build, NEW q \in in.build,
           NEW c \in in.needs[p], p # q, c \in in.provides[q] \cup in.published[q],
           ~SameCycle(p, q) \/ in.stage[q] < in.stage[p]
    PROVE  Survives(p, q)
<1>1. p \in Recipes /\ q \in Recipes
    BY BuildIsFinite
<1>2. q \in Graph[p]
    BY <1>1 DEF Graph, Providers
<1>3. q \in Inside(p)
    BY <1>2 DEF Inside
<1>4. QED BY <1>3, CycleOfIs DEF Survives

\* No step loses the order or the report.
LEMMA OrderNext == GraphInvariant /\ OrderedOrReported /\ [Next]_vars => OrderedOrReported'
<1> SUFFICES ASSUME GraphInvariant, OrderedOrReported, [Next]_vars PROVE OrderedOrReported'
    OBVIOUS
<1>1. in \in Inputs /\ (in.graph /\ phase \notin {"load", "components"} => found = Cycles)
      /\ (in.graph /\ phase # "load" => edges = Graph)
    BY DEF GraphInvariant, Types
<1>2. CASE Solve
    <2>1. /\ phase' = "jobs" /\ UNCHANGED <<in, edges, found>>
          /\ unordered' = SameStage(found)
          /\ \A p \in in.build, q \in in.build : Survives(p, q) => wave'[q] < wave'[p]
        BY <1>2, SolveOrders
    <2>2. in.graph /\ edges = Graph /\ found = Cycles
        BY <1>1, <1>2 DEF GraphInvariant, Solve
    <2>3. (\A r : Inside(r)' = Inside(r) /\ Reach(r)' = Reach(r)) /\ Cycles' = Cycles
        BY <2>1, GraphStands
    <2>4. \A p, q : SameCycle(p, q)' = SameCycle(p, q)
        BY <2>3 DEF SameCycle
    <2>5. NeverRaises'
        BY <2>1 DEF NeverRaises
    <2>6. ProvidersFirst'
        <3>1. ASSUME NEW p \in in.build, NEW q \in in.build, NEW c \in in.needs[p],
                     p # q, c \in in.provides[q] \cup in.published[q],
                     ~SameCycle(p, q) \/ in.stage[q] < in.stage[p]
              PROVE  wave'[q] < wave'[p]
            BY <1>1, <2>1, <2>2, <3>1, NeedSurvives
        <3>2. QED BY <2>1, <2>4, <3>1 DEF ProvidersFirst
    <2>7. UnorderedIsReported'
        <3>1. PICK reported : reported = SameStage(found)
            OBVIOUS
        <3>2. \A p \in in.build : \A q \in Inside(p) :
                  SameCycle(p, q) /\ in.stage[p] = in.stage[q]
                      => \E members \in reported : {p, q} \subseteq members
            <4> SUFFICES ASSUME NEW p \in in.build, NEW q \in Inside(p),
                                SameCycle(p, q), in.stage[p] = in.stage[q]
                         PROVE  \E members \in reported : {p, q} \subseteq members
                OBVIOUS
            <4>1. q \in in.build /\ p # q
                BY <1>1, <2>2, NoLoops DEF Inside
            <4>2. q \in CycleOf(p)
                BY <1>1, <4>1, CycleOfIs
            <4>3. QED BY <1>1, <2>2, <3>1, <4>1, <4>2, LevelIsReported
        <3>3. QED BY <2>1, <2>3, <2>4, <3>1, <3>2 DEF UnorderedIsReported
    <2>8. QED BY <2>5, <2>6, <2>7 DEF OrderedOrReported
<1>3. CASE ~Solved'
    <2>1. CASE phase' = "raised"
        <3>1. phase = "raised"
            BY <1>2, <2>1 DEF Next, Tarjan, Load, Visit, Descend, LookBack, Return, AllSeen,
                              StageWaves, ListJobs, RefuseTooDeep, Untouched, vars, Looking,
                              OrderedOrReported, NeverRaises
        <3>2. QED BY <3>1 DEF OrderedOrReported, NeverRaises
    <2>2. CASE phase' # "raised"
        BY <1>3, <2>2 DEF OrderedOrReported, NeverRaises, ProvidersFirst, UnorderedIsReported
    <2>3. QED BY <2>1, <2>2
<1>4. CASE Solved' /\ ~Solve
    <2>1. Solved /\ UNCHANGED <<in, edges, wave, unordered>> /\ phase' # "raised"
        BY <1>4 DEF Next, Tarjan, Load, Visit, Descend, LookBack, Return, AllSeen,
                    StageWaves, ListJobs, RefuseTooDeep, Untouched, vars, Looking, Solved
    <2>2. (\A r : Inside(r)' = Inside(r) /\ Reach(r)' = Reach(r)) /\ Cycles' = Cycles
        BY <2>1, GraphStands
    <2>3. \A p, q : SameCycle(p, q)' = SameCycle(p, q)
        BY <2>2 DEF SameCycle
    <2>4. ProvidersFirst /\ UnorderedIsReported
        BY DEF OrderedOrReported
    <2>5. ProvidersFirst'
        BY <2>1, <2>3, <2>4 DEF ProvidersFirst
    <2>6. UnorderedIsReported'
        BY <2>1, <2>2, <2>3, <2>4 DEF UnorderedIsReported
    <2>7. QED BY <2>1, <2>5, <2>6 DEF OrderedOrReported, NeverRaises
<1>5. QED BY <1>2, <1>3, <1>4

\* The assertion of depth() is never met; a package builds in a later wave than
\* what provides what it BuildRequires, unless both are in one cycle and config
\* does not put the provider earlier; and two packages of a cycle that nothing
\* orders are reported together.
THEOREM OrderCorrect == Spec => []OrderedOrReported
<1>1. Init => OrderedOrReported
    BY DEF Init, OrderedOrReported, NeverRaises, ProvidersFirst, UnorderedIsReported, Solved
<1>2. QED BY GraphIsInvariant, OrderNext, <1>1, PTL DEF Spec

----------------------------------------------------------------------------
(* The lists of the jobs *)

\* s lists the members of S in order.
Lists(s, S) ==
    /\ s \in [1..Cardinality(S) -> S]
    /\ \A i, j \in DOMAIN s : i < j => s[i] < s[j]

\* A finite set of numbers can be put in order.
LEMMA OrderExists ==
    ASSUME NEW S \in SUBSET Nat, IsFiniteSet(S)
    PROVE  \E s : Lists(s, S)
<1> DEFINE I == {n \in Nat : \A T \in SUBSET Nat :
                                IsFiniteSet(T) /\ Cardinality(T) = n => \E s : Lists(s, T)}
<1>1. 0 \in I
    <2> SUFFICES ASSUME NEW T \in SUBSET Nat, IsFiniteSet(T), Cardinality(T) = 0
                 PROVE  \E s : Lists(s, T)
        OBVIOUS
    <2>1. T = {}
        BY FS_EmptySet
    <2>2. [i \in 1..0 |-> 0] \in [1..0 -> {}] /\ DOMAIN [i \in 1..0 |-> 0] = {}
        OBVIOUS
    <2>3. Lists([i \in 1..0 |-> 0], {})
        BY <2>1, <2>2 DEF Lists
    <2>4. QED BY <2>1, <2>3
<1>2. ASSUME NEW n \in Nat, n \in I
      PROVE  n + 1 \in I
    <2> SUFFICES ASSUME NEW T \in SUBSET Nat, IsFiniteSet(T), Cardinality(T) = n + 1
                 PROVE  \E s : Lists(s, T)
        OBVIOUS
    <2>1. T # {}
        BY FS_EmptySet
    <2>2. PICK m \in T : \A x \in T : x <= m
        BY <2>1, MaxOf
    <2>3. PICK U \in SUBSET Nat : U = T \ {m}
        OBVIOUS
    <2>4. IsFiniteSet(U) /\ Cardinality(U) = n
        <3>1. IsFiniteSet(T \ {m}) /\ Cardinality(T \ {m}) = (n + 1) - 1
            BY <2>2, FS_RemoveElement
        <3>2. QED BY <2>3, <3>1
    <2>5. PICK s : Lists(s, U)
        BY <1>2, <2>4
    <2>6. s \in [1..n -> U] /\ \A i, j \in 1..n : i < j => s[i] < s[j]
        BY <2>4, <2>5 DEF Lists
    <2> DEFINE t == [i \in 1..(n + 1) |-> IF i = n + 1 THEN m ELSE s[i]]
    <2>7. t \in [1..(n + 1) -> T]
        BY <2>2, <2>3, <2>6
    <2>8. ASSUME NEW i \in 1..(n + 1), NEW j \in 1..(n + 1), i < j
          PROVE  t[i] < t[j]
        <3>1. i \in 1..n /\ s[i] \in T /\ s[i] # m /\ s[i] <= m /\ s[i] \in Nat /\ m \in Nat
            <4>1. i \in 1..n
                BY <2>8
            <4>2. s[i] \in U
                BY <2>6, <4>1
            <4>3. QED BY <2>2, <2>3, <4>1, <4>2
        <3>2. CASE j = n + 1
            BY <3>1, <3>2
        <3>3. CASE j # n + 1
            BY <2>6, <2>8, <3>1, <3>3
        <3>4. QED BY <3>2, <3>3
    <2>9. Lists(t, T)
        <3> HIDE DEF t
        <3>1. QED BY <2>7, <2>8 DEF Lists
    <2>10. QED BY <2>9
<1>3. Nat \subseteq I
    <2> HIDE DEF I
    <2>1. QED BY <1>1, <1>2, NatSetInduction
<1>4. QED BY <1>3, FS_CardinalityType

\* InOrder(S) is a sequence of the members of S, each at one place.
LEMMA InOrderIs ==
    ASSUME NEW S \in SUBSET Nat, IsFiniteSet(S)
    PROVE  /\ InOrder(S) \in Seq(S) /\ Len(InOrder(S)) = Cardinality(S)
           /\ \A i, j \in 1..Cardinality(S) : InOrder(S)[i] = InOrder(S)[j] => i = j
           /\ \A x \in S : \E i \in 1..Cardinality(S) : InOrder(S)[i] = x
<1>1. Cardinality(S) \in Nat
    BY FS_CardinalityType
<1>2. PICK s : s = InOrder(S)
    OBVIOUS
<1>3. \E t \in [1..Cardinality(S) -> S] : \A i, j \in DOMAIN t : i < j => t[i] < t[j]
    BY OrderExists DEF Lists
<1>4. /\ s \in [1..Cardinality(S) -> S]
      /\ \A i, j \in DOMAIN s : i < j => s[i] < s[j]
    BY <1>2, <1>3 DEF InOrder
<1>5. s \in Seq(S) /\ Len(s) = Cardinality(S)
    BY <1>1, <1>4
<1>6. ASSUME NEW i \in 1..Cardinality(S), NEW j \in 1..Cardinality(S), s[i] = s[j]
      PROVE  i = j
    <2>1. s[i] \in Nat /\ s[j] \in Nat
        BY <1>4
    <2>2. ~(i < j) /\ ~(j < i)
        BY <1>4, <1>6, <2>1
    <2>3. QED BY <1>1, <2>2
<1>7. \A x \in S : \E i \in 1..Cardinality(S) : s[i] = x
    <2>1. s \in Injection(1..Cardinality(S), S)
        BY <1>4, <1>6 DEF Injection, IsInjective
    <2>2. IsFiniteSet(1..Cardinality(S)) /\ Cardinality(1..Cardinality(S)) = Cardinality(S)
        BY <1>1, FS_Interval
    <2>3. s \in Surjection(1..Cardinality(S), S)
        BY <2>1, <2>2, FS_Injection
    <2>4. QED BY <2>3 DEF Surjection
<1>8. QED BY <1>2, <1>5, <1>6, <1>7

\* Multiplication keeps the order.
LEMMA Times ==
    ASSUME NEW c \in Nat, NEW a \in Int, NEW b \in Int, a <= b
    PROVE  c * a <= c * b /\ c * a \in Int /\ c * b \in Int
OBVIOUS

\* Slice i of n names begins before the end; every place is in a slice.
LEMMA Slices ==
    ASSUME NEW n \in Nat, NEW c \in Nat \ {0}, NEW N, N = (n + c - 1) \div c
    PROVE  /\ N \in Nat /\ N <= n
           /\ \A i \in 1..N : c * (i - 1) \in Nat /\ c * (i - 1) < n /\ c * i = c * (i - 1) + c
           /\ \A x \in 1..n : \E i \in 1..N : c * (i - 1) < x /\ x <= c * i
<1>1. /\ N \in Nat /\ c * N <= n + c - 1 /\ n + c - 1 < c * N + c
    OBVIOUS
<1>2. \A k \in Int : c * k \in Int /\ c * (k - 1) = c * k - c
    OBVIOUS
<1>3. N <= n
    <2>1. SUFFICES ASSUME n + 1 <= N PROVE FALSE
        BY <1>1
    <2>2. c * (n + 1) <= c * N
        BY <1>1, <2>1, Times
    <2>3. c * (n + 1) = c * n + c /\ 1 * n <= c * n
        BY <2>1
    <2>4. QED BY <1>1, <1>2, <2>2, <2>3
<1>4. ASSUME NEW i \in 1..N
      PROVE  c * (i - 1) \in Nat /\ c * (i - 1) < n /\ c * i = c * (i - 1) + c
    <2>1. c * i <= c * N
        BY <1>1, <1>4, Times
    <2>2. c * 0 <= c * (i - 1)
        BY <1>4, Times
    <2>3. QED BY <1>1, <1>2, <2>1, <2>2
<1>5. ASSUME NEW x \in 1..n
      PROVE  \E i \in 1..N : c * (i - 1) < x /\ x <= c * i
    <2>1. PICK k \in Nat : k = (x - 1) \div c
        OBVIOUS
    <2>2. c * k <= x - 1 /\ x - 1 < c * k + c
        BY <2>1
    <2>3. c * (k + 1) = c * k + c /\ (k + 1) - 1 = k /\ k + 1 \in Int
        OBVIOUS
    <2>4. k + 1 <= N
        <3>1. SUFFICES ASSUME N <= k PROVE FALSE
            BY <1>1
        <3>2. c * N <= c * k
            BY <1>1, <3>1, Times
        <3>3. QED BY <1>1, <1>2, <2>2, <3>2
    <2>5. k + 1 \in 1..N /\ c * ((k + 1) - 1) < x /\ x <= c * (k + 1)
        BY <1>1, <1>2, <2>2, <2>3, <2>4
    <2>6. QED BY <2>5
<1>6. QED BY <1>1, <1>3, <1>4, <1>5

\* How many names go before slice i.
Before(i) == Chunk * (i - 1)

\* No place is in two slices.
LEMMA SlicesApart ==
    ASSUME NEW i \in Nat, NEW k \in Nat, NEW j \in 1..Chunk, NEW l \in 1..Chunk,
           Before(i) + j = Before(k) + l
    PROVE  i = k /\ j = l
<1>1. PICK c \in Nat \ {0} : c = Chunk
    BY GraphAssumption
<1>2. /\ c * (i - 1) \in Int /\ c * (k - 1) \in Int /\ j \in 1..c /\ l \in 1..c
      /\ c * (i - 1) + j = c * (k - 1) + l
    BY <1>1 DEF Before
<1>3. ~(i < k)
    <2>1. SUFFICES ASSUME i <= k - 1 PROVE FALSE
        OBVIOUS
    <2>2. c * i <= c * (k - 1) /\ c * i = c * (i - 1) + c
        BY <2>1, Times
    <2>3. QED BY <1>2, <2>2
<1>4. ~(k < i)
    <2>1. SUFFICES ASSUME k <= i - 1 PROVE FALSE
        OBVIOUS
    <2>2. c * k <= c * (i - 1) /\ c * k = c * (k - 1) + c
        BY <2>1, Times
    <2>3. QED BY <1>2, <2>2
<1>5. i = k
    BY <1>3, <1>4
<1>6. QED BY <1>2, <1>5

\* A part of a sequence.
LEMMA PartIs ==
    ASSUME NEW S, NEW s \in Seq(S), NEW a \in Nat, NEW b \in Nat, a <= b, b <= Len(s)
    PROVE  /\ SubSeq(s, a + 1, b) \in Seq(S) /\ Len(SubSeq(s, a + 1, b)) = b - a
           /\ \A j \in 1..b - a : SubSeq(s, a + 1, b)[j] = s[a + j]
<1>1. SubSeq(s, a + 1, b) \in Seq(S)
    OBVIOUS
<1>2. Len(SubSeq(s, a + 1, b)) = b - a
    OBVIOUS
<1>3. \A j \in 1..b - a : SubSeq(s, a + 1, b)[j] = s[a + j]
    OBVIOUS
<1>4. QED BY <1>1, <1>2, <1>3

\* The slices of a list: none is empty or too long, and together they are it.
LEMMA ChunksAre ==
    ASSUME NEW S, NEW s \in Seq(S)
    PROVE  /\ \E N \in Nat : N <= Len(s) /\ DOMAIN ChunksOf(s) = 1..N
           /\ ChunksOf(s) \in Seq(Seq(S))
           /\ \A i \in DOMAIN ChunksOf(s) :
                  /\ i \in Nat /\ ChunksOf(s)[i] \in Seq(S) /\ Len(ChunksOf(s)[i]) \in 1..Chunk
                  /\ \A j \in 1..Len(ChunksOf(s)[i]) :
                         /\ Before(i) + j \in 1..Len(s)
                         /\ ChunksOf(s)[i][j] = s[Before(i) + j]
           /\ \A x \in 1..Len(s) : \E i \in DOMAIN ChunksOf(s) :
                  \E j \in 1..Len(ChunksOf(s)[i]) : x = Before(i) + j
<1>1. PICK n \in Nat : n = Len(s)
    OBVIOUS
<1>2. PICK c \in Nat \ {0} : c = Chunk
    BY GraphAssumption
<1>3. PICK N : N = (n + c - 1) \div c
    OBVIOUS
<1>4. /\ N \in Nat /\ N <= n
      /\ \A i \in 1..N : c * (i - 1) \in Nat /\ c * (i - 1) < n /\ c * i = c * (i - 1) + c
      /\ \A x \in 1..n : \E i \in 1..N : c * (i - 1) < x /\ x <= c * i
    BY <1>3, Slices
<1>5. PICK C : C = ChunksOf(s)
    OBVIOUS
<1>6. C = [i \in 1..N |-> SubSeq(s, c * (i - 1) + 1, Min({c * i, n}))]
    BY <1>1, <1>2, <1>3, <1>5 DEF ChunksOf
<1>7. ASSUME NEW i \in 1..N
      PROVE  /\ C[i] \in Seq(S) /\ Len(C[i]) \in 1..c
             /\ \A j \in 1..Len(C[i]) :
                    c * (i - 1) + j \in 1..n /\ C[i][j] = s[c * (i - 1) + j]
             /\ \A x \in 1..n : c * (i - 1) < x /\ x <= c * i => x - c * (i - 1) \in 1..Len(C[i])
    <2>1. PICK a \in Nat : a = c * (i - 1) /\ a < n /\ c * i = a + c
        BY <1>4
    <2>2. PICK b \in Nat : b = Min({a + c, n}) /\ a < b /\ b <= n /\ b <= a + c
                           /\ (b = n \/ b = a + c)
        <3>1. a + c \in Int /\ n \in Int
            OBVIOUS
        <3>2. Min({a + c, n}) \in {a + c, n} /\ Min({a + c, n}) <= a + c /\ Min({a + c, n}) <= n
            BY <3>1, MinOfTwo
        <3>3. QED BY <2>1, <3>2
    <2>3. C[i] = SubSeq(s, a + 1, b)
        BY <1>6, <1>7, <2>1, <2>2
    <2>4. /\ C[i] \in Seq(S) /\ Len(C[i]) = b - a
          /\ \A j \in 1..b - a : C[i][j] = s[a + j]
        <3>1. a <= b /\ b <= Len(s)
            BY <1>1, <2>2
        <3>2. QED BY <2>3, <3>1, PartIs
    <2>5. Len(C[i]) \in 1..c
        BY <2>2, <2>4
    <2>6. \A j \in 1..b - a : a + j \in 1..n
        BY <2>2
    <2>7. \A x \in 1..n : a < x /\ x <= a + c => x - a \in 1..b - a
        BY <2>2
    <2>8. QED BY <2>1, <2>4, <2>5, <2>6, <2>7
<1>8. DOMAIN C = 1..N
    BY <1>6
<1>9. C \in Seq(Seq(S))
    <2>1. C \in [1..N -> Seq(S)]
        BY <1>6, <1>7
    <2>2. QED BY <1>4, <2>1
<1>10. \A x \in 1..n : \E i \in 1..N : \E j \in 1..Len(C[i]) : x = c * (i - 1) + j
    <2>1. ASSUME NEW x \in 1..n
          PROVE  \E i \in 1..N : \E j \in 1..Len(C[i]) : x = c * (i - 1) + j
        <3>1. PICK i \in 1..N : c * (i - 1) < x /\ x <= c * i
            BY <1>4
        <3>2. x - c * (i - 1) \in 1..Len(C[i])
            BY <1>7, <3>1
        <3>3. x = c * (i - 1) + (x - c * (i - 1))
            BY <1>4, <3>1
        <3>4. QED BY <3>1, <3>2, <3>3
    <2>2. QED BY <2>1
<1>11. \A i : Before(i) = c * (i - 1)
    BY <1>2 DEF Before
<1>12. /\ N <= Len(s) /\ DOMAIN C = 1..N /\ \A i \in 1..N : i \in Nat
       /\ \A i \in 1..N : Len(C[i]) \in 1..Chunk
    <2>1. N <= Len(s) /\ \A i \in 1..N : i \in Nat
        BY <1>1, <1>4
    <2>2. \A i \in 1..N : Len(C[i]) \in 1..Chunk
        BY <1>2, <1>7
    <2>3. QED BY <1>8, <2>1, <2>2
<1>13. /\ \A i \in 1..N : \A j \in 1..Len(C[i]) :
              Before(i) + j \in 1..Len(s) /\ C[i][j] = s[Before(i) + j]
       /\ \A x \in 1..Len(s) : \E i \in 1..N : \E j \in 1..Len(C[i]) : x = Before(i) + j
    BY <1>1, <1>7, <1>10, <1>11
<1>14. \A i \in DOMAIN C : i \in Nat /\ C[i] \in Seq(S) /\ Len(C[i]) \in 1..Chunk
    BY <1>7, <1>8, <1>12
<1>15. \A i \in DOMAIN C : \A j \in 1..Len(C[i]) :
          Before(i) + j \in 1..Len(s) /\ C[i][j] = s[Before(i) + j]
    BY <1>8, <1>13
<1>16. \A x \in 1..Len(s) : \E i \in DOMAIN C : \E j \in 1..Len(C[i]) : x = Before(i) + j
    BY <1>8, <1>13
<1>17. \E M \in Nat : M <= Len(s) /\ DOMAIN C = 1..M
    BY <1>4, <1>12
<1>18. QED BY <1>5, <1>9, <1>14, <1>15, <1>16, <1>17

\* The slices of the names of a set in order: each name is in one, at one place.
LEMMA NamesInChunks ==
    ASSUME NEW S \in SUBSET Nat, IsFiniteSet(S), NEW C, C = ChunksOf(InOrder(S))
    PROVE  /\ C \in Seq(Seq(S))
           /\ \E N \in Nat : N <= Cardinality(S) /\ DOMAIN C = 1..N
           /\ \A x \in S : \E i \in DOMAIN C : x \in ToSet(C[i])
           /\ \A i \in DOMAIN C : /\ ToSet(C[i]) \subseteq S /\ ToSet(C[i]) # {}
                                  /\ Len(C[i]) \in 1..Chunk /\ IsInjective(C[i])
           /\ \A i, j \in DOMAIN C : ToSet(C[i]) \cap ToSet(C[j]) # {} => i = j
<1>1. PICK s \in Seq(S) : s = InOrder(S)
    BY InOrderIs
<1>2. /\ Len(s) = Cardinality(S) /\ Len(s) \in Nat
      /\ \A i, j \in 1..Len(s) : s[i] = s[j] => i = j
      /\ \A x \in S : \E i \in 1..Len(s) : s[i] = x
    BY <1>1, InOrderIs
<1>3. C = ChunksOf(s) /\ Chunk \in Nat \ {0}
    BY <1>1, GraphAssumption
<1>4. /\ \E N \in Nat : N <= Len(s) /\ DOMAIN C = 1..N
      /\ C \in Seq(Seq(S))
      /\ \A i \in DOMAIN C :
             /\ i \in Nat /\ C[i] \in Seq(S) /\ Len(C[i]) \in 1..Chunk
             /\ \A j \in 1..Len(C[i]) :
                    /\ Before(i) + j \in 1..Len(s)
                    /\ C[i][j] = s[Before(i) + j]
      /\ \A x \in 1..Len(s) : \E i \in DOMAIN C : \E j \in 1..Len(C[i]) : x = Before(i) + j
    <2>1. /\ \E N \in Nat : N <= Len(s) /\ DOMAIN ChunksOf(s) = 1..N
          /\ ChunksOf(s) \in Seq(Seq(S))
          /\ \A i \in DOMAIN ChunksOf(s) :
                 /\ i \in Nat /\ ChunksOf(s)[i] \in Seq(S) /\ Len(ChunksOf(s)[i]) \in 1..Chunk
                 /\ \A j \in 1..Len(ChunksOf(s)[i]) :
                        /\ Before(i) + j \in 1..Len(s)
                        /\ ChunksOf(s)[i][j] = s[Before(i) + j]
          /\ \A x \in 1..Len(s) : \E i \in DOMAIN ChunksOf(s) : \E j \in 1..Len(ChunksOf(s)[i]) : x = Before(i) + j
        BY ChunksAre
    <2>2. QED BY <1>3, <2>1
<1>5. \A i \in DOMAIN C : /\ DOMAIN C[i] = 1..Len(C[i])
                          /\ ToSet(C[i]) = {C[i][j] : j \in 1..Len(C[i])}
    <2>1. ASSUME NEW i \in DOMAIN C
          PROVE  DOMAIN C[i] = 1..Len(C[i]) /\ ToSet(C[i]) = {C[i][j] : j \in 1..Len(C[i])}
        <3>1. C[i] \in Seq(S)
            BY <1>4
        <3>2. DOMAIN C[i] = 1..Len(C[i])
            BY <3>1
        <3>3. QED BY <3>2 DEF ToSet
    <2>2. QED BY <2>1
<1>6. ASSUME NEW x \in S PROVE \E i \in DOMAIN C : x \in ToSet(C[i])
    <2>1. PICK place \in 1..Len(s) : s[place] = x
        BY <1>2
    <2>2. PICK i \in DOMAIN C : \E j \in 1..Len(C[i]) : place = Before(i) + j
        BY <1>4
    <2>3. PICK j \in 1..Len(C[i]) : place = Before(i) + j
        BY <2>2
    <2>4. C[i][j] = x
        BY <1>4, <2>1, <2>3
    <2>5. QED BY <1>5, <2>4
<1>7. ASSUME NEW i \in DOMAIN C, NEW k \in DOMAIN C,
             NEW j \in 1..Len(C[i]), NEW l \in 1..Len(C[k]), C[i][j] = C[k][l]
      PROVE  i = k /\ j = l
    <2>1. PICK x \in 1..Len(s), y \in 1..Len(s) :
              /\ x = Before(i) + j /\ y = Before(k) + l
              /\ C[i][j] = s[x] /\ C[k][l] = s[y]
        BY <1>4
    <2>2. x = y
        BY <1>2, <1>7, <2>1
    <2>3. j \in 1..Chunk /\ l \in 1..Chunk /\ i \in Nat /\ k \in Nat
        <3>1. Len(C[i]) \in 1..Chunk /\ Len(C[k]) \in 1..Chunk /\ i \in Nat /\ k \in Nat
            BY <1>4
        <3>2. QED BY <1>3, <3>1
    <2>4. Before(i) + j = Before(k) + l
        BY <2>1, <2>2
    <2>5. QED BY <2>3, <2>4, SlicesApart
<1>8. ASSUME NEW i \in DOMAIN C
      PROVE  /\ ToSet(C[i]) \subseteq S /\ ToSet(C[i]) # {}
             /\ Len(C[i]) \in 1..Chunk /\ IsInjective(C[i])
    <2>1. C[i] \in Seq(S) /\ Len(C[i]) \in 1..Chunk
        BY <1>4
    <2>2. \A j \in 1..Len(C[i]) : C[i][j] \in S
        BY <2>1
    <2>3. 1 \in 1..Len(C[i])
        BY <1>3, <2>1
    <2>4. IsInjective(C[i])
        <3>1. DOMAIN C[i] = 1..Len(C[i])
            BY <1>5
        <3>2. \A j, l \in 1..Len(C[i]) : C[i][j] = C[i][l] => j = l
            BY <1>7
        <3>3. QED BY <3>1, <3>2 DEF IsInjective
    <2>5. ToSet(C[i]) = {C[i][j] : j \in 1..Len(C[i])}
        BY <1>5
    <2>6. ToSet(C[i]) \subseteq S /\ ToSet(C[i]) # {}
        BY <2>2, <2>3, <2>5
    <2>7. QED BY <2>1, <2>4, <2>6
<1>9. ASSUME NEW i \in DOMAIN C, NEW k \in DOMAIN C, ToSet(C[i]) \cap ToSet(C[k]) # {}
      PROVE  i = k
    <2>1. PICK x \in ToSet(C[i]) : x \in ToSet(C[k])
        BY <1>9
    <2>2. PICK j \in 1..Len(C[i]) : x = C[i][j]
        BY <1>5
    <2>3. PICK l \in 1..Len(C[k]) : x = C[k][l]
        BY <1>5, <2>1
    <2>4. C[i][j] = C[k][l]
        BY <2>2, <2>3
    <2>5. QED BY <1>7, <2>4
<1>10. C \in Seq(Seq(S)) /\ \E N \in Nat : N <= Cardinality(S) /\ DOMAIN C = 1..N
    BY <1>2, <1>4
<1>11. \A x \in S : \E i \in DOMAIN C : x \in ToSet(C[i])
    BY <1>6
<1>12. \A i \in DOMAIN C : /\ ToSet(C[i]) \subseteq S /\ ToSet(C[i]) # {}
                           /\ Len(C[i]) \in 1..Chunk /\ IsInjective(C[i])
    BY <1>8
<1>13. \A i, j \in DOMAIN C : ToSet(C[i]) \cap ToSet(C[j]) # {} => i = j
    BY <1>9
<1>14. QED BY <1>10, <1>11, <1>12, <1>13

\* The packages of wave k.
Waved(k) == {r \in in.build : wave[r] = k}

\* The waves are numbers, and the lists those of the waves.
ListInvariant ==
    /\ wave \in [Recipes -> Nat]
    /\ unordered \subseteq SUBSET in.build
    /\ jobs \in [0..(Stages - 1) -> Seq(Seq(in.build))]
    /\ phase = "listed" =>
           Late = {} /\ \A k \in 0..(Stages - 1) : jobs[k] = ChunksOf(InOrder(Waved(k)))

\* A sequence of members of S is one of members of any larger set.
LEMMA SeqGrows ==
    ASSUME NEW S, NEW T, S \subseteq T
    PROVE  Seq(S) \subseteq Seq(T)
<1> SUFFICES ASSUME NEW s \in Seq(S) PROVE s \in Seq(T)
    OBVIOUS
<1>1. \A i \in 1..Len(s) : s[i] \in T
    OBVIOUS
<1>2. QED BY <1>1

\* The packages of a wave are a finite set of numbers, no more than the recipes.
LEMMA WavedIs ==
    ASSUME in \in Inputs, NEW k
    PROVE  /\ Waved(k) \subseteq in.build /\ Waved(k) \in SUBSET Nat /\ IsFiniteSet(Waved(k))
           /\ Cardinality(Waved(k)) \in Nat
           /\ Cardinality(Waved(k)) <= Cardinality(Recipes) /\ Cardinality(Recipes) \in Nat
<1>1. /\ in.build \subseteq Recipes /\ in.build \in SUBSET Nat
      /\ Waved(k) \subseteq in.build /\ IsFiniteSet(Recipes)
    BY BuildIsFinite, GraphAssumption DEF Waved
<1>2. QED BY <1>1, FS_Subset, FS_CardinalityType

\* What SameStage reports are packages of the build set.
LEMMA ReportedIs ==
    ASSUME found \subseteq SUBSET in.build
    PROVE  SameStage(found) \subseteq SUBSET in.build
<1> SUFFICES ASSUME NEW level \in SameStage(found) PROVE level \subseteq in.build
    OBVIOUS
<1>1. level \in {{r \in c : in.stage[r] = k} : c \in {c \in found : Cardinality(c) > 1},
                                               k \in {in.stage[r] : r \in in.build}}
    BY DEF SameStage
<1>2. PICK c \in found : level \subseteq c
    BY <1>1
<1>3. QED BY <1>2

\* Before anything is listed.
LEMMA ListInit == Init => ListInvariant
<1> SUFFICES ASSUME Init PROVE ListInvariant
    OBVIOUS
<1>1. <<>> \in Seq(Seq(in.build))
    OBVIOUS
<1>2. QED BY <1>1 DEF Init, ListInvariant, NoWave

\* Every step keeps the lists those of the waves.
LEMMA ListNext == GraphInvariant /\ ListInvariant /\ [Next]_vars => ListInvariant'
<1> SUFFICES ASSUME GraphInvariant, ListInvariant, [Next]_vars PROVE ListInvariant'
    OBVIOUS
<1>1. /\ in \in Inputs /\ found \subseteq SUBSET in.build
      /\ in.build \subseteq Recipes /\ in.stage \in [Recipes -> Nat]
    BY BuildIsFinite, GraphAssumption DEF GraphInvariant, Types
<1>2. CASE Solve
    <2>1. /\ phase' = "jobs" /\ in' = in /\ jobs' = jobs
          /\ wave' \in [Recipes -> Nat] /\ unordered' = SameStage(found)
        BY <1>2, SolveOrders DEF Solve
    <2>2. unordered' \subseteq SUBSET in.build
        BY <1>1, <2>1, ReportedIs
    <2>3. QED BY <2>1, <2>2 DEF ListInvariant
<1>3. CASE StageWaves
    <2>1. /\ phase' = "jobs" /\ in' = in /\ jobs' = jobs /\ unordered' = unordered
          /\ wave' = [r \in Recipes |-> IF r \in in.build THEN in.stage[r] ELSE 0]
        BY <1>3 DEF StageWaves
    <2>2. wave' \in [Recipes -> Nat]
        BY <1>1, <2>1
    <2>3. QED BY <2>1, <2>2 DEF ListInvariant
<1>4. CASE ListJobs
    <2>1. /\ phase' = "listed" /\ Late = {} /\ UNCHANGED <<in, wave, unordered>>
          /\ jobs' = [k \in 0..(Stages - 1) |-> ChunksOf(InOrder(Waved(k)))]
        BY <1>4 DEF ListJobs, Waved
    <2>2. ASSUME NEW k \in 0..(Stages - 1)
          PROVE  ChunksOf(InOrder(Waved(k))) \in Seq(Seq(in.build))
        <3>1. /\ Waved(k) \subseteq in.build /\ Waved(k) \in SUBSET Nat
              /\ IsFiniteSet(Waved(k))
            BY <1>1, WavedIs
        <3>2. PICK C : C = ChunksOf(InOrder(Waved(k)))
            OBVIOUS
        <3>3. C \in Seq(Seq(Waved(k)))
            BY <3>1, <3>2, NamesInChunks
        <3>4. Seq(Waved(k)) \subseteq Seq(in.build)
            BY <3>1, SeqGrows
        <3>5. Seq(Seq(Waved(k))) \subseteq Seq(Seq(in.build))
            BY <3>4, SeqGrows
        <3>6. QED BY <3>2, <3>3, <3>5
    <2>3. jobs' \in [0..(Stages - 1) -> Seq(Seq(in.build))]
        BY <2>1, <2>2
    <2>4. \A k : Waved(k)' = Waved(k)
        BY <2>1 DEF Waved
    <2>5. Late' = {}
        BY <2>1 DEF Late
    <2>6. \A k \in 0..(Stages - 1) : jobs'[k] = ChunksOf(InOrder(Waved(k)))'
        BY <2>1, <2>4
    <2>7. QED BY <2>1, <2>3, <2>5, <2>6 DEF ListInvariant
<1>5. CASE UNCHANGED <<in, phase, wave, unordered, jobs>>
    <2>1. Late' = Late /\ \A k : Waved(k)' = Waved(k)
        BY <1>5 DEF Late, Waved
    <2>2. \A k : ChunksOf(InOrder(Waved(k)))' = ChunksOf(InOrder(Waved(k)))
        BY <2>1
    <2>3. QED BY <1>5, <2>1, <2>2 DEF ListInvariant
<1>6. CASE phase' # "listed" /\ UNCHANGED <<in, wave, unordered, jobs>>
    BY <1>6 DEF ListInvariant
<1>7. QED BY <1>2, <1>3, <1>4, <1>5, <1>6
          DEF Next, Tarjan, Load, Visit, Descend, LookBack, Return, AllSeen,
              RefuseTooDeep, Untouched, vars

\* The waves and the lists throughout.
THEOREM ListIsInvariant == Spec => []ListInvariant
BY GraphIsInvariant, ListInit, ListNext, PTL DEF Spec

\* The types of the variables.
THEOREM TypeCorrect == Spec => []TypeOK
<1>1. GraphInvariant /\ ListInvariant => TypeOK
    BY DEF GraphInvariant, Types, Frames, ListInvariant, TypeOK
<1>2. QED BY GraphIsInvariant, ListIsInvariant, <1>1, PTL

\* Every selected recipe is handed to exactly one job, of its own wave, in a
\* list that is neither empty nor longer than Chunk and names nothing twice.
THEOREM ListsCorrect == Spec => []NothingFallsOut
<1>1. GraphInvariant /\ ListInvariant => NothingFallsOut
    <2> SUFFICES ASSUME GraphInvariant, ListInvariant, phase = "listed"
                 PROVE  NothingFallsOut
        BY DEF NothingFallsOut
    <2>1. /\ in \in Inputs /\ wave \in [Recipes -> Nat] /\ Late = {}
          /\ \A k \in 0..(Stages - 1) : jobs[k] = ChunksOf(InOrder(Waved(k)))
          /\ in.build \subseteq Recipes /\ Stages \in Nat \ {0}
        BY BuildIsFinite, GraphAssumption DEF GraphInvariant, Types, ListInvariant
    <2>2. ASSUME NEW k \in 0..(Stages - 1)
          PROVE  /\ \A i \in DOMAIN jobs[k] : i \in 1..Cardinality(Recipes)
                 /\ \A x \in Waved(k) : \E i \in DOMAIN jobs[k] : x \in ToSet(jobs[k][i])
                 /\ \A i \in DOMAIN jobs[k] :
                        /\ ToSet(jobs[k][i]) \subseteq Waved(k)
                        /\ Len(jobs[k][i]) \in 1..Chunk /\ IsInjective(jobs[k][i])
                 /\ \A i, j \in DOMAIN jobs[k] :
                        ToSet(jobs[k][i]) \cap ToSet(jobs[k][j]) # {} => i = j
        <3>1. PICK C : C = jobs[k]
            OBVIOUS
        <3>2. C = ChunksOf(InOrder(Waved(k)))
            BY <2>1, <3>1
        <3>3. /\ Waved(k) \in SUBSET Nat /\ IsFiniteSet(Waved(k))
              /\ Cardinality(Waved(k)) \in Nat
              /\ Cardinality(Waved(k)) <= Cardinality(Recipes) /\ Cardinality(Recipes) \in Nat
            BY <2>1, WavedIs
        <3>4. /\ \E N \in Nat : N <= Cardinality(Waved(k)) /\ DOMAIN C = 1..N
              /\ \A x \in Waved(k) : \E i \in DOMAIN C : x \in ToSet(C[i])
              /\ \A i \in DOMAIN C : /\ ToSet(C[i]) \subseteq Waved(k)
                                     /\ Len(C[i]) \in 1..Chunk /\ IsInjective(C[i])
              /\ \A i, j \in DOMAIN C : ToSet(C[i]) \cap ToSet(C[j]) # {} => i = j
            BY <3>2, <3>3, NamesInChunks
        <3>5. \A i \in DOMAIN C : i \in 1..Cardinality(Recipes)
            BY <3>3, <3>4
        <3>6. QED BY <3>1, <3>4, <3>5
    <2>3. ASSUME NEW r \in in.build
          PROVE  \E k \in 0..(Stages - 1), i \in 1..Cardinality(Recipes) :
                     /\ i \in DOMAIN jobs[k] /\ r \in ToSet(jobs[k][i]) /\ k = wave[r]
                     /\ \A l \in 0..(Stages - 1) : \A j \in DOMAIN jobs[l] :
                            r \in ToSet(jobs[l][j]) => <<l, j>> = <<k, i>>
        <3>1. wave[r] \in Nat /\ wave[r] < Stages
            BY <2>1 DEF Late
        <3>2. PICK k \in 0..(Stages - 1) : k = wave[r]
            BY <2>1, <3>1
        <3>3. r \in Waved(k)
            BY <3>2 DEF Waved
        <3>4. PICK i \in DOMAIN jobs[k] : r \in ToSet(jobs[k][i])
            BY <2>2, <3>3
        <3>5. i \in 1..Cardinality(Recipes)
            BY <2>2
        <3>6. ASSUME NEW l \in 0..(Stages - 1), NEW j \in DOMAIN jobs[l], r \in ToSet(jobs[l][j])
              PROVE  l = k /\ j = i
            <4>1. r \in Waved(l)
                BY <2>2, <3>6
            <4>2. l = k
                BY <3>2, <4>1 DEF Waved
            <4>3. r \in ToSet(jobs[k][i]) \cap ToSet(jobs[k][j])
                BY <3>4, <3>6, <4>2
            <4>4. QED BY <2>2, <3>6, <4>2, <4>3
        <3>7. QED BY <3>2, <3>4, <3>5, <3>6
    <2>4. QED BY <2>2, <2>3 DEF NothingFallsOut
<1>2. QED BY GraphIsInvariant, ListIsInvariant, <1>1, PTL

----------------------------------------------------------------------------
(* The waves of the core *)

\* Every step keeps the waves as deep as the packages are.
LEMMA DepthsNext ==
    GraphInvariant /\ (Solved => WavesAreDepths) /\ [Next]_vars => (Solved => WavesAreDepths)'
<1> SUFFICES ASSUME GraphInvariant, Solved => WavesAreDepths, [Next]_vars, Solved'
             PROVE  WavesAreDepths'
    BY DEF Solved
<1>1. CASE Solve
    BY <1>1, SolveOrders
<1>2. CASE ~Solve
    <2>1. Solved /\ UNCHANGED <<in, edges, wave>>
        BY <1>2 DEF Next, Tarjan, Load, Visit, Descend, LookBack, Return, AllSeen,
                    StageWaves, ListJobs, RefuseTooDeep, Untouched, vars, Looking, Solved
    <2>2. \A r : Inside(r)' = Inside(r) /\ Reach(r)' = Reach(r)
        BY <2>1, GraphStands
    <2>3. \A p : CycleOf(p)' = CycleOf(p)
        BY <2>1, <2>2 DEF CycleOf
    <2>4. \A p, q : Survives(p, q)' = Survives(p, q)
        BY <2>1, <2>2, <2>3 DEF Survives
    <2>5. QED BY <2>1, <2>2, <2>4 DEF WavesAreDepths
<1>3. QED BY <1>1, <1>2

\* With as many cycles as packages each package is a cycle of its own.
LEMMA NoCycles ==
    ASSUME in \in Inputs, Cardinality(Cycles) = Cardinality(in.build)
    PROVE  \A p \in in.build : CycleOf(p) = {p}
<1>1. IsFiniteSet(in.build)
    BY BuildIsFinite
<1>2. PICK own : own = [p \in in.build |-> CycleOf(p)]
    OBVIOUS
<1>3. own \in Surjection(in.build, Cycles)
    BY <1>2, CyclesAre DEF Surjection
<1>4. own \in Injection(in.build, Cycles)
    <2>1. Cardinality(in.build) = Cardinality(Cycles)
        OBVIOUS
    <2>2. QED BY <1>1, <1>3, <2>1, FS_Surjection
<1>5. \A p, q \in in.build : CycleOf(p) = CycleOf(q) => p = q
    BY <1>2, <1>4 DEF Injection, IsInjective
<1>6. ASSUME NEW p \in in.build PROVE CycleOf(p) = {p}
    <2>1. p \in CycleOf(p) /\ CycleOf(p) \subseteq in.build
        BY CycleOfIs
    <2>2. ASSUME NEW q \in CycleOf(p) PROVE q = p
        BY <1>5, <2>1, SameCycleOf
    <2>3. QED BY <2>1, <2>2
<1>7. QED BY <1>6

\* A job's list is empty when its wave is.
LEMMA OccupiedIs ==
    ASSUME in \in Inputs, ListInvariant, phase = "listed"
    PROVE  Occupied = {k \in 0..(Stages - 1) : \E r \in in.build : wave[r] = k}
<1>1. ASSUME NEW k \in 0..(Stages - 1)
      PROVE  jobs[k] # <<>> <=> \E r \in in.build : wave[r] = k
    <2>1. PICK C : C = jobs[k]
        OBVIOUS
    <2>2. C = ChunksOf(InOrder(Waved(k)))
        BY <2>1 DEF ListInvariant
    <2>3. Waved(k) \in SUBSET Nat /\ IsFiniteSet(Waved(k))
        BY WavedIs
    <2>4. /\ C \in Seq(Seq(Waved(k)))
          /\ \A x \in Waved(k) : \E i \in DOMAIN C : x \in ToSet(C[i])
          /\ \A i \in DOMAIN C : ToSet(C[i]) \subseteq Waved(k) /\ ToSet(C[i]) # {}
        BY <2>2, <2>3, NamesInChunks
    <2>5. C # <<>> <=> DOMAIN C # {}
        BY <2>4
    <2>6. QED BY <2>1, <2>4, <2>5 DEF Waved
<1>2. QED BY <1>1 DEF Occupied

\* Of a build set without cycles the waves are the longest paths RebuildPlan
\* describes, and the same waves are published early and cover the same
\* packages.
THEOREM CoreAgrees == Spec => []AgreesWithCore
<1>1. Init => (Solved => WavesAreDepths)
    BY DEF Init, Solved
<1>2. Spec => [](Solved => WavesAreDepths)
    BY GraphIsInvariant, DepthsNext, <1>1, PTL DEF Spec
<1>3. GraphInvariant /\ ListInvariant /\ (Solved => WavesAreDepths) => AgreesWithCore
    <2> SUFFICES ASSUME GraphInvariant, ListInvariant, Solved => WavesAreDepths,
                        phase = "listed", in.graph, Cardinality(Cycles) = Cardinality(in.build)
                 PROVE  /\ Core!IsWaveMap(wave, in.build)
                        /\ EarlyWaves = Core!EarlyWaves(in.build, wave)
                        /\ \A k \in EarlyWaves : Through(k) = Core!Through(in.build, wave, k)
        BY DEF AgreesWithCore
    <2>1. /\ in \in Inputs /\ wave \in [Recipes -> Nat] /\ Late = {} /\ WavesAreDepths
          /\ in.build \subseteq Recipes /\ IsFiniteSet(in.build) /\ edges = Graph
          /\ Stages \in Nat \ {0} /\ EarlyPublications \in Nat /\ EarlyPublications <= Stages
        BY BuildIsFinite, GraphAssumption DEF GraphInvariant, Types, ListInvariant, Solved
    <2>2. ASSUME NEW p \in in.build
          PROVE  {q \in Inside(p) : Survives(p, q)} = edges[p] \cap in.build
        <3>1. CycleOf(p) = {p} /\ p \notin Inside(p)
            BY <2>1, NoCycles, NoLoops
        <3>2. \A q \in Inside(p) : Survives(p, q)
            BY <3>1 DEF Survives
        <3>3. QED BY <3>2 DEF Inside
    <2>3. Core!IsWaveMap(wave, in.build)
        BY <2>1, <2>2 DEF WavesAreDepths, Core!IsWaveMap
    <2>4. \A r \in in.build : wave[r] \in 0..(Stages - 1)
        BY <2>1 DEF Late
    <2>5. Occupied = {k \in 0..(Stages - 1) : \E r \in in.build : wave[r] = k}
        BY <2>1, OccupiedIs
    <2>6. ASSUME NEW k \in Occupied
          PROVE  k # Max(Occupied) <=> \E r \in in.build : wave[r] > k
        <3>1. PICK taken \in SUBSET Nat : taken = Occupied
            BY <2>5
        <3>2. \A x \in taken : x <= Stages
            BY <2>1, <2>5, <3>1
        <3>3. IsFiniteSet(taken)
            BY <2>1, <3>2, FS_BoundedSetOfNaturals
        <3>4. Max(taken) \in taken /\ \A x \in taken : x <= Max(taken)
            BY <2>6, <3>1, <3>3, MaxOf
        <3>5. \A r \in in.build : wave[r] \in taken
            BY <2>4, <2>5, <3>1
        <3>6. PICK most \in taken : most = Max(taken) /\ \A x \in taken : x <= most
            BY <3>4
        <3>7. PICK r \in in.build : wave[r] = most
            BY <2>5, <3>1, <3>6
        <3>8. k # most => most > k
            BY <2>6, <3>1, <3>6
        <3>9. \A q \in in.build : wave[q] <= most /\ wave[q] \in Nat
            BY <3>1, <3>5, <3>6
        <3>10. (\E q \in in.build : wave[q] > k) => k # most
            BY <3>1, <3>6, <3>9
        <3>11. QED BY <3>1, <3>6, <3>7, <3>8, <3>10
    <2>7. EarlyWaves = Core!EarlyWaves(in.build, wave)
        <3>1. EarlyWaves = {k \in Occupied : (\E r \in in.build : wave[r] > k) /\ k < EarlyPublications}
            BY <2>6 DEF EarlyWaves
        <3>2. Core!EarlyWaves(in.build, wave) =
                  {k \in 0..(EarlyPublications - 1) : /\ \E p \in in.build : wave[p] = k
                                                      /\ \E p \in in.build : wave[p] > k}
            BY DEF Core!EarlyWaves, Core!EarlyIds
        <3>3. \A k : k \in 0..(EarlyPublications - 1)
                  <=> k \in 0..(Stages - 1) /\ k < EarlyPublications
            BY <2>1
        <3>4. QED BY <2>5, <3>1, <3>2, <3>3
    <2>8. \A k \in EarlyWaves : Through(k) = Core!Through(in.build, wave, k)
        BY DEF Through, Core!Through
    <2>9. QED BY <2>3, <2>7, <2>8
<1>4. QED BY GraphIsInvariant, ListIsInvariant, <1>2, <1>3, PTL

=============================================================================
