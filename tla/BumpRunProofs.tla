----------------------------- MODULE BumpRunProofs -----------------------------
(***************************************************************************)
(* Why a bump moves lock, spec, manifest and ratchet together, and why the *)
(* branch the gate lands alone carries nothing that is a human's to        *)
(* decide, for every set of packages, whatever fails and lands meanwhile.  *)
(* A merge takes a package from the branch or from main; both are whole,   *)
(* and since a run never gives a package a Fedora primary, what it takes   *)
(* out of the ratchet is out of it on both sides.                          *)
(* What is held gives way only to something newer, since the release a run *)
(* takes is below nothing of its cycle that is out, and what is held is.   *)
(***************************************************************************)
EXTENDS BumpRun, SequenceTheorems, TLAPS

Versions == ToSet(Shipped)

Onlies == Packages \cup {"all"}
Cycles == {<<>>, <<52>>}

Proposals == [kind : {"final", "relock"}, latest : Versions]

\* A run that has read nothing yet, and one that has decided what to move.
Begun == [at : {"plan"}, only : Onlies, cycle : Cycles, by : {"schedule", "hand"},
          clear : BOOLEAN, base : Trees]
Working == [at : {"apply", "verify", "open", "gate"}, only : Onlies, cycle : Cycles,
            by : {"schedule", "hand"}, clear : BOOLEAN, base : Trees, tree : Trees,
            todo : UNION {[S -> Proposals] : S \in SUBSET Packages},
            applied : BOOLEAN, tried : BOOLEAN, relock : BOOLEAN]

PullRequests == [open : {TRUE}, base : Trees, head : Trees, gated : BOOLEAN]

Types ==
    /\ main \in Trees
    /\ upstream \in [shipped : [Packages -> 1..Len(Shipped)], rolled : SUBSET (Packages \X Versions)]
    /\ run \in {Idle} \cup Begun \cup Working
    /\ prs \in [Branches -> {Closed} \cup PullRequests]
    /\ hand \in 0..MaxHand

\* What a run makes of a tree: it stays whole, locks move up, and no package
\* comes to fetch from Fedora.
Advance(base, tree) ==
    /\ Whole(base) /\ Whole(tree)
    /\ \A p \in Packages :
          /\ tree.lock[p] # base.lock[p] =>
                Above(tree.lock[p].version.num, base.lock[p].version.num)
          /\ tree.lock[p].primary = "lookaside" => base.lock[p].primary = "lookaside"

\* ... and what one may make that nobody reviews.
InSeries(base, tree) ==
    \A p \in Packages :
        /\ tree.lock[p].primary = base.lock[p].primary
        /\ tree.lock[p] # base.lock[p] =>
              p \notin ReviewOnly /\ tree.lock[p].version.num[1] = base.lock[p].version.num[1]

\* What a run may still apply to a package.
Proper(r, p) ==
    LET entry == r.base.lock[p]
        proposal == r.todo[p]
    IN  /\ r.only \in {"all", p}
        /\ Above(proposal.latest.num, entry.version.num)
        /\ proposal.kind = "relock" => r.only = p /\ r.relock
        /\ proposal.kind = "final" =>
              /\ entry.primary = "gnome" /\ p \notin ReviewOnly
              /\ r.cycle = <<>> => proposal.latest.num[1] = entry.version.num[1]

RunInv ==
    /\ run \in Begun => Whole(run.base)
    /\ run \in Working =>
          /\ Advance(run.base, run.tree)
          /\ \A p \in DOMAIN run.todo : Proper(run, p)
          /\ run.relock => run.only # "all"
          /\ \A p \in Packages : run.only \notin {"all", p} => run.tree.lock[p] = run.base.lock[p]
          /\ run.cycle = <<>> /\ ~run.relock => InSeries(run.base, run.tree)

PrInv(b) ==
    prs[b] \in PullRequests =>
        /\ Advance(prs[b].base, prs[b].head)
        /\ b = Daily => InSeries(prs[b].base, prs[b].head)
        /\ \A p \in Packages :
              b # Cycle /\ b # Daily /\ b # <<"relock", p>> => prs[b].head.lock[p] = prs[b].base.lock[p]

BumpInvariant == Types /\ Whole(main) /\ RunInv /\ \A b \in Branches : PrInv(b)

----------------------------------------------------------------------------
(* The releases *)

\* Two numbers are not three.
LEMMA TwoIsShort ==
    ASSUME NEW n, Len(n) = 2
    PROVE  ~(Len(n) >= 3)
OBVIOUS

\* Three numbers are.
LEMMA ThreeIsLong ==
    ASSUME NEW n, Len(n) = 3
    PROVE  Len(n) >= 3
OBVIOUS

\* What a version without a suffix is compared by, and the cycle it is of.
LEMMA PlainVersion ==
    ASSUME NEW v, NEW n, v.num = n, v.tag = ""
    PROVE  VersionKey(v) = n /\ ~IsPrerelease(v)
BY DEF VersionKey, IsPrerelease

\* A release of two numbers is of the cycle its first one names.
LEMMA ShortCycle ==
    ASSUME NEW v, NEW n, v.num = n, v.tag = "", Len(n) = 2
    PROVE  ReleaseCycle(v) = <<n[1]>>
<1>1. ~IsPrerelease(v) /\ ~(Len(n) >= 3)
    BY PlainVersion, TwoIsShort
<1>2. QED BY <1>1 DEF ReleaseCycle

\* The numbers of GNOME 40 and later are read in the newer scheme.
LEMMA PastForty ==
    ASSUME NEW x, x = 51
    PROVE  x >= 40 /\ ~(x < 40)
OBVIOUS

\* A point release of GNOME 51 is of the same cycle.
LEMMA LongCycle ==
    ASSUME NEW v, NEW n, v.num = n, v.tag = "", Len(n) = 3, n[1] = 51
    PROVE  ReleaseCycle(v) = <<n[1]>>
<1>1. ~IsPrerelease(v)
    BY PlainVersion
<1>2. Len(v.num) >= 3
    BY ThreeIsLong
<1>3. v.num[1] >= 40 /\ ~(v.num[1] < 40)
    BY PastForty, Zenon
<1>4. QED BY <1>1, <1>2, <1>3, Zenon DEF ReleaseCycle

\* The releases, by their numbers.
LEMMA TheReleases ==
    /\ Versions = {Shipped[1], Shipped[2], Shipped[3], Shipped[4]} /\ Len(Shipped) = 4
    /\ Shipped[1].num = <<51, 0>> /\ Shipped[1].tag = ""
    /\ Shipped[2].num = <<51, 0, 1>> /\ Shipped[2].tag = ""
    /\ Shipped[3].num = <<51, 0, 2>> /\ Shipped[3].tag = ""
    /\ Shipped[4].num = <<52, 0>> /\ Shipped[4].tag = ""
<1>1. DOMAIN Shipped = {1, 2, 3, 4} /\ Len(Shipped) = 4
    BY DEF Shipped
<1>2. /\ Shipped[1] = [num |-> <<51, 0>>, tag |-> ""] /\ Shipped[2] = [num |-> <<51, 0, 1>>, tag |-> ""]
      /\ Shipped[3] = [num |-> <<51, 0, 2>>, tag |-> ""] /\ Shipped[4] = [num |-> <<52, 0>>, tag |-> ""]
    BY DEF Shipped, Ver
<1>3. ASSUME NEW s, DOMAIN s = {1, 2, 3, 4}
      PROVE  {s[i] : i \in DOMAIN s} = {s[1], s[2], s[3], s[4]}
    BY <1>3
<1>4. Versions = {Shipped[i] : i \in DOMAIN Shipped}
    BY DEF Versions, ToSet
<1>5. Versions = {Shipped[1], Shipped[2], Shipped[3], Shipped[4]}
    BY <1>1, <1>3, <1>4
<1>6. ASSUME NEW v, NEW n, v = [num |-> n, tag |-> ""]
      PROVE  v.num = n /\ v.tag = ""
    BY <1>6
<1>7. Shipped[1].num = <<51, 0>> /\ Shipped[1].tag = ""
    BY <1>2, <1>6, ZenonT(60)
<1>8. Shipped[2].num = <<51, 0, 1>> /\ Shipped[2].tag = ""
    BY <1>2, <1>6, ZenonT(60)
<1>9. Shipped[3].num = <<51, 0, 2>> /\ Shipped[3].tag = ""
    BY <1>2, <1>6, ZenonT(60)
<1>10. Shipped[4].num = <<52, 0>> /\ Shipped[4].tag = ""
    <2>1. Shipped[4] = [num |-> <<52, 0>>, tag |-> ""]
        BY <1>2
    <2>2. QED BY <2>1, <1>6, ZenonT(60)
<1>11. QED BY <1>1, <1>5, <1>7, <1>8, <1>9, <1>10

\* The tuples the releases are compared by.
LEMMA TheNumbers ==
    /\ Len(<<51, 0>>) = 2 /\ DOMAIN <<51, 0>> = {1, 2}
    /\ <<51, 0>>[1] = 51 /\ <<51, 0>>[2] = 0
    /\ Len(<<52, 0>>) = 2 /\ DOMAIN <<52, 0>> = {1, 2}
    /\ <<52, 0>>[1] = 52 /\ <<52, 0>>[2] = 0
    /\ Len(<<51, 0, 1>>) = 3 /\ DOMAIN <<51, 0, 1>> = {1, 2, 3}
    /\ <<51, 0, 1>>[1] = 51 /\ <<51, 0, 1>>[2] = 0 /\ <<51, 0, 1>>[3] = 1
    /\ Len(<<51, 0, 2>>) = 3 /\ DOMAIN <<51, 0, 2>> = {1, 2, 3}
    /\ <<51, 0, 2>>[1] = 51 /\ <<51, 0, 2>>[2] = 0 /\ <<51, 0, 2>>[3] = 2
OBVIOUS

\* The first two numbers of a sequence.
LEMMA FirstTwo ==
    ASSUME NEW s, s[1] \in Int, s[2] \in Int, NEW t, t = SubSeq(s, 1, 2)
    PROVE  t \in Seq(Int) /\ Len(t) = 2 /\ t[1] = s[1] /\ t[2] = s[2]
<1>1. \A i \in 1..2 : s[i] \in Int
    OBVIOUS
<1>2. t \in Seq(Int) /\ Len(t) = (IF 1 <= 2 THEN 2-1+1 ELSE 0) /\ \A i \in 1..2-1+1 : t[i] = s[1+i-1]
    BY <1>1, SubSeqProperties
<1>3. QED BY <1>2

\* Two numbers are a sequence of two numbers.
LEMMA PairEqual ==
    ASSUME NEW t \in Seq(Int), Len(t) = 2, t[1] = 51, t[2] = 0
    PROVE  t = <<51, 0>>
<1>1. <<51, 0>> \in Seq(Int)
    OBVIOUS
<1>2. QED BY <1>1, TheNumbers, SeqEqual

\* Sequences that begin differently are not equal.
LEMMA HeadsDiffer ==
    ASSUME NEW s, NEW t, s[1] = 51, t[1] = 52
    PROVE  s # t
OBVIOUS

\* A point release is above the release it follows, and not above 52.0.
LEMMA PointRelease ==
    ASSUME NEW x \in {1, 2}
    PROVE  /\ Above(<<51, 0, x>>, <<51, 0>>) /\ ~Above(<<51, 0>>, <<51, 0, x>>)
           /\ ~Above(<<51, 0, x>>, <<52, 0>>) /\ Above(<<52, 0>>, <<51, 0, x>>)
<1> DEFINE long == <<51, 0, x>>
<1>0. /\ Len(long) = 3 /\ DOMAIN long = {1, 2, 3}
      /\ long[1] = 51 /\ long[2] = 0 /\ long[3] = x
    OBVIOUS
<1> HIDE DEF long
<1> DEFINE t == SubSeq(long, 1, 2)
<1>1. t \in Seq(Int) /\ Len(t) = 2 /\ t[1] = 51 /\ t[2] = 0
    BY <1>0, FirstTwo
<1> HIDE DEF t
<1>2. Above(long, <<51, 0>>)
    <2>1. t = <<51, 0>>
        BY <1>1, PairEqual
    <2>2. QED BY <1>0, <2>1, TheNumbers DEF Above, t
<1>3. ~Above(<<51, 0>>, long)
    BY <1>0, TheNumbers DEF Above
<1>4. ~Above(long, <<52, 0>>)
    <2>1. t # <<52, 0>>
        BY <1>1, TheNumbers, HeadsDiffer, Zenon
    <2>2. QED BY <1>0, <2>1, TheNumbers DEF Above, t
<1>5. Above(<<52, 0>>, long)
    <2>1. \A j \in 1..1 - 1 : FALSE
        OBVIOUS
    <2>2. QED BY <1>0, <2>1, TheNumbers DEF Above
<1>6. QED BY <1>2, <1>3, <1>4, <1>5 DEF long

\* Python's order on them.
LEMMA TheOrder ==
    /\ ~Above(<<51, 0>>, <<51, 0>>) /\ ~Above(<<51, 0>>, <<52, 0>>)
    /\ ~Above(<<51, 0, 1>>, <<51, 0, 1>>) /\ ~Above(<<51, 0, 1>>, <<51, 0, 2>>)
    /\ Above(<<51, 0, 2>>, <<51, 0, 1>>) /\ ~Above(<<51, 0, 2>>, <<51, 0, 2>>)
    /\ Above(<<52, 0>>, <<51, 0>>) /\ ~Above(<<52, 0>>, <<52, 0>>)
<1>1. ~Above(<<51, 0>>, <<51, 0>>) /\ ~Above(<<52, 0>>, <<52, 0>>)
    BY TheNumbers DEF Above
<1>2. ~Above(<<51, 0, 1>>, <<51, 0, 1>>) /\ ~Above(<<51, 0, 2>>, <<51, 0, 2>>)
    BY TheNumbers DEF Above
<1>3. ~Above(<<51, 0>>, <<52, 0>>)
    BY TheNumbers DEF Above
<1>4. ~Above(<<51, 0, 1>>, <<51, 0, 2>>)
    BY TheNumbers DEF Above
<1>5. Above(<<51, 0, 2>>, <<51, 0, 1>>)
    <2> DEFINE a == <<51, 0, 2>>
               b == <<51, 0, 1>>
    <2>1. /\ DOMAIN a = {1, 2, 3} /\ DOMAIN b = {1, 2, 3} /\ a[1] = b[1] /\ a[2] = b[2]
          /\ a[3] = 2 /\ b[3] = 1
        BY TheNumbers
    <2> HIDE DEF a, b
    <2>2. 3 \in DOMAIN a \cap DOMAIN b /\ a[3] > b[3] /\ \A j \in 1..3 - 1 : a[j] = b[j]
        BY <2>1
    <2>3. Above(a, b)
        BY <2>2 DEF Above
    <2>4. QED BY <2>3 DEF a, b
<1>6. Above(<<52, 0>>, <<51, 0>>)
    <2>1. \A j \in 1..1 - 1 : FALSE
        OBVIOUS
    <2>2. QED BY <2>1, TheNumbers DEF Above
<1>7. QED BY <1>1, <1>2, <1>3, <1>4, <1>5, <1>6

\* Of two releases one is above the other, and Shipped has them in order.
LEMMA ReleasesAreOrdered ==
    /\ \A v \in Versions : VersionKey(v) = v.num /\ ~IsPrerelease(v)
    /\ \A v \in Versions : ~Above(v.num, Shipped[4].num) /\ ~Above(Shipped[1].num, v.num)
    /\ \A v \in Versions : Above(v.num, Shipped[3].num) <=> v = Shipped[4]
    /\ \A v \in Versions : Above(v.num, Shipped[2].num) <=> v \in {Shipped[3], Shipped[4]}
    /\ \A v \in Versions : Above(v.num, Shipped[1].num) <=> v # Shipped[1]
<1>1. \A v \in Versions : VersionKey(v) = v.num /\ ~IsPrerelease(v)
    BY TheReleases, PlainVersion
<1> DEFINE a == Shipped[1].num
           b == Shipped[2].num
           c == Shipped[3].num
           d == Shipped[4].num
<1>2. /\ ~Above(a, a) /\ ~Above(a, b) /\ ~Above(a, c) /\ ~Above(a, d)
      /\ Above(b, a) /\ ~Above(b, b) /\ ~Above(b, c) /\ ~Above(b, d)
      /\ Above(c, a) /\ Above(c, b) /\ ~Above(c, c) /\ ~Above(c, d)
      /\ Above(d, a) /\ Above(d, b) /\ Above(d, c) /\ ~Above(d, d)
    <2>1. a = <<51, 0>> /\ b = <<51, 0, 1>> /\ c = <<51, 0, 2>> /\ d = <<52, 0>>
        BY TheReleases
    <2> HIDE DEF a, b, c, d
    <2>2. (1 \in {1, 2}) /\ (2 \in {1, 2})
        OBVIOUS
    <2>3. Above(b, a) /\ ~Above(a, b) /\ ~Above(b, d) /\ Above(d, b)
        BY <2>1, <2>2, PointRelease
    <2>4. Above(c, a) /\ ~Above(a, c) /\ ~Above(c, d) /\ Above(d, c)
        BY <2>1, <2>2, PointRelease
    <2>5. QED BY <2>1, <2>3, <2>4, TheOrder
<1>3. Versions = {Shipped[1], Shipped[2], Shipped[3], Shipped[4]}
    BY TheReleases
<1>4. /\ Shipped[1] # Shipped[2] /\ Shipped[1] # Shipped[3] /\ Shipped[1] # Shipped[4]
      /\ Shipped[2] # Shipped[3] /\ Shipped[2] # Shipped[4] /\ Shipped[3] # Shipped[4]
    <2>1. \A i, j \in {1, 2, 3, 4} : Shipped[i] = Shipped[j] => Shipped[i].num = Shipped[j].num
        OBVIOUS
    <2>2. QED BY <1>2, <2>1
<1>5. QED BY <1>1, <1>2, <1>3, <1>4

\* Releases of one cycle have one leading number.
LEMMA CyclesAreNumbers ==
    ASSUME NEW v \in Versions
    PROVE  /\ ReleaseCycle(v) = <<v.num[1]>>
           /\ v.num[1] = IF v = Shipped[4] THEN 52 ELSE 51
           /\ ~IsGnomePrerelease(v)
<1>1. /\ Len(Shipped[1].num) = 2 /\ Len(Shipped[4].num) = 2
      /\ Len(Shipped[2].num) = 3 /\ Len(Shipped[3].num) = 3
      /\ Shipped[1].num[1] = 51 /\ Shipped[2].num[1] = 51 /\ Shipped[3].num[1] = 51 /\ Shipped[4].num[1] = 52
    BY TheReleases, TheNumbers
<1>2. ReleaseCycle(Shipped[1]) = <<Shipped[1].num[1]>> /\ ReleaseCycle(Shipped[4]) = <<Shipped[4].num[1]>>
    <2>1. ReleaseCycle(Shipped[1]) = <<Shipped[1].num[1]>>
        BY <1>1, TheReleases, ShortCycle, ZenonT(60)
    <2>2. ReleaseCycle(Shipped[4]) = <<Shipped[4].num[1]>>
        BY <1>1, TheReleases, ShortCycle, ZenonT(60)
    <2>3. QED BY <2>1, <2>2
<1>3. ReleaseCycle(Shipped[2]) = <<Shipped[2].num[1]>>
    BY <1>1, TheReleases, LongCycle, ZenonT(40)
<1>4. ReleaseCycle(Shipped[3]) = <<Shipped[3].num[1]>>
    BY <1>1, TheReleases, LongCycle, ZenonT(40)
<1>5. Versions = {Shipped[1], Shipped[2], Shipped[3], Shipped[4]}
    BY TheReleases
<1>6. ReleaseCycle(v) = <<v.num[1]>>
    BY <1>2, <1>3, <1>4, <1>5
<1>7. v.num[1] = IF v = Shipped[4] THEN 52 ELSE 51
    BY <1>1, <1>5
<1>8. ~IsGnomePrerelease(v)
    <2>1. ~IsPrerelease(v)
        BY ReleasesAreOrdered
    <2>2. v.num[1] \in {51, 52}
        BY <1>7
    <2>3. ~(v.num[1] < 40)
        BY <2>2
    <2>4. QED BY <2>1, <2>3, Zenon DEF IsGnomePrerelease
<1>9. QED BY <1>6, <1>7, <1>8

\* Some release of any set of them is not below another.
LEMMA NewestIsOne ==
    ASSUME NEW S \in SUBSET Versions, NEW v \in Newest(S)
    PROVE  v \in S /\ \A w \in S : ~Above(w.num, v.num)
<1>1. S # {}
    BY DEF Newest
<1> DEFINE Top(x) == \A w \in S : ~Above(VersionKey(w), VersionKey(x))
<1>2. \A x, w \in S : VersionKey(x) = x.num /\ x \in Versions
    BY ReleasesAreOrdered
<1>3. S \subseteq {Shipped[1], Shipped[2], Shipped[3], Shipped[4]}
    BY TheReleases
<1>4. Shipped[4] \in S => Top(Shipped[4])
    BY <1>2, ReleasesAreOrdered
<1>5. Shipped[4] \notin S /\ Shipped[3] \in S => Top(Shipped[3])
    BY <1>2, ReleasesAreOrdered
<1>6. Shipped[4] \notin S /\ Shipped[3] \notin S /\ Shipped[2] \in S => Top(Shipped[2])
    BY <1>2, ReleasesAreOrdered
<1>7. Shipped[4] \notin S /\ Shipped[3] \notin S /\ Shipped[2] \notin S => S = {Shipped[1]} /\ Top(Shipped[1])
    BY <1>1, <1>2, <1>3, ReleasesAreOrdered
<1>8. \E x \in S : Top(x)
    BY <1>4, <1>5, <1>6, <1>7
<1>9. v = CHOOSE x \in S : Top(x)
    BY <1>1 DEF Newest
<1>10. v \in S /\ Top(v)
    BY <1>8, <1>9
<1>11. QED BY <1>2, <1>10

\* The releases a gate may come to refuse: those within a cycle.
Within == {Shipped[2], Shipped[3]}

\* A release above another of its cycle is one of them.
LEMMA AboveInItsCycle ==
    ASSUME NEW v \in Versions, NEW w \in Versions, Above(v.num, w.num), v.num[1] = w.num[1]
    PROVE  v \in Within
<1>1. v \in {Shipped[1], Shipped[2], Shipped[3], Shipped[4]} /\ v # Shipped[1] /\ w # Shipped[4]
    BY TheReleases, ReleasesAreOrdered
<1>2. v # Shipped[4]
    <2>1. v = Shipped[4] => v.num[1] = 52 /\ w.num[1] = 51
        BY <1>1, CyclesAreNumbers
    <2>2. ASSUME NEW x, NEW y, x = 52, y = 51
          PROVE  x # y
        BY <2>2
    <2>3. QED BY <2>1, <2>2, Zenon
<1>3. QED BY <1>1, <1>2 DEF Within

\* A release that is above the lock, below nothing that is out in its cycle,
\* and not the one held, is above the one held.
LEMMA AboveWhatIsHeld ==
    ASSUME NEW v \in Versions, NEW w \in Versions, Above(v.num, w.num), NEW u \in Within, u # v,
           ReleaseCycle(u) = ReleaseCycle(v) => ~Above(u.num, v.num)
    PROVE  Above(v.num, u.num)
<1>1. v \in {Shipped[2], Shipped[3], Shipped[4]}
    BY TheReleases, ReleasesAreOrdered
<1>2. u \in Versions /\ u # Shipped[4]
    <2>1. Shipped[2] # Shipped[4] /\ Shipped[3] # Shipped[4]
        BY TheReleases, ReleasesAreOrdered
    <2>2. QED BY <2>1, TheReleases DEF Within
<1>3. CASE v = Shipped[4]
    BY <1>2, <1>3, TheReleases, ReleasesAreOrdered DEF Within
<1>4. CASE v # Shipped[4]
    <2>1. ReleaseCycle(u) = <<51>> /\ ReleaseCycle(v) = <<51>>
        BY <1>2, <1>4, CyclesAreNumbers
    <2>2. ~Above(u.num, v.num)
        BY <2>1
    <2>3. QED BY <1>1, <1>4, <2>2, TheReleases, ReleasesAreOrdered DEF Within
<1>5. QED BY <1>3, <1>4


----------------------------------------------------------------------------
(* What a run decides *)

\* A lock that has its source from GNOME, or from Fedora, is read at GNOME or
\* nowhere; to move it from the one to the other takes --package.
LEMMA FeedIsGnome ==
    ASSUME NEW entry, NEW only \in BOOLEAN, entry.primary \in {"gnome", "lookaside"},
           entry.feed \in {"gnome", "none"}, entry.mirror = FALSE
    PROVE  /\ Feed(entry, only).at \in {"gnome", "none"}
           /\ Feed(entry, only).relock \in BOOLEAN
           /\ Feed(entry, only).relock => only
<1>1. CASE entry.primary = "gnome"
    <2>1. Feed(entry, only) = [at |-> "gnome", relock |-> FALSE]
        BY <1>1, Zenon DEF Feed
    <2>2. QED BY <2>1
<1>2. CASE entry.primary = "lookaside"
    <2>1. entry.primary # "gnome" /\ entry.primary # "forge"
        BY <1>2
    <2>2. Feed(entry, only) =
              IF entry.feed # "none"
              THEN [at |-> entry.feed, relock |-> only /\ entry.feed # "anitya"]
              ELSE [at |-> IF only THEN "gnome" ELSE "none", relock |-> only]
        BY <2>1, Zenon DEF Feed
    <2>3. CASE entry.feed = "none"
        BY <2>2, <2>3
    <2>4. CASE entry.feed = "gnome"
        BY <2>2, <2>4
    <2>5. QED BY <2>3, <2>4
<1>3. QED BY <1>1, <1>2

\* What is taken from a GNOME index without a human is of the cycle looked for,
\* above the lock, and below nothing of its cycle.
LEMMA GnomeProposalFacts ==
    ASSUME NEW entry, NEW feed, NEW available \in SUBSET Versions, NEW cycle,
           entry.version \in Versions, NEW proposal,
           proposal = GnomeProposal(entry, feed, available, cycle),
           proposal.kind \in {"final", "update", "relock"}
    PROVE  /\ proposal \in Proposals
           /\ Above(proposal.latest.num, entry.version.num)
           /\ proposal.kind = "relock" => feed.relock
           /\ proposal.kind = "final" => entry.primary = "gnome"
           /\ cycle = <<>> => proposal.latest.num[1] = entry.version.num[1]
           /\ proposal.latest \in available
           /\ \A w \in available : ReleaseCycle(w) = ReleaseCycle(proposal.latest) => ~Above(w.num, proposal.latest.num)
<1> DEFINE target == IF cycle = <<>> THEN ReleaseCycle(entry.version) ELSE cycle
           above(v) == Above(VersionKey(v), VersionKey(entry.version))
           finals == {v \in available : ~IsGnomePrerelease(v) /\ ReleaseCycle(v) = target}
           within == {v \in CycleFinal(available, target) : IsPrerelease(entry.version) \/ above(v)}
           newest == {v \in NewestGnome(available) : above(v)}
           kind == CASE entry.primary = "gnome" -> "final"
                     [] entry.primary # "gnome" /\ feed.relock -> "relock"
                     [] OTHER -> "review"
           taken == CHOOSE v \in within : TRUE
<1>1. proposal = CASE within # {} -> Propose(kind, taken)
                   [] within = {} /\ newest # {} -> Propose("review", CHOOSE v \in newest : TRUE)
                   [] OTHER -> Nothing
    BY DEF GnomeProposal
<1>2. \A v \in within : v \in finals /\ \A w \in finals : ~Above(w.num, v.num)
    <2>1. finals \in SUBSET Versions /\ \A v \in within : v \in Newest(finals)
        BY DEF CycleFinal
    <2> HIDE DEF finals, within
    <2>2. QED BY <2>1, NewestIsOne
<1>3. \A v \in within : above(v)
    <2>1. ~IsPrerelease(entry.version)
        BY ReleasesAreOrdered
    <2>2. QED BY <2>1
<1>4. /\ \A v \in finals : v \in available /\ v \in Versions /\ ReleaseCycle(v) = target
      /\ \A v \in available : ReleaseCycle(v) = target => v \in finals
    BY CyclesAreNumbers
<1>5. /\ kind \in {"final", "relock", "review"} /\ (kind = "relock" => feed.relock)
      /\ (kind = "final" => entry.primary = "gnome")
    <2>1. CASE entry.primary = "gnome"
        BY <2>1
    <2>2. CASE entry.primary # "gnome" /\ feed.relock
        BY <2>2
    <2>3. CASE entry.primary # "gnome" /\ ~feed.relock
        BY <2>3
    <2>4. QED BY <2>1, <2>2, <2>3
<1> HIDE DEF target, finals, within, newest, kind, taken
<1>6. within # {} /\ proposal = Propose(kind, taken)
    <2>1. ASSUME within = {}, newest = {}
          PROVE  FALSE
        <3>1. proposal = Nothing
            BY <1>1, <2>1, Zenon
        <3>2. proposal.kind = "nothing"
            BY <3>1 DEF Nothing
        <3>3. QED BY <3>2
    <2>2. ASSUME within = {}, newest # {}
          PROVE  FALSE
        <3> DEFINE other == CHOOSE v \in newest : TRUE
        <3>1. proposal = Propose("review", other)
            BY <1>1, <2>2, Zenon
        <3> HIDE DEF other
        <3>2. proposal.kind = "review"
            BY <3>1 DEF Propose
        <3>3. QED BY <3>2
    <2>3. within # {}
        BY <2>1, <2>2
    <2>4. QED BY <1>1, <2>3, Zenon
<1>7. taken \in within
    BY <1>6 DEF taken
<1>8. proposal.kind = kind /\ proposal.latest = taken /\ proposal = [kind |-> kind, latest |-> taken]
    BY <1>6 DEF Propose
<1>9. /\ taken \in Versions /\ ReleaseCycle(taken) = target /\ above(taken) /\ taken \in available
      /\ \A w \in available : ReleaseCycle(w) = target => ~Above(w.num, taken.num)
    BY <1>2, <1>3, <1>4, <1>7
<1>10. kind \in {"final", "relock"}
    BY <1>5, <1>8
<1>11. VersionKey(taken) = taken.num /\ VersionKey(entry.version) = entry.version.num
    BY <1>9, ReleasesAreOrdered
<1>12. Above(proposal.latest.num, entry.version.num)
    BY <1>8, <1>9, <1>11
<1>13. cycle = <<>> => taken.num[1] = entry.version.num[1]
    <2>1. cycle = <<>> => ReleaseCycle(taken) = ReleaseCycle(entry.version)
        BY <1>9 DEF target
    <2>2. ReleaseCycle(taken) = <<taken.num[1]>> /\ ReleaseCycle(entry.version) = <<entry.version.num[1]>>
        BY <1>9, CyclesAreNumbers
    <2>3. ASSUME NEW x, NEW y, <<x>> = <<y>>
          PROVE  x = y
        BY <2>3
    <2>4. QED BY <2>1, <2>2, <2>3
<1>14. proposal \in Proposals
    BY <1>8, <1>9, <1>10 DEF Proposals
<1>15. QED BY <1>5, <1>8, <1>9, <1>12, <1>13, <1>14

\* What a run writes of one lock.
LEMMA WrittenFacts ==
    ASSUME NEW b, b.entry.version \in Versions, b.entry.primary \in {"gnome", "lookaside"},
           b.entry.feed \in {"gnome", "none"}, b.entry.mirror = FALSE, b.only \in BOOLEAN,
           b.listing.released \in SUBSET Versions, Written(b)
    PROVE  /\ Plan(b) \in Proposals
           /\ Above(Plan(b).latest.num, b.entry.version.num)
           /\ Plan(b).latest \in b.listing.released /\ b.held # {Plan(b).latest}
           /\ \A w \in b.listing.released :
                  ReleaseCycle(w) = ReleaseCycle(Plan(b).latest) => ~Above(w.num, Plan(b).latest.num)
           /\ Plan(b).kind = "relock" => b.only
           /\ Plan(b).kind = "final" =>
                 /\ b.entry.primary = "gnome" /\ ~b.reviewOnly
                 /\ b.cycle = <<>> => Plan(b).latest.num[1] = b.entry.version.num[1]
<1> DEFINE feed == Feed(b.entry, b.only)
           silent == feed.at = "none" \/ ~b.readable \/ (feed.at = "gnome" /\ ~b.module)
           offer == GnomeProposal(b.entry, feed, b.listing.released, b.cycle)
<1>1. /\ Plan(b).kind \in {"final", "update", "relock"} /\ (b.reviewOnly => Plan(b).kind = "relock")
      /\ b.held # {Plan(b).latest}
    BY DEF Written
<1>2. feed.at \in {"gnome", "none"} /\ (feed.relock => b.only)
    BY FeedIsGnome
<1>3. ~silent
    <2>1. SUFFICES ASSUME silent
                   PROVE  FALSE
        OBVIOUS
    <2>2. Plan(b) = Nothing
        BY <2>1, Zenon DEF Plan
    <2>3. Plan(b).kind = "nothing"
        BY <2>2 DEF Nothing
    <2>4. QED BY <1>1, <2>3
<1>4. feed.at = "gnome"
    BY <1>2, <1>3
<1>5. Plan(b) = offer
    BY <1>3, <1>4, Zenon DEF Plan
<1> HIDE DEF feed, silent
<1>6. /\ Plan(b) \in Proposals
      /\ Above(Plan(b).latest.num, b.entry.version.num)
      /\ Plan(b).kind = "relock" => feed.relock
      /\ Plan(b).kind = "final" => b.entry.primary = "gnome"
      /\ b.cycle = <<>> => Plan(b).latest.num[1] = b.entry.version.num[1]
      /\ Plan(b).latest \in b.listing.released
      /\ \A w \in b.listing.released :
             ReleaseCycle(w) = ReleaseCycle(Plan(b).latest) => ~Above(w.num, Plan(b).latest.num)
    <2> HIDE DEF offer
    <2> DEFINE proposal == Plan(b)
    <2>1. proposal = GnomeProposal(b.entry, feed, b.listing.released, b.cycle)
        BY <1>5 DEF offer
    <2>2. proposal.kind \in {"final", "update", "relock"}
        BY <1>1
    <2> HIDE DEF proposal
    <2>3. /\ proposal \in Proposals
          /\ Above(proposal.latest.num, b.entry.version.num)
          /\ proposal.kind = "relock" => feed.relock
          /\ proposal.kind = "final" => b.entry.primary = "gnome"
          /\ b.cycle = <<>> => proposal.latest.num[1] = b.entry.version.num[1]
          /\ proposal.latest \in b.listing.released
          /\ \A w \in b.listing.released :
                 ReleaseCycle(w) = ReleaseCycle(proposal.latest) => ~Above(w.num, proposal.latest.num)
        BY <2>1, <2>2, GnomeProposalFacts
    <2>4. QED BY <2>3 DEF proposal
<1>7. QED BY <1>1, <1>2, <1>6

----------------------------------------------------------------------------
(* Trees *)

Digests == Versions \X BOOLEAN
Locks == [version : Versions, primary : {"gnome", "lookaside"}, feed : {"gnome", "none"}, digest : Digests]
Holds == {{}} \cup {{v} : v \in Versions}

\* The trees, by the sets their parts are of.
LEMMA WhatTreesAre ==
    Trees = [lock : [Packages -> Locks], spec : [Packages -> Versions], pin : [Packages -> Digests],
             ratchet : SUBSET Packages, hold : [Packages -> Holds]]
BY DEF Trees, Locks, Digests, Holds, Versions

\* A tree by its parts.
LEMMA TreeOfParts ==
    ASSUME NEW tree, NEW lock \in [Packages -> Locks], NEW spec \in [Packages -> Versions],
           NEW pin \in [Packages -> Digests], NEW ratchet \in SUBSET Packages, NEW hold \in [Packages -> Holds],
           tree = [lock |-> lock, spec |-> spec, pin |-> pin, ratchet |-> ratchet, hold |-> hold]
    PROVE  /\ tree \in Trees /\ tree.lock = lock /\ tree.spec = spec /\ tree.pin = pin
           /\ tree.ratchet = ratchet /\ tree.hold = hold
BY WhatTreesAre

\* The parts of a tree.
LEMMA PartsOfTree ==
    ASSUME NEW tree \in Trees
    PROVE  /\ tree.lock \in [Packages -> Locks] /\ tree.spec \in [Packages -> Versions]
           /\ tree.pin \in [Packages -> Digests] /\ tree.ratchet \in SUBSET Packages
           /\ tree.hold \in [Packages -> Holds]
           /\ tree = [lock |-> tree.lock, spec |-> tree.spec, pin |-> tree.pin,
                      ratchet |-> tree.ratchet, hold |-> tree.hold]
BY WhatTreesAre

\* Assignments to several places of a tree, one after the other.
LEMMA FourFields ==
    ASSUME NEW tree, NEW lock, NEW spec, NEW pin, NEW ratchet, NEW hold,
           tree = [lock |-> lock, spec |-> spec, pin |-> pin, ratchet |-> ratchet, hold |-> hold],
           NEW p, NEW e, NEW v, NEW d, NEW h, NEW new,
           new = [tree EXCEPT !.lock[p] = e, !.spec[p] = v, !.pin[p] = d, !.hold[p] = h]
    PROVE  new = [lock |-> [lock EXCEPT ![p] = e], spec |-> [spec EXCEPT ![p] = v],
                  pin |-> [pin EXCEPT ![p] = d], ratchet |-> ratchet, hold |-> [hold EXCEPT ![p] = h]]
<1>1. PICK a : a = [tree EXCEPT !.lock[p] = e]
    OBVIOUS
<1>2. PICK b : b = [a EXCEPT !.spec[p] = v]
    OBVIOUS
<1>3. PICK c : c = [b EXCEPT !.pin[p] = d]
    OBVIOUS
<1>4. new = [c EXCEPT !.hold[p] = h]
    BY <1>1, <1>2, <1>3
<1>5. a = [lock |-> [lock EXCEPT ![p] = e], spec |-> spec, pin |-> pin, ratchet |-> ratchet, hold |-> hold]
    BY <1>1
<1>6. b = [lock |-> [lock EXCEPT ![p] = e], spec |-> [spec EXCEPT ![p] = v], pin |-> pin, ratchet |-> ratchet, hold |-> hold]
    BY <1>2, <1>5
<1>7. c = [lock |-> [lock EXCEPT ![p] = e], spec |-> [spec EXCEPT ![p] = v], pin |-> [pin EXCEPT ![p] = d], ratchet |-> ratchet, hold |-> hold]
    BY <1>3, <1>6
<1>8. QED BY <1>4, <1>7

\* The same for a move by hand, which rewrites two fields of the lock.
LEMMA ReleaseFields ==
    ASSUME NEW tree, NEW lock, NEW spec, NEW pin, NEW ratchet, NEW hold,
           tree = [lock |-> lock, spec |-> spec, pin |-> pin, ratchet |-> ratchet, hold |-> hold],
           NEW p, NEW v, NEW d, NEW new, p \in DOMAIN lock,
           new = [tree EXCEPT !.lock[p].version = v, !.lock[p].digest = d, !.spec[p] = v, !.pin[p] = d]
    PROVE  new = [lock |-> [lock EXCEPT ![p] = [lock[p] EXCEPT !.version = v, !.digest = d]],
                  spec |-> [spec EXCEPT ![p] = v],
                  pin |-> [pin EXCEPT ![p] = d], ratchet |-> ratchet, hold |-> hold]
<1>1. PICK a : a = [tree EXCEPT !.lock[p].version = v]
    OBVIOUS
<1>3. PICK aa : aa = [a EXCEPT !.lock[p].digest = d]
    OBVIOUS
<1>2. PICK b : b = [aa EXCEPT !.spec[p] = v]
    OBVIOUS
<1>4. new = [b EXCEPT !.pin[p] = d]
    BY <1>1, <1>2, <1>3
<1>0. PICK e : e = [lock[p] EXCEPT !.version = v]
    OBVIOUS
<1>5. a = [lock |-> [lock EXCEPT ![p] = e], spec |-> spec, pin |-> pin, ratchet |-> ratchet, hold |-> hold]
    BY <1>1, <1>0
<1>6. PICK l : l = [lock EXCEPT ![p] = e]
    OBVIOUS
<1>7. l[p] = e
    BY <1>6
<1>8. aa = [lock |-> [l EXCEPT ![p] = [e EXCEPT !.digest = d]], spec |-> spec, pin |-> pin, ratchet |-> ratchet, hold |-> hold]
    BY <1>3, <1>5, <1>6, <1>7
<1>9. [l EXCEPT ![p] = [e EXCEPT !.digest = d]] = [lock EXCEPT ![p] = [e EXCEPT !.digest = d]]
    BY <1>6
<1>10. [e EXCEPT !.digest = d] = [lock[p] EXCEPT !.version = v, !.digest = d]
    BY <1>0
<1>11. PICK f : f = [lock EXCEPT ![p] = [e EXCEPT !.digest = d]]
    OBVIOUS
<1>12. aa = [lock |-> f, spec |-> spec, pin |-> pin, ratchet |-> ratchet, hold |-> hold]
    BY <1>8, <1>9, <1>11
<1>13. b = [lock |-> f, spec |-> [spec EXCEPT ![p] = v], pin |-> pin, ratchet |-> ratchet, hold |-> hold]
    BY <1>2, <1>12
<1>14. new = [lock |-> f, spec |-> [spec EXCEPT ![p] = v], pin |-> [pin EXCEPT ![p] = d], ratchet |-> ratchet, hold |-> hold]
    BY <1>4, <1>13
<1>15. QED BY <1>14, <1>11, <1>10

\* A digest is a release and whether its tarball was replaced.
LEMMA PairFacts ==
    ASSUME NEW v \in Versions, NEW c \in BOOLEAN, NEW d, d = <<v, c>>
    PROVE  d \in Digests /\ d[1] = v
BY DEF Digests

\* What a server answers names the release that was asked for.
LEMMA ServedFacts ==
    ASSUME NEW p, NEW v \in Versions
    PROVE  Served(p, v) \in Digests /\ Served(p, v)[1] = v
<1>1. (<<p, v>> \in upstream.rolled) \in BOOLEAN
    OBVIOUS
<1>2. QED BY <1>1, PairFacts, Zenon DEF Served

\* The fields of an entry that is rewritten for a release.
LEMMA PlannedEntryFacts ==
    ASSUME NEW entry \in Locks, NEW proposal \in Proposals, NEW digest \in Digests,
           NEW e, e = PlannedEntry(entry, proposal, digest)
    PROVE  /\ e \in Locks /\ e.version = proposal.latest /\ e.digest = digest
           /\ e.primary = IF proposal.kind = "relock" THEN "gnome" ELSE entry.primary
BY DEF Locks, PlannedEntry, Proposals

\* apply, as one assignment: the lock, the recipe, the manifest and the ratchet
\* of one package, and its hold.
LEMMA ApplyMoves ==
    ASSUME NEW tree \in Trees, NEW p \in Packages, NEW proposal \in Proposals, NEW fetched \in BOOLEAN,
           NEW result, result = Apply(p, tree, proposal, fetched), NEW new, new = RetireHold(p, result),
           NEW digest, digest = Served(p, proposal.latest),
           NEW entry, entry = PlannedEntry(tree.lock[p], proposal, digest),
           NEW kept, kept = IF entry.primary = "lookaside" THEN tree.ratchet ELSE tree.ratchet \ {p},
           NEW after, after = [lock |-> [tree.lock EXCEPT ![p] = entry],
                               spec |-> [tree.spec EXCEPT ![p] = proposal.latest],
                               pin |-> [tree.pin EXCEPT ![p] = digest],
                               ratchet |-> kept,
                               hold |-> [tree.hold EXCEPT ![p] = {}]]
    PROVE  new = tree \/ new = after
<1> DEFINE renamed == RewriteSpec(p, tree, proposal.latest)
           recipe == RewriteSources(p, renamed, digest)
           locked == [recipe EXCEPT !.lock[p] = PlannedEntry(@, proposal, digest)]
           moved == RetireFedoraPrimary(p, locked)
<1>1. tree.lock \in [Packages -> Locks]
    BY PartsOfTree
<1>2. tree = [lock |-> tree.lock, spec |-> tree.spec, pin |-> tree.pin,
              ratchet |-> tree.ratchet, hold |-> tree.hold]
    BY PartsOfTree
<1>3. renamed = [lock |-> tree.lock, spec |-> [tree.spec EXCEPT ![p] = proposal.latest], pin |-> tree.pin,
                 ratchet |-> tree.ratchet, hold |-> tree.hold]
    BY <1>2 DEF RewriteSpec
<1> HIDE DEF renamed
<1>4. recipe = [lock |-> tree.lock, spec |-> [tree.spec EXCEPT ![p] = proposal.latest],
                pin |-> [tree.pin EXCEPT ![p] = digest], ratchet |-> tree.ratchet, hold |-> tree.hold]
    BY <1>3 DEF RewriteSources
<1> HIDE DEF recipe
<1>5. locked = [lock |-> [tree.lock EXCEPT ![p] = entry], spec |-> [tree.spec EXCEPT ![p] = proposal.latest],
                pin |-> [tree.pin EXCEPT ![p] = digest], ratchet |-> tree.ratchet, hold |-> tree.hold]
    BY <1>4
<1> HIDE DEF locked
<1>6. moved = [lock |-> [tree.lock EXCEPT ![p] = entry], spec |-> [tree.spec EXCEPT ![p] = proposal.latest],
               pin |-> [tree.pin EXCEPT ![p] = digest], ratchet |-> kept, hold |-> tree.hold]
    <2>1. locked.lock[p].primary = entry.primary /\ locked.ratchet = tree.ratchet
        BY <1>1, <1>5
    <2>2. moved = [locked EXCEPT !.ratchet = kept]
        BY <2>1, Zenon DEF RetireFedoraPrimary
    <2> HIDE DEF moved
    <2>3. QED BY <1>5, <2>2
<1> HIDE DEF moved
<1>7. CASE p \in Stuck \/ ~fetched
    <2>1. result = [ok |-> FALSE, tree |-> tree]
        BY <1>7 DEF Apply
    <2>2. QED BY <2>1 DEF RetireHold
<1>8. CASE ~(p \in Stuck \/ ~fetched)
    <2>1. result = [ok |-> TRUE, tree |-> moved]
        BY <1>8 DEF Apply, moved, locked, recipe, renamed
    <2>2. result.ok /\ result.tree = moved
        BY <2>1
    <2>3. new = [moved EXCEPT !.hold[p] = {}]
        BY <2>2 DEF RetireHold
    <2>4. QED BY <1>6, <2>3
<1>9. QED BY <1>7, <1>8

\* apply succeeds or fails.
LEMMA ApplyAnswers ==
    ASSUME NEW tree, NEW p, NEW proposal, NEW fetched, NEW result, result = Apply(p, tree, proposal, fetched)
    PROVE  result.ok \in BOOLEAN
BY DEF Apply

----------------------------------------------------------------------------
(* What keeps a tree whole *)

\* A tree with one package moved to a release above the one it was locked to.
LEMMA MovingAdvances ==
    ASSUME NEW base \in Trees, NEW tree \in Trees, Advance(base, tree), NEW p \in Packages,
           NEW v \in Versions, Above(v.num, base.lock[p].version.num),
           NEW entry \in Locks, entry.version = v, entry.digest \in Digests, entry.digest[1] = v,
           entry.primary = "gnome" \/ entry.primary = tree.lock[p].primary, NEW kept, NEW new,
           kept = IF entry.primary = "lookaside" THEN tree.ratchet ELSE tree.ratchet \ {p},
           new = [lock |-> [tree.lock EXCEPT ![p] = entry], spec |-> [tree.spec EXCEPT ![p] = v],
                  pin |-> [tree.pin EXCEPT ![p] = entry.digest],
                  ratchet |-> kept,
                  hold |-> [tree.hold EXCEPT ![p] = {}]]
    PROVE  /\ new \in Trees /\ new.lock = [tree.lock EXCEPT ![p] = entry]
           /\ new.hold = [tree.hold EXCEPT ![p] = {}]
           /\ Advance(base, new)
<1>1. /\ tree.lock \in [Packages -> Locks] /\ tree.spec \in [Packages -> Versions]
      /\ tree.pin \in [Packages -> Digests] /\ tree.ratchet \in SUBSET Packages
      /\ tree.hold \in [Packages -> Holds]
    BY PartsOfTree
<1>2. {} \in Holds
    BY DEF Holds
<1>3. /\ [tree.lock EXCEPT ![p] = entry] \in [Packages -> Locks]
      /\ [tree.spec EXCEPT ![p] = v] \in [Packages -> Versions]
      /\ [tree.pin EXCEPT ![p] = entry.digest] \in [Packages -> Digests]
      /\ kept \in SUBSET Packages
      /\ [tree.hold EXCEPT ![p] = {}] \in [Packages -> Holds]
    BY <1>1, <1>2
<1>4. /\ new \in Trees /\ new.lock = [tree.lock EXCEPT ![p] = entry]
      /\ new.spec = [tree.spec EXCEPT ![p] = v] /\ new.pin = [tree.pin EXCEPT ![p] = entry.digest]
      /\ new.ratchet = kept /\ new.hold = [tree.hold EXCEPT ![p] = {}]
    BY <1>3, TreeOfParts
<1>5. /\ new.lock[p] = entry /\ new.spec[p] = v /\ new.pin[p] = entry.digest /\ new.hold[p] = {}
      /\ \A q \in Packages \ {p} : /\ new.lock[q] = tree.lock[q] /\ new.spec[q] = tree.spec[q]
                                   /\ new.pin[q] = tree.pin[q] /\ new.hold[q] = tree.hold[q]
    BY <1>1, <1>4
<1>6. Whole(base) /\ Whole(tree)
    BY DEF Advance
<1>7. /\ \A q \in Packages : /\ tree.spec[q] = tree.lock[q].version /\ tree.pin[q] = tree.lock[q].digest
                             /\ tree.lock[q].digest[1] = tree.lock[q].version
      /\ tree.ratchet = {q \in Packages : tree.lock[q].primary = "lookaside"}
    BY <1>6 DEF Whole, Validates
<1>8. \A q \in Packages : /\ new.spec[q] = new.lock[q].version /\ new.pin[q] = new.lock[q].digest
                          /\ new.lock[q].digest[1] = new.lock[q].version
    BY <1>5, <1>7
<1>9. new.ratchet = {q \in Packages : new.lock[q].primary = "lookaside"}
    <2>1. \A q \in Packages \ {p} : new.lock[q].primary = tree.lock[q].primary
        BY <1>5
    <2>2. CASE entry.primary = "lookaside"
        <3>1. new.lock[p].primary = "lookaside" /\ tree.lock[p].primary = "lookaside" /\ new.ratchet = tree.ratchet
            BY <1>4, <1>5, <2>2
        <3>2. QED BY <1>7, <2>1, <3>1
    <2>3. CASE entry.primary # "lookaside"
        <3>1. new.lock[p].primary # "lookaside" /\ new.ratchet = tree.ratchet \ {p}
            BY <1>4, <1>5, <2>3
        <3>2. QED BY <1>7, <2>1, <3>1
    <2>4. QED BY <2>2, <2>3
<1>10. Whole(new)
    BY <1>8, <1>9 DEF Whole, Validates
<1>11. ASSUME NEW q \in Packages
       PROVE  /\ new.lock[q] # base.lock[q] => Above(new.lock[q].version.num, base.lock[q].version.num)
              /\ new.lock[q].primary = "lookaside" => base.lock[q].primary = "lookaside"
    <2>1. CASE q = p
        <3>1. new.lock[q].version = v
            BY <1>5, <2>1
        <3>2. new.lock[q].primary = "lookaside" => base.lock[q].primary = "lookaside"
            BY <1>5, <2>1 DEF Advance
        <3>3. QED BY <2>1, <3>1, <3>2
    <2>2. CASE q # p
        <3>1. new.lock[q] = tree.lock[q]
            BY <1>5, <2>2
        <3>2. QED BY <3>1 DEF Advance
    <2>3. QED BY <2>1, <2>2
<1>12. QED BY <1>4, <1>6, <1>10, <1>11 DEF Advance

\* A merge is the branch where the branch changed, and main elsewhere.
LEMMA MergeFacts ==
    ASSUME main \in Trees, Whole(main), NEW pr \in PullRequests, Advance(pr.base, pr.head), Mergeable(pr),
           NEW merged, merged = Merged(pr)
    PROVE  /\ merged \in Trees /\ Whole(merged)
           /\ \A p \in Changed(pr) : merged.lock[p] = pr.head.lock[p] /\ merged.hold[p] = pr.head.hold[p]
           /\ \A p \in Packages \ Changed(pr) : merged.lock[p] = main.lock[p] /\ merged.hold[p] = main.hold[p]
<1> DEFINE base == pr.base
           head == pr.head
           lock == [p \in Packages |-> IF p \in Changed(pr) THEN head.lock[p] ELSE main.lock[p]]
           spec == [p \in Packages |-> IF head.spec[p] # base.spec[p] THEN head.spec[p] ELSE main.spec[p]]
           pin == [p \in Packages |-> IF head.pin[p] # base.pin[p] THEN head.pin[p] ELSE main.pin[p]]
           ratchet == main.ratchet \ (base.ratchet \ head.ratchet)
           hold == [p \in Packages |-> IF p \in Changed(pr) THEN head.hold[p] ELSE main.hold[p]]
<1>1. base \in Trees /\ head \in Trees
    BY DEF PullRequests
<1>2. Changed(pr) \subseteq Packages
    BY DEF Changed
<1>3. \A tree \in {main, base, head} :
          /\ tree.lock \in [Packages -> Locks] /\ tree.spec \in [Packages -> Versions]
          /\ tree.pin \in [Packages -> Digests] /\ tree.ratchet \in SUBSET Packages
          /\ tree.hold \in [Packages -> Holds]
    BY <1>1, PartsOfTree
<1>4. /\ lock \in [Packages -> Locks] /\ spec \in [Packages -> Versions] /\ pin \in [Packages -> Digests]
      /\ ratchet \in SUBSET Packages /\ hold \in [Packages -> Holds]
    BY <1>3
<1>5. /\ merged \in Trees /\ merged.lock = lock /\ merged.spec = spec /\ merged.pin = pin
      /\ merged.ratchet = ratchet /\ merged.hold = hold
    <2>1. merged = [lock |-> lock, spec |-> spec, pin |-> pin, ratchet |-> ratchet, hold |-> hold]
        BY DEF Merged
    <2> HIDE DEF lock, spec, pin, ratchet, hold
    <2>2. QED BY <1>4, <2>1, TreeOfParts
<1>6. \A tree \in {main, base, head} :
          /\ \A p \in Packages : /\ tree.spec[p] = tree.lock[p].version /\ tree.pin[p] = tree.lock[p].digest
                                 /\ tree.lock[p].digest[1] = tree.lock[p].version
          /\ tree.ratchet = {p \in Packages : tree.lock[p].primary = "lookaside"}
    BY DEF Advance, Whole, Validates
<1>7. ASSUME NEW p \in Changed(pr)
      PROVE  /\ merged.lock[p] = head.lock[p] /\ merged.hold[p] = head.hold[p]
             /\ merged.spec[p] = head.spec[p] /\ merged.pin[p] = head.pin[p]
             /\ main.lock[p] = base.lock[p]
    <2>1. p \in Packages /\ merged.lock[p] = head.lock[p] /\ merged.hold[p] = head.hold[p]
        BY <1>2, <1>5
    <2>2. main.lock[p] = base.lock[p] /\ main.spec[p] = base.spec[p]
        BY DEF Mergeable
    <2>3. main.pin[p] = base.pin[p]
        BY <1>6, <2>1, <2>2
    <2>4. merged.spec[p] = head.spec[p]
        BY <1>5, <2>1, <2>2
    <2>5. merged.pin[p] = head.pin[p]
        BY <1>5, <2>1, <2>3
    <2>6. QED BY <2>1, <2>2, <2>4, <2>5
<1>8. ASSUME NEW p \in Packages \ Changed(pr)
      PROVE  /\ merged.lock[p] = main.lock[p] /\ merged.hold[p] = main.hold[p]
             /\ merged.spec[p] = main.spec[p] /\ merged.pin[p] = main.pin[p]
             /\ head.lock[p] = base.lock[p]
    <2>1. head.lock[p] = base.lock[p] /\ head.hold[p] = base.hold[p]
        BY DEF Changed
    <2>2. head.spec[p] = base.spec[p] /\ head.pin[p] = base.pin[p]
        BY <1>6, <2>1
    <2>3. merged.lock[p] = main.lock[p] /\ merged.hold[p] = main.hold[p]
        BY <1>5
    <2>4. merged.spec[p] = main.spec[p]
        BY <1>5, <2>2
    <2>5. merged.pin[p] = main.pin[p]
        BY <1>5, <2>2
    <2>6. QED BY <2>1, <2>3, <2>4, <2>5
<1>9. \A p \in Packages : /\ merged.spec[p] = merged.lock[p].version /\ merged.pin[p] = merged.lock[p].digest
                          /\ merged.lock[p].digest[1] = merged.lock[p].version
    <2> HIDE DEF base, head
    <2>1. TAKE p \in Packages
    <2>2. CASE p \in Changed(pr)
        <3>1. /\ head.spec[p] = head.lock[p].version /\ head.pin[p] = head.lock[p].digest
              /\ head.lock[p].digest[1] = head.lock[p].version
            BY <1>6
        <3>2. QED BY <1>7, <2>2, <3>1
    <2>3. CASE p \notin Changed(pr)
        <3>1. /\ main.spec[p] = main.lock[p].version /\ main.pin[p] = main.lock[p].digest
              /\ main.lock[p].digest[1] = main.lock[p].version
            BY <1>6
        <3>2. QED BY <1>8, <2>3, <3>1
    <2>4. QED BY <2>2, <2>3
<1>10. merged.ratchet = {p \in Packages : merged.lock[p].primary = "lookaside"}
    <2>1. \A p \in Packages : head.lock[p].primary = "lookaside" => base.lock[p].primary = "lookaside"
        BY DEF Advance
    <2>2. /\ main.ratchet = {p \in Packages : main.lock[p].primary = "lookaside"}
          /\ base.ratchet = {p \in Packages : base.lock[p].primary = "lookaside"}
          /\ head.ratchet = {p \in Packages : head.lock[p].primary = "lookaside"}
        BY <1>6
    <2> HIDE DEF base, head
    <2>3. ASSUME NEW p \in Packages
          PROVE  p \in merged.ratchet <=> merged.lock[p].primary = "lookaside"
        <3>1. p \in merged.ratchet <=> /\ main.lock[p].primary = "lookaside"
                                       /\ ~(base.lock[p].primary = "lookaside" /\ head.lock[p].primary # "lookaside")
            BY <1>5, <2>2
        <3>2. CASE p \in Changed(pr)
            BY <1>7, <2>1, <3>1, <3>2
        <3>3. CASE p \notin Changed(pr)
            BY <1>8, <3>1, <3>3
        <3>4. QED BY <3>2, <3>3
    <2>4. merged.ratchet \subseteq Packages
        BY <1>4, <1>5
    <2>5. QED BY <2>3, <2>4
<1>11. QED BY <1>5, <1>7, <1>8, <1>9, <1>10 DEF Whole, Validates

\* A gate that takes a package out of the branch puts it back as it was.
LEMMA TrimFacts ==
    ASSUME NEW base \in Trees, NEW head \in Trees, Advance(base, head), InSeries(base, head),
           NEW p \in Packages, head.lock[p] # base.lock[p], NEW new,
           new = [lock |-> [head.lock EXCEPT ![p] = base.lock[p]], spec |-> [head.spec EXCEPT ![p] = base.spec[p]],
                  pin |-> [head.pin EXCEPT ![p] = base.pin[p]], ratchet |-> head.ratchet,
                  hold |-> [head.hold EXCEPT ![p] = {head.lock[p].version}]]
    PROVE  new \in Trees /\ Advance(base, new) /\ InSeries(base, new)
<1>1. \A tree \in {base, head} :
          /\ tree.lock \in [Packages -> Locks] /\ tree.spec \in [Packages -> Versions]
          /\ tree.pin \in [Packages -> Digests] /\ tree.ratchet \in SUBSET Packages
          /\ tree.hold \in [Packages -> Holds]
    BY PartsOfTree
<1>3. {head.lock[p].version} \in Holds
    <2>1. head.lock[p].version \in Versions
        BY <1>1 DEF Locks
    <2>2. QED BY <2>1 DEF Holds
<1>4. /\ [head.lock EXCEPT ![p] = base.lock[p]] \in [Packages -> Locks]
      /\ [head.spec EXCEPT ![p] = base.spec[p]] \in [Packages -> Versions]
      /\ [head.pin EXCEPT ![p] = base.pin[p]] \in [Packages -> Digests]
      /\ [head.hold EXCEPT ![p] = {head.lock[p].version}] \in [Packages -> Holds]
      /\ head.ratchet \in SUBSET Packages
    BY <1>1, <1>3
<1>5. /\ new \in Trees /\ new.lock = [head.lock EXCEPT ![p] = base.lock[p]]
      /\ new.spec = [head.spec EXCEPT ![p] = base.spec[p]] /\ new.pin = [head.pin EXCEPT ![p] = base.pin[p]]
      /\ new.ratchet = head.ratchet /\ new.hold = [head.hold EXCEPT ![p] = {head.lock[p].version}]
    BY <1>4, TreeOfParts
<1>6. /\ new.lock[p] = base.lock[p] /\ new.spec[p] = base.spec[p] /\ new.pin[p] = base.pin[p]
      /\ new.hold[p] = {head.lock[p].version}
      /\ \A q \in Packages \ {p} : /\ new.lock[q] = head.lock[q] /\ new.spec[q] = head.spec[q]
                                   /\ new.pin[q] = head.pin[q] /\ new.hold[q] = head.hold[q]
    BY <1>1, <1>5
<1>7. \A tree \in {base, head} :
          /\ \A q \in Packages : /\ tree.spec[q] = tree.lock[q].version /\ tree.pin[q] = tree.lock[q].digest
                                 /\ tree.lock[q].digest[1] = tree.lock[q].version
          /\ tree.ratchet = {q \in Packages : tree.lock[q].primary = "lookaside"}
    BY DEF Advance, Whole, Validates
<1>8. \A q \in Packages : /\ new.spec[q] = new.lock[q].version /\ new.pin[q] = new.lock[q].digest
                          /\ new.lock[q].digest[1] = new.lock[q].version
    <2>1. TAKE q \in Packages
    <2>2. CASE q = p
        <3>1. /\ base.spec[p] = base.lock[p].version /\ base.pin[p] = base.lock[p].digest
              /\ base.lock[p].digest[1] = base.lock[p].version
            BY <1>7
        <3>2. QED BY <1>6, <2>2, <3>1
    <2>3. CASE q # p
        <3>1. /\ head.spec[q] = head.lock[q].version /\ head.pin[q] = head.lock[q].digest
              /\ head.lock[q].digest[1] = head.lock[q].version
            BY <1>7
        <3>2. QED BY <1>6, <2>3, <3>1
    <2>4. QED BY <2>2, <2>3
<1>9. \A q \in Packages : new.lock[q].primary = head.lock[q].primary
    BY <1>6 DEF InSeries
<1>10. Whole(new)
    BY <1>5, <1>7, <1>8, <1>9 DEF Whole, Validates
<1>11. ASSUME NEW q \in Packages
       PROVE  /\ new.lock[q] # base.lock[q] => Above(new.lock[q].version.num, base.lock[q].version.num)
              /\ new.lock[q].primary = "lookaside" => base.lock[q].primary = "lookaside"
    <2>1. CASE q = p
        BY <1>6, <2>1
    <2>2. CASE q # p
        BY <1>6, <2>2 DEF Advance
    <2>3. QED BY <2>1, <2>2
<1>12. InSeries(base, new)
    <2>1. ASSUME NEW q \in Packages
          PROVE  /\ new.lock[q].primary = base.lock[q].primary
                 /\ new.lock[q] # base.lock[q] =>
                        q \notin ReviewOnly /\ new.lock[q].version.num[1] = base.lock[q].version.num[1]
        BY <1>6, <1>9 DEF InSeries
    <2>2. QED BY <2>1 DEF InSeries
<1>13. QED BY <1>5, <1>10, <1>11, <1>12 DEF Advance

----------------------------------------------------------------------------
(* The steps *)

\* Unpacks the invariant.
LEMMA WhatHolds ==
    ASSUME BumpInvariant
    PROVE  /\ main \in Trees /\ Whole(main)
           /\ upstream \in [shipped : [Packages -> 1..Len(Shipped)], rolled : SUBSET (Packages \X Versions)]
           /\ run \in {Idle} \cup Begun \cup Working
           /\ prs \in [Branches -> {Closed} \cup PullRequests]
           /\ hand \in 0..MaxHand /\ RunInv /\ \A b \in Branches : PrInv(b)
BY DEF BumpInvariant, Types

\* What a run knows depends on how far it is.
LEMMA Phases ==
    ASSUME run \in {Idle} \cup Begun \cup Working
    PROVE  /\ run = Idle <=> run.at = "idle"
           /\ run \in Begun <=> run.at = "plan"
           /\ run \in Working <=> run.at \in {"apply", "verify", "open", "gate"}
BY DEF Idle, Begun, Working

\* The branches are apart from each other.
LEMMA BranchesApart ==
    /\ Daily \in Branches /\ Cycle \in Branches /\ Daily # Cycle
    /\ \A p \in Packages : <<"relock", p>> \in Branches /\ <<"relock", p>> # Daily /\ <<"relock", p>> # Cycle
    /\ \A b \in Branches : b \in {Daily, Cycle} \/ \E p \in Packages : b = <<"relock", p>>
BY DEF Daily, Cycle, Branches

\* A branch without a pull request, a pull request, and no run.
LEMMA Tags ==
    /\ Closed.open = FALSE /\ Idle.at = "idle" /\ Idle.only = "all"
    /\ \A pr \in PullRequests : pr.open /\ pr.base \in Trees /\ pr.head \in Trees /\ pr.gated \in BOOLEAN
BY DEF Closed, Idle, PullRequests

\* The first state.
LEMMA InitBump ==
    ASSUME Init
    PROVE  BumpInvariant
<1> USE BumpRunAssumption
<1>0. PICK digest : digest = <<Shipped[1], FALSE>>
    OBVIOUS
<1> DEFINE lock == [p \in Packages |->
                       [version |-> Shipped[1], digest |-> digest,
                        primary |-> IF p \in Lookaside THEN "lookaside" ELSE "gnome",
                        feed |-> IF p \in Lookaside THEN "gnome" ELSE "none"]]
           spec == [p \in Packages |-> Shipped[1]]
           pin == [p \in Packages |-> digest]
           hold == [p \in Packages |-> {}]
<1>1. Shipped[1] \in Versions /\ digest \in Digests /\ digest[1] = Shipped[1]
    BY <1>0, TheReleases, PairFacts
<1>2. /\ lock \in [Packages -> Locks] /\ spec \in [Packages -> Versions] /\ pin \in [Packages -> Digests]
      /\ Lookaside \in SUBSET Packages /\ hold \in [Packages -> Holds]
    BY <1>1 DEF Locks, Holds
<1>3. /\ main \in Trees /\ main.lock = lock /\ main.spec = spec /\ main.pin = pin
      /\ main.ratchet = Lookaside /\ main.hold = hold
    <2>1. main = [lock |-> lock, spec |-> spec, pin |-> pin, ratchet |-> Lookaside, hold |-> hold]
        BY <1>0 DEF Init, FirstTree
    <2> HIDE DEF lock, spec, pin, hold
    <2>2. QED BY <1>2, <2>1, TreeOfParts
<1>4. Whole(main)
    <2>1. \A p \in Packages : /\ main.spec[p] = main.lock[p].version /\ main.pin[p] = main.lock[p].digest
                              /\ main.lock[p].digest[1] = main.lock[p].version
        <3>1. TAKE p \in Packages
        <3>2. main.lock[p].version = Shipped[1] /\ main.lock[p].digest = digest
            BY <1>3
        <3>3. main.lock[p].digest[1] = main.lock[p].version
            BY <1>1, <3>2
        <3>4. main.spec[p] = Shipped[1] /\ main.pin[p] = digest
            BY <1>3
        <3>5. QED BY <3>2, <3>3, <3>4
    <2>2. \A p \in Packages : main.lock[p].primary = "lookaside" <=> p \in Lookaside
        BY <1>3
    <2>3. main.ratchet = {p \in Packages : main.lock[p].primary = "lookaside"}
        BY <1>3, <2>2
    <2>4. QED BY <2>1, <2>3 DEF Whole, Validates
<1>5. upstream \in [shipped : [Packages -> 1..Len(Shipped)], rolled : SUBSET (Packages \X Versions)]
    <2>1. Len(Shipped) = 4
        BY TheReleases
    <2>2. (1 \in 1..4) /\ (2 \in 1..4)
        OBVIOUS
    <2>3. QED BY <2>1, <2>2 DEF Init
<1>6. run = Idle /\ RunInv
    <2>1. run = Idle
        BY DEF Init
    <2>2. run \notin Begun /\ run \notin Working
        BY <2>1, Phases, Tags
    <2>3. QED BY <2>1, <2>2 DEF RunInv
<1>7. prs \in [Branches -> {Closed} \cup PullRequests] /\ \A b \in Branches : PrInv(b)
    <2>1. prs = [b \in Branches |-> Closed] /\ Closed \notin PullRequests
        BY Tags DEF Init
    <2>2. QED BY <2>1 DEF PrInv
<1>8. QED BY <1>3, <1>4, <1>5, <1>6, <1>7 DEF BumpInvariant, Types, Init

\* A step of the run that touches nothing else.
LEMMA OnlyTheRun ==
    ASSUME BumpInvariant, UNCHANGED <<main, upstream, prs, hand>>,
           run' \in {Idle} \cup Begun \cup Working, RunInv'
    PROVE  BumpInvariant'
<1>1. \A b \in Branches : PrInv(b)'
    BY DEF BumpInvariant, PrInv
<1>2. QED BY <1>1 DEF BumpInvariant, Types

\* A run that has ended promises nothing.
LEMMA IdleIsFine ==
    ASSUME run' = Idle
    PROVE  run' \in {Idle} \cup Begun \cup Working /\ RunInv'
<1>1. run' \notin Begun /\ run' \notin Working
    BY DEF Idle, Begun, Working
<1>2. QED BY <1>1 DEF RunInv

\* A run begins with main as it is.
LEMMA StartStep ==
    ASSUME BumpInvariant, NEW only \in Onlies, NEW cycle \in Cycles, NEW by \in {"schedule", "hand"},
           NEW clear \in BOOLEAN, Start(only, cycle, by, clear)
    PROVE  run' \in {Idle} \cup Begun \cup Working /\ RunInv'
<1>1. main \in Trees /\ Whole(main)
    BY WhatHolds
<1>2. run' \in Begun /\ run'.base = main /\ run' \notin Working
    BY <1>1 DEF Start, Begun, Working
<1>3. QED BY <1>1, <1>2 DEF RunInv

\* The daily run takes the place of one that was dispatched.
LEMMA ScheduleStep ==
    ASSUME BumpInvariant, NEW clear \in BOOLEAN, Schedule(clear)
    PROVE  BumpInvariant'
<1>1. "all" \in Onlies /\ <<>> \in Cycles
    BY DEF Onlies, Cycles
<1>2. QED BY <1>1, StartStep, OnlyTheRun DEF Schedule

\* A dispatched run takes the place of any.
LEMMA DispatchStep ==
    ASSUME BumpInvariant, Dispatch
    PROVE  BumpInvariant'
<1> USE BumpRunAssumption
<1>1. PICK only \in Named \cup {"all"}, cycle \in {<<>>, <<52>>} : Start(only, cycle, "hand", FALSE)
    BY DEF Dispatch
<1>2. only \in Onlies /\ cycle \in Cycles
    BY DEF Onlies, Cycles
<1>3. run' \in {Idle} \cup Begun \cup Working /\ RunInv'
    BY <1>1, <1>2, StartStep
<1>4. hand' \in 0..MaxHand
    BY WhatHolds DEF Dispatch
<1>5. \A b \in Branches : PrInv(b)'
    BY DEF BumpInvariant, PrInv, Dispatch
<1>6. QED BY <1>3, <1>4, <1>5 DEF BumpInvariant, Types, Dispatch

\* The lock of a package as the planner reads it.
LEMMA ConsideredEntry ==
    ASSUME NEW p, NEW readable, NEW tree, NEW b, b = Considered(p, readable, tree)
    PROVE  /\ b.entry = [version |-> tree.lock[p].version, primary |-> tree.lock[p].primary,
                         mirror |-> FALSE, feed |-> tree.lock[p].feed]
           /\ b.cycle = run.cycle /\ b.held = tree.hold[p]
BY DEF Considered

\* What else the planner knows of it.
LEMMA ConsideredFacts ==
    ASSUME BumpInvariant, NEW p \in Packages, NEW readable, NEW tree, NEW b, b = Considered(p, readable, tree)
    PROVE  /\ b.only \in BOOLEAN /\ (b.only <=> run.only = p)
           /\ (b.reviewOnly <=> p \in ReviewOnly) /\ b.listing.released \in SUBSET Versions
<1>1. Released(p) \in SUBSET Versions
    <2>1. upstream.shipped[p] \in 1..4
        BY WhatHolds, TheReleases
    <2>2. \A i \in 1..upstream.shipped[p] : i \in {1, 2, 3, 4}
        BY <2>1
    <2>3. \A i \in {1, 2, 3, 4} : Shipped[i] \in Versions
        BY TheReleases
    <2>4. QED BY <2>2, <2>3 DEF Released
<1> DEFINE released == Released(p)
<1>2. b.listing.released = released
    BY DEF Considered
<1>3. QED BY <1>1, <1>2 DEF Considered

\* What a run decides to move is a human's to decide, or in series.
LEMMA DecideStep ==
    ASSUME BumpInvariant, NEW readable, Decide(readable)
    PROVE  BumpInvariant'
<1> DEFINE considered(p) == Considered(p, readable, run.base)
           finals == {p \in Packages : run.only \in {"all", p} /\ Written(considered(p))}
           proposals == [p \in finals |-> Plan(considered(p))]
           relock == \E p \in finals : proposals[p].kind = "relock"
<1>1. /\ run \in Begun /\ run.only \in Onlies /\ run.cycle \in Cycles /\ run.by \in {"schedule", "hand"}
      /\ run.clear \in BOOLEAN /\ run.base \in Trees /\ Whole(run.base)
    <2>1. run.at = "plan"
        BY DEF Decide
    <2>2. run \in Begun
        BY <2>1, WhatHolds, Phases
    <2>3. Whole(run.base)
        BY <2>2, WhatHolds DEF RunInv
    <2>4. QED BY <2>2, <2>3 DEF Begun
<1>2. ASSUME NEW p \in finals
      PROVE  /\ p \in Packages /\ run.only \in {"all", p} /\ proposals[p] \in Proposals
             /\ Above(proposals[p].latest.num, run.base.lock[p].version.num)
             /\ proposals[p].kind = "relock" => run.only = p
             /\ proposals[p].kind = "final" =>
                   /\ run.base.lock[p].primary = "gnome" /\ p \notin ReviewOnly
                   /\ run.cycle = <<>> => proposals[p].latest.num[1] = run.base.lock[p].version.num[1]
    <2>1. p \in Packages /\ run.only \in {"all", p} /\ Written(considered(p)) /\ proposals[p] = Plan(considered(p))
        OBVIOUS
    <2>2. PICK b : b = considered(p)
        OBVIOUS
    <2>a. PICK tree \in Trees : tree = run.base
        BY <1>1
    <2>b. b = Considered(p, readable, tree) /\ p \in Packages
        BY <2>1, <2>2, <2>a
    <2>3. Written(b) /\ proposals[p] = Plan(b)
        BY <2>1, <2>2
    <2>4. /\ b.entry.version = run.base.lock[p].version /\ b.entry.primary = run.base.lock[p].primary
          /\ b.entry.feed = run.base.lock[p].feed /\ b.entry.mirror = FALSE
          /\ b.entry.version \in Versions /\ b.entry.primary \in {"gnome", "lookaside"}
          /\ b.entry.feed \in {"gnome", "none"}
          /\ b.only \in BOOLEAN /\ (b.only <=> run.only = p) /\ b.cycle = run.cycle /\ b.held = run.base.hold[p]
          /\ (b.reviewOnly <=> p \in ReviewOnly) /\ b.listing.released \in SUBSET Versions
        <3> HIDE DEF considered, finals, proposals, relock
        <3>1. /\ b.entry = [version |-> tree.lock[p].version, primary |-> tree.lock[p].primary,
                            mirror |-> FALSE, feed |-> tree.lock[p].feed]
              /\ b.cycle = run.cycle /\ b.held = tree.hold[p]
            BY <2>b, ConsideredEntry
        <3>2. /\ b.only \in BOOLEAN /\ (b.only <=> run.only = p)
              /\ (b.reviewOnly <=> p \in ReviewOnly) /\ b.listing.released \in SUBSET Versions
            BY <2>b, ConsideredFacts
        <3>3. tree.lock[p] \in Locks
            BY <2>b, PartsOfTree
        <3>4. QED BY <2>a, <3>1, <3>2, <3>3 DEF Locks
    <2>5. b.only \in BOOLEAN
        BY <2>4
    <2>6. /\ Plan(b) \in Proposals
          /\ Above(Plan(b).latest.num, b.entry.version.num)
          /\ b.held # {Plan(b).latest}
          /\ Plan(b).kind = "relock" => b.only
          /\ Plan(b).kind = "final" =>
                /\ b.entry.primary = "gnome" /\ ~b.reviewOnly
                /\ b.cycle = <<>> => Plan(b).latest.num[1] = b.entry.version.num[1]
        BY <2>3, <2>4, <2>5, WrittenFacts
    <2> HIDE DEF considered, finals, proposals
    <2>7. QED BY <2>1, <2>3, <2>4, <2>6
<1>3. proposals \in [finals -> Proposals] /\ finals \in SUBSET Packages
    BY <1>2
<1>4. run' = [at |-> "apply", only |-> run.only, cycle |-> run.cycle, by |-> run.by,
              clear |-> run.clear, base |-> run.base, tree |-> run.base, todo |-> proposals,
              applied |-> FALSE, tried |-> finals # {}, relock |-> relock]
    BY DEF Decide
<1>5. relock \in BOOLEAN /\ (finals # {}) \in BOOLEAN
    OBVIOUS
<1>6. relock => \E p \in finals : proposals[p].kind = "relock"
    OBVIOUS
<1>7. \A p \in finals : proposals[p].kind = "relock" => relock
    OBVIOUS
<1>8. DOMAIN proposals = finals
    OBVIOUS
<1> HIDE DEF considered, proposals, relock
<1>9. proposals \in UNION {[S -> Proposals] : S \in SUBSET Packages}
    BY <1>3
<1> HIDE DEF finals
<1>10. PICK tried \in BOOLEAN : tried = (finals # {})
    BY <1>5
<1>11. /\ run' \in Working /\ run' \notin Begun /\ run'.base = run.base /\ run'.tree = run.base
       /\ run'.only = run.only /\ run'.cycle = run.cycle /\ run'.todo = proposals /\ run'.relock = relock
    BY <1>1, <1>4, <1>5, <1>9, <1>10 DEF Working, Begun
<1>12. Advance(run.base, run.base) /\ InSeries(run.base, run.base)
    BY <1>1 DEF Advance, InSeries
<1>13. ASSUME NEW p \in DOMAIN run'.todo
       PROVE  Proper(run', p)
    <2>1. p \in finals /\ run'.todo[p] = proposals[p]
        BY <1>8, <1>11
    <2>2. PICK proposal : proposal = proposals[p]
        OBVIOUS
    <2>3. /\ p \in Packages /\ run.only \in {"all", p}
          /\ Above(proposal.latest.num, run.base.lock[p].version.num)
          /\ proposal.kind = "relock" => run.only = p /\ relock
          /\ proposal.kind = "final" =>
                /\ run.base.lock[p].primary = "gnome" /\ p \notin ReviewOnly
                /\ run.cycle = <<>> => proposal.latest.num[1] = run.base.lock[p].version.num[1]
        BY <1>2, <1>7, <2>1, <2>2
    <2>4. run'.todo[p] = proposal
        BY <2>1, <2>2
    <2>5. QED BY <1>11, <2>3, <2>4 DEF Proper
<1>14. run'.relock => run'.only # "all"
    <2>1. SUFFICES ASSUME relock
                   PROVE  run.only # "all"
        BY <1>11
    <2>2. PICK p \in finals : proposals[p].kind = "relock"
        BY <1>6, <2>1
    <2>3. run.only = p /\ p \in Packages
        BY <1>2, <2>2
    <2>4. QED BY <2>3, BumpRunAssumption
<1>15. RunInv'
    BY <1>11, <1>12, <1>13, <1>14 DEF RunInv
<1>16. QED BY <1>11, <1>15, OnlyTheRun DEF Decide

\* One package is moved, or left as it was.
LEMMA ApplyStep ==
    ASSUME BumpInvariant, NEW p \in Packages, NEW fetched \in BOOLEAN, ApplyOne(p, fetched)
    PROVE  BumpInvariant'
<1>1. /\ run \in Working /\ run.at = "apply" /\ run.base \in Trees /\ run.tree \in Trees
      /\ run.todo \in UNION {[S -> Proposals] : S \in SUBSET Packages} /\ p \in DOMAIN run.todo
      /\ Advance(run.base, run.tree) /\ Proper(run, p) /\ \A q \in DOMAIN run.todo : Proper(run, q)
      /\ run.relock \in BOOLEAN /\ (run.relock => run.only # "all") /\ run.applied \in BOOLEAN
      /\ \A q \in Packages : run.only \notin {"all", q} => run.tree.lock[q] = run.base.lock[q]
      /\ run.cycle = <<>> /\ ~run.relock => InSeries(run.base, run.tree)
    <2>1. run.at = "apply" /\ p \in DOMAIN run.todo
        BY DEF ApplyOne
    <2>2. run \in Working
        BY <2>1, WhatHolds, Phases
    <2>3. QED BY <2>1, <2>2, WhatHolds DEF RunInv, Working
<1>2. PICK proposal \in Proposals : proposal = run.todo[p]
    BY <1>1
<1>3. PICK base \in Trees, tree \in Trees : base = run.base /\ tree = run.tree
    BY <1>1
<1>4. PICK result : result = Apply(p, tree, proposal, fetched)
    OBVIOUS
<1>5. PICK new : new = RetireHold(p, result)
    OBVIOUS
<1>6. PICK rest : rest = [q \in DOMAIN run.todo \ {p} |-> run.todo[q]]
    OBVIOUS
<1>7. result.ok \in BOOLEAN
    BY <1>4, ApplyAnswers
<1>8. run' = [run EXCEPT !.tree = new, !.applied = @ \/ result.ok, !.todo = rest]
    BY <1>2, <1>3, <1>4, <1>5, <1>6 DEF ApplyOne, GoesOn
<1>9. /\ Above(proposal.latest.num, base.lock[p].version.num)
      /\ run.only \in {"all", p}
      /\ proposal.kind = "relock" => run.only = p /\ run.relock
      /\ proposal.kind = "final" =>
            /\ base.lock[p].primary = "gnome" /\ p \notin ReviewOnly
            /\ run.cycle = <<>> => proposal.latest.num[1] = base.lock[p].version.num[1]
    BY <1>1, <1>2, <1>3 DEF Proper
<1>10. /\ new \in Trees /\ Advance(base, new)
       /\ \A q \in Packages \ {p} : new.lock[q] = tree.lock[q]
       /\ run.cycle = <<>> /\ ~run.relock => InSeries(base, new)
    <2>1. PICK digest : digest = Served(p, proposal.latest)
        OBVIOUS
    <2>2. PICK entry : entry = PlannedEntry(tree.lock[p], proposal, digest)
        OBVIOUS
    <2>3. PICK kept : kept = IF entry.primary = "lookaside" THEN tree.ratchet ELSE tree.ratchet \ {p}
        OBVIOUS
    <2>4. PICK v \in Versions : v = proposal.latest
        BY DEF Proposals
    <2>a. PICK after : after = [lock |-> [tree.lock EXCEPT ![p] = entry],
                                spec |-> [tree.spec EXCEPT ![p] = proposal.latest],
                                pin |-> [tree.pin EXCEPT ![p] = digest], ratchet |-> kept,
                                hold |-> [tree.hold EXCEPT ![p] = {}]]
        OBVIOUS
    <2>5. CASE new = tree
        BY <1>1, <1>3, <2>5
    <2>6. CASE new = after
        <3>1. digest \in Digests /\ digest[1] = v
            BY <2>1, <2>4, ServedFacts
        <3>2. tree.lock \in [Packages -> Locks]
            BY PartsOfTree
        <3>3. /\ entry \in Locks /\ entry.version = v /\ entry.digest = digest
              /\ entry.primary = IF proposal.kind = "relock" THEN "gnome" ELSE tree.lock[p].primary
            BY <2>2, <2>4, <3>1, <3>2, PlannedEntryFacts
        <3>4. new = [lock |-> [tree.lock EXCEPT ![p] = entry], spec |-> [tree.spec EXCEPT ![p] = v],
                     pin |-> [tree.pin EXCEPT ![p] = entry.digest], ratchet |-> kept,
                     hold |-> [tree.hold EXCEPT ![p] = {}]]
            BY <2>4, <2>6, <2>a, <3>3
        <3>5. /\ entry.digest \in Digests /\ entry.digest[1] = v
              /\ Above(v.num, base.lock[p].version.num)
              /\ entry.primary = "gnome" \/ entry.primary = tree.lock[p].primary
            BY <1>9, <2>4, <3>1, <3>3
        <3>6. Advance(base, tree)
            BY <1>1, <1>3
        <3>7. new \in Trees /\ new.lock = [tree.lock EXCEPT ![p] = entry] /\ Advance(base, new)
            BY <2>3, <3>3, <3>4, <3>5, <3>6, MovingAdvances
        <3>8. /\ new.lock[p] = entry
              /\ \A q \in Packages \ {p} : new.lock[q] = tree.lock[q]
            BY <3>2, <3>7
        <3>9. ASSUME run.cycle = <<>>, ~run.relock
              PROVE  InSeries(base, new)
            <4>1. InSeries(base, tree)
                BY <1>1, <1>3, <3>9
            <4>2. proposal.kind = "final"
                BY <1>9, <3>9 DEF Proposals
            <4>3. /\ new.lock[p].primary = tree.lock[p].primary /\ p \notin ReviewOnly
                  /\ new.lock[p].version.num[1] = base.lock[p].version.num[1]
                BY <1>9, <2>4, <3>3, <3>8, <3>9, <4>2
            <4>4. ASSUME NEW q \in Packages
                  PROVE  /\ new.lock[q].primary = base.lock[q].primary
                         /\ new.lock[q] # base.lock[q] =>
                                q \notin ReviewOnly /\ new.lock[q].version.num[1] = base.lock[q].version.num[1]
                <5>1. CASE q = p
                    BY <4>1, <4>3, <5>1 DEF InSeries
                <5>2. CASE q # p
                    BY <3>8, <4>1, <5>2 DEF InSeries
                <5>3. QED BY <5>1, <5>2
            <4>5. QED BY <4>4 DEF InSeries
        <3>10. QED BY <3>7, <3>8, <3>9
    <2>7. new = tree \/ new = after
        BY <1>4, <1>5, <2>1, <2>2, <2>3, <2>a, ApplyMoves
    <2>8. QED BY <2>5, <2>6, <2>7
<1>11. rest \in UNION {[S -> Proposals] : S \in SUBSET Packages}
       /\ DOMAIN rest = DOMAIN run.todo \ {p} /\ \A q \in DOMAIN rest : rest[q] = run.todo[q]
    <2>1. PICK S \in SUBSET Packages : run.todo \in [S -> Proposals]
        BY <1>1
    <2>2. rest \in [S \ {p} -> Proposals] /\ S \ {p} \in SUBSET Packages
        BY <1>6, <2>1
    <2>3. QED BY <1>6, <2>2
<1>12. /\ run' \in Working /\ run' \notin Begun /\ run'.base = base /\ run'.tree = new /\ run'.todo = rest
       /\ run'.only = run.only /\ run'.cycle = run.cycle /\ run'.relock = run.relock
    <2>1. (run.applied \/ result.ok) \in BOOLEAN
        BY <1>1, <1>7
    <2>2. QED BY <1>1, <1>3, <1>8, <1>10, <1>11, <2>1 DEF Working, Begun
<1>13. ASSUME NEW q \in DOMAIN rest
       PROVE  Proper(run', q)
    <2>1. Proper(run, q) /\ rest[q] = run.todo[q]
        BY <1>1, <1>11
    <2>2. QED BY <1>3, <1>12, <2>1 DEF Proper
<1>14. ASSUME NEW q \in Packages, run.only \notin {"all", q}
       PROVE  new.lock[q] = base.lock[q]
    BY <1>1, <1>3, <1>9, <1>10, <1>14
<1>15. RunInv'
    BY <1>1, <1>10, <1>12, <1>13, <1>14 DEF RunInv
<1>16. QED BY <1>12, <1>15, OnlyTheRun DEF ApplyOne

\* The run goes on, or ends, with what it has written.
LEMMA MoveOnStep ==
    ASSUME BumpInvariant, run \in Working, NEW at \in {"apply", "verify", "open", "gate"},
           run' = [run EXCEPT !.at = at]
    PROVE  run' \in {Idle} \cup Begun \cup Working /\ RunInv'
<1>1. /\ run' \in Working /\ run' \notin Begun /\ run'.base = run.base /\ run'.tree = run.tree
      /\ run'.todo = run.todo /\ run'.only = run.only /\ run'.cycle = run.cycle /\ run'.relock = run.relock
    BY DEF Working, Begun
<1>2. \A q \in DOMAIN run.todo : Proper(run, q) => Proper(run', q)
    BY <1>1 DEF Proper
<1>3. RunInv'
    BY <1>1, <1>2, WhatHolds DEF RunInv
<1>4. QED BY <1>1, <1>3

\* A run whose proposals are all tried goes on, or fails.
LEMMA AppliedStep ==
    ASSUME BumpInvariant, Applied
    PROVE  BumpInvariant'
<1>1. run \in Working
    BY WhatHolds, Phases DEF Applied
<1>2. run' = Idle \/ run' = [run EXCEPT !.at = "verify"]
    BY DEF Applied
<1>3. run' \in {Idle} \cup Begun \cup Working /\ RunInv'
    BY <1>1, <1>2, IdleIsFine, MoveOnStep
<1>4. QED BY <1>3, OnlyTheRun DEF Applied

\* A run that does not verify ends with nothing written.
LEMMA VerifyStep ==
    ASSUME BumpInvariant, NEW reached, Verify(reached)
    PROVE  BumpInvariant'
<1>1. run \in Working
    BY WhatHolds, Phases DEF Verify
<1>2. run' = Idle \/ run' = [run EXCEPT !.at = "open"]
    BY DEF Verify
<1>3. run' \in {Idle} \cup Begun \cup Working /\ RunInv'
    BY <1>1, <1>2, IdleIsFine, MoveOnStep
<1>4. QED BY <1>3, OnlyTheRun DEF Verify

\* The branch of a run for a target cycle.
LEMMA CycleBranch ==
    ASSUME NEW r, r.cycle # <<>>
    PROVE  BranchOf(r) = Cycle
<1>1. (r.cycle # <<>>) /\ ~(r.cycle = <<>>)
    OBVIOUS
<1>2. QED BY <1>1, Zenon DEF BranchOf

\* The branch of a run that relocks a package.
LEMMA RelockBranch ==
    ASSUME NEW r, r.cycle = <<>>, r.only # "all", r.relock
    PROVE  BranchOf(r) = <<"relock", r.only>>
BY Zenon DEF BranchOf

\* The branch of every other run.
LEMMA DailyBranch ==
    ASSUME NEW r, r.cycle = <<>>, ~(r.only # "all" /\ r.relock)
    PROVE  BranchOf(r) = Daily
BY Zenon DEF BranchOf

\* The branch a run writes to, and what that says of its changes.
LEMMA WhereARunGoes ==
    ASSUME BumpInvariant, run \in Working
    PROVE  /\ BranchOf(run) \in Branches
           /\ BranchOf(run) \in {Cycle, Daily} \/ (BranchOf(run) = <<"relock", run.only>> /\ run.only \in Packages)
           /\ BranchOf(run) = Daily => run.cycle = <<>> /\ ~run.relock
<1>1. /\ run.only \in Packages \cup {"all"} /\ run.relock \in BOOLEAN
      /\ run.relock => run.only # "all"
    BY WhatHolds DEF RunInv, Working, Onlies
<1>2. CASE run.cycle # <<>>
    <2>1. BranchOf(run) = Cycle
        BY <1>2, CycleBranch
    <2>2. QED BY <2>1, BranchesApart
<1>3. CASE run.cycle = <<>> /\ run.only # "all" /\ run.relock
    <2>1. BranchOf(run) = <<"relock", run.only>> /\ run.only \in Packages
        BY <1>1, <1>3, RelockBranch
    <2>2. BranchOf(run) # Daily /\ BranchOf(run) \in Branches
        BY <2>1, BranchesApart
    <2>3. QED BY <2>1, <2>2
<1>4. CASE run.cycle = <<>> /\ ~(run.only # "all" /\ run.relock)
    <2>1. BranchOf(run) = Daily
        BY <1>4, DailyBranch
    <2>2. QED BY <1>1, <1>4, <2>1, BranchesApart
<1>5. QED BY <1>2, <1>3, <1>4

\* A pull request that is opened carries what the run has made of its base.
LEMMA OpenStep ==
    ASSUME BumpInvariant, Open
    PROVE  BumpInvariant'
<1>1. run.at = "open" /\ run \in Working
    BY WhatHolds, Phases DEF Open
<1>2. /\ run.base \in Trees /\ run.tree \in Trees /\ Advance(run.base, run.tree)
      /\ run.only \in Packages \cup {"all"}
      /\ \A p \in Packages : run.only \notin {"all", p} => run.tree.lock[p] = run.base.lock[p]
      /\ run.cycle = <<>> /\ ~run.relock => InSeries(run.base, run.tree)
    BY <1>1, WhatHolds DEF RunInv, Working, Onlies
<1>3. PICK branch : branch = BranchOf(run)
    OBVIOUS
<1>4. /\ branch \in Branches /\ (branch = Daily => run.cycle = <<>> /\ ~run.relock)
      /\ branch \in {Cycle, Daily} \/ (branch = <<"relock", run.only>> /\ run.only \in Packages)
    BY <1>1, <1>3, WhereARunGoes
<1>5. PICK pr : pr = [open |-> TRUE, base |-> run.base, head |-> run.tree, gated |-> FALSE]
    OBVIOUS
<1>6. pr \in PullRequests /\ pr.base = run.base /\ pr.head = run.tree
    BY <1>2, <1>5 DEF PullRequests
<1>7. prs \in [Branches -> {Closed} \cup PullRequests]
    BY WhatHolds
<1>8. \E put \in {Closed, prs[branch], pr} : prs' = [prs EXCEPT ![branch] = put]
    <2>1. prs' = [prs EXCEPT ![branch] =
                      IF run.tree = run.base THEN Closed
                      ELSE IF prs[branch].open /\ prs[branch].base = run.base /\ prs[branch].head = run.tree
                           THEN prs[branch] ELSE pr]
        BY <1>3, <1>5 DEF Open
    <2>2. QED BY <2>1
<1>9. PICK put \in {Closed, prs[branch], pr} : prs' = [prs EXCEPT ![branch] = put]
    BY <1>8
<1>10. /\ prs' \in [Branches -> {Closed} \cup PullRequests]
       /\ prs'[branch] = put /\ \A b \in Branches \ {branch} : prs'[b] = prs[b]
    BY <1>4, <1>6, <1>7, <1>9
<1>11. ASSUME NEW b \in Branches
       PROVE  PrInv(b)'
    <2>1. PrInv(b)
        BY WhatHolds
    <2>2. CASE prs'[b] = prs[b]
        BY <2>1, <2>2 DEF PrInv
    <2>3. CASE prs'[b] = Closed
        <3>1. Closed \notin PullRequests
            BY Tags
        <3>2. QED BY <2>3, <3>1 DEF PrInv
    <2>4. CASE b = branch /\ prs'[b] = pr
        <3>1. Advance(pr.base, pr.head)
            BY <1>2, <1>6
        <3>2. b = Daily => InSeries(pr.base, pr.head)
            BY <1>2, <1>4, <1>6, <2>4
        <3>3. ASSUME NEW p \in Packages, b # Cycle, b # Daily, b # <<"relock", p>>
              PROVE  pr.head.lock[p] = pr.base.lock[p]
            <4>1. b = <<"relock", run.only>> /\ run.only \in Packages
                BY <1>4, <2>4, <3>3
            <4>2. run.only # p /\ run.only # "all"
                BY <3>3, <4>1, BumpRunAssumption
            <4>3. QED BY <1>2, <1>6, <4>2
        <3>4. QED BY <2>4, <3>1, <3>2, <3>3 DEF PrInv
    <2>5. QED BY <1>9, <1>10, <2>2, <2>3, <2>4
<1>12. run' \in {Idle} \cup Begun \cup Working /\ RunInv'
    <2>1. run' = [run EXCEPT !.at = "gate"] \/ run' = Idle
        BY DEF Open
    <2>2. QED BY <1>1, <2>1, IdleIsFine, MoveOnStep
<1>13. QED BY <1>10, <1>11, <1>12 DEF BumpInvariant, Types, Open

\* The gate is called on the branch as it is.
LEMMA DispatchGateStep ==
    ASSUME BumpInvariant, DispatchGate
    PROVE  BumpInvariant'
<1>1. prs \in [Branches -> {Closed} \cup PullRequests] /\ Daily \in Branches
    BY WhatHolds, BranchesApart
<1>2. run' \in {Idle} \cup Begun \cup Working /\ RunInv'
    BY IdleIsFine DEF DispatchGate
<1>3. CASE ~prs[Daily].open
    <2>1. UNCHANGED <<main, upstream, prs, hand>>
        BY <1>3 DEF DispatchGate
    <2>2. QED BY <1>2, <2>1, OnlyTheRun
<1>4. CASE prs[Daily].open
    <2>1. prs[Daily] \in PullRequests
        BY <1>1, <1>4, Tags
    <2>2. PICK pr \in PullRequests : pr = prs[Daily]
        BY <2>1
    <2>3. PICK put : put = [pr EXCEPT !.gated = TRUE]
        OBVIOUS
    <2>4. put \in PullRequests /\ put.base = pr.base /\ put.head = pr.head
        BY <2>3 DEF PullRequests
    <2>5. prs' = [prs EXCEPT ![Daily] = put]
        BY <1>4, <2>2, <2>3 DEF DispatchGate
    <2>6. /\ prs' \in [Branches -> {Closed} \cup PullRequests]
          /\ prs'[Daily] = put /\ \A b \in Branches \ {Daily} : prs'[b] = prs[b]
        BY <1>1, <2>4, <2>5
    <2>7. ASSUME NEW b \in Branches
          PROVE  PrInv(b)'
        <3>1. PrInv(b)
            BY WhatHolds
        <3>2. CASE b # Daily
            BY <2>6, <3>1, <3>2 DEF PrInv
        <3>3. CASE b = Daily
            BY <2>1, <2>2, <2>4, <2>6, <3>1, <3>3 DEF PrInv
        <3>4. QED BY <3>2, <3>3
    <2>8. QED BY <1>2, <2>6, <2>7 DEF BumpInvariant, Types, DispatchGate
<1>5. QED BY <1>3, <1>4

\* Upstream, which no tree names.
LEMMA OnlyUpstream ==
    ASSUME BumpInvariant, UNCHANGED <<main, run, prs, hand>>,
           upstream' \in [shipped : [Packages -> 1..Len(Shipped)], rolled : SUBSET (Packages \X Versions)]
    PROVE  BumpInvariant'
<1>1. \A b \in Branches : PrInv(b)'
    BY DEF BumpInvariant, PrInv
<1>2. RunInv'
    BY DEF BumpInvariant, RunInv
<1>3. QED BY <1>1, <1>2 DEF BumpInvariant, Types

\* An upstream releases.
LEMMA ReleaseStep ==
    ASSUME BumpInvariant, NEW p \in Packages, Release(p)
    PROVE  BumpInvariant'
<1>1. upstream \in [shipped : [Packages -> 1..4], rolled : SUBSET (Packages \X Versions)] /\ Len(Shipped) = 4
    BY WhatHolds, TheReleases
<1>2. PICK next \in Comes[p] : upstream' = [upstream EXCEPT !.shipped[p] = next]
    BY DEF Release
<1>3. next \in 1..4
    BY BumpRunAssumption
<1>4. upstream' = [upstream EXCEPT !.shipped = [upstream.shipped EXCEPT ![p] = next]]
    BY <1>1, <1>2
<1>5. upstream' \in [shipped : [Packages -> 1..4], rolled : SUBSET (Packages \X Versions)]
    BY <1>1, <1>3, <1>4
<1>6. QED BY <1>1, <1>5, OnlyUpstream DEF Release

\* An upstream replaces a tarball.
LEMMA RollStep ==
    ASSUME BumpInvariant, NEW p \in Packages, NEW version \in Versions, Roll(p, version)
    PROVE  BumpInvariant'
<1>1. upstream \in [shipped : [Packages -> 1..Len(Shipped)], rolled : SUBSET (Packages \X Versions)]
    BY WhatHolds
<1>2. <<p, version>> \in Packages \X Versions
    OBVIOUS
<1>3. upstream' \in [shipped : [Packages -> 1..Len(Shipped)], rolled : SUBSET (Packages \X Versions)]
    BY <1>1, <1>2 DEF Roll
<1>4. QED BY <1>3, OnlyUpstream DEF Roll

\* What lands: the merge, and the branch is closed.
LEMMA LandsFacts ==
    ASSUME BumpInvariant, NEW branch \in Branches, Lands(branch)
    PROVE  /\ prs[branch] \in PullRequests /\ Mergeable(prs[branch]) /\ Advance(prs[branch].base, prs[branch].head)
           /\ main' = Merged(prs[branch]) /\ prs' = [prs EXCEPT ![branch] = Closed]
           /\ prs'[branch] = Closed /\ \A b \in Branches \ {branch} : prs'[b] = prs[b]
<1>1. prs \in [Branches -> {Closed} \cup PullRequests]
    BY WhatHolds
<1>2. prs[branch] \in PullRequests
    BY <1>1, Tags DEF Lands
<1>3. PrInv(branch)
    BY WhatHolds
<1>4. QED BY <1>1, <1>2, <1>3 DEF Lands, PrInv

\* A branch lands and is closed; the other branches keep their bases.
LEMMA LandsStep ==
    ASSUME BumpInvariant, NEW branch \in Branches, Lands(branch), UNCHANGED hand
    PROVE  BumpInvariant'
<1>1. /\ prs[branch] \in PullRequests /\ Mergeable(prs[branch]) /\ Advance(prs[branch].base, prs[branch].head)
      /\ main' = Merged(prs[branch]) /\ prs' = [prs EXCEPT ![branch] = Closed]
      /\ prs'[branch] = Closed /\ \A b \in Branches \ {branch} : prs'[b] = prs[b]
    BY LandsFacts
<1>2. PICK pr \in PullRequests : pr = prs[branch]
    BY <1>1
<1>3. PICK merged : merged = Merged(pr)
    OBVIOUS
<1>4. main \in Trees /\ Whole(main) /\ Mergeable(pr) /\ Advance(pr.base, pr.head)
    BY <1>1, <1>2, WhatHolds
<1>5. merged \in Trees /\ Whole(merged)
    BY <1>3, <1>4, MergeFacts
<1>6. main' = merged
    BY <1>1, <1>2, <1>3
<1>7. prs' \in [Branches -> {Closed} \cup PullRequests]
    BY <1>1, WhatHolds
<1>8. ASSUME NEW b \in Branches
      PROVE  PrInv(b)'
    <2>1. PrInv(b)
        BY WhatHolds
    <2>2. CASE b # branch
        BY <1>1, <2>1, <2>2 DEF PrInv
    <2>3. CASE b = branch
        <3>1. Closed \notin PullRequests
            BY Tags
        <3>2. QED BY <1>1, <2>3, <3>1 DEF PrInv
    <2>4. QED BY <2>2, <2>3
<1>9. RunInv'
    BY DEF BumpInvariant, RunInv, Lands
<1>10. main' \in Trees /\ Whole(main')
    BY <1>5, <1>6
<1>11. QED BY <1>7, <1>8, <1>9, <1>10 DEF BumpInvariant, Types, Lands

\* A package the gate takes out is as it was before the bump, and held.
LEMMA GateTrimsStep ==
    ASSUME BumpInvariant, NEW p \in Packages, GateTrims(p)
    PROVE  BumpInvariant'
<1>1. prs \in [Branches -> {Closed} \cup PullRequests] /\ Daily \in Branches
    BY WhatHolds, BranchesApart
<1>2. PICK pr \in PullRequests : pr = prs[Daily]
    BY <1>1, Tags DEF GateTrims
<1>3. Advance(pr.base, pr.head) /\ InSeries(pr.base, pr.head)
    <2>1. PrInv(Daily)
        BY <1>1, WhatHolds
    <2>2. QED BY <1>2, <2>1 DEF PrInv
<1>4. PICK base \in Trees, head \in Trees : base = pr.base /\ head = pr.head
    BY Tags
<1>5. PICK new : new = [lock |-> [head.lock EXCEPT ![p] = base.lock[p]],
                        spec |-> [head.spec EXCEPT ![p] = base.spec[p]],
                        pin |-> [head.pin EXCEPT ![p] = base.pin[p]], ratchet |-> head.ratchet,
                        hold |-> [head.hold EXCEPT ![p] = {head.lock[p].version}]]
    OBVIOUS
<1>6. head.lock[p] # base.lock[p]
    BY <1>2, <1>4 DEF GateTrims, Bumped
<1>7. new \in Trees /\ Advance(base, new) /\ InSeries(base, new)
    BY <1>3, <1>4, <1>5, <1>6, TrimFacts
<1>8. new = [head EXCEPT !.lock[p] = base.lock[p], !.spec[p] = base.spec[p],
                         !.pin[p] = base.pin[p], !.hold[p] = {head.lock[p].version}]
    <2>1. PICK trimmed : trimmed = [head EXCEPT !.lock[p] = base.lock[p], !.spec[p] = base.spec[p],
                                                !.pin[p] = base.pin[p], !.hold[p] = {head.lock[p].version}]
        OBVIOUS
    <2>2. head = [lock |-> head.lock, spec |-> head.spec, pin |-> head.pin,
                  ratchet |-> head.ratchet, hold |-> head.hold]
        BY PartsOfTree
    <2>3. new = trimmed
        BY <1>5, <2>1, <2>2, FourFields
    <2>4. QED BY <2>1, <2>3
<1>9. prs' = [prs EXCEPT ![Daily].head = new]
    BY <1>2, <1>4, <1>8 DEF GateTrims
<1>10. PICK put : put = [pr EXCEPT !.head = new]
    OBVIOUS
<1>11. put \in PullRequests /\ put.base = base /\ put.head = new
    BY <1>4, <1>7, <1>10 DEF PullRequests
<1>12. prs' = [prs EXCEPT ![Daily] = put]
    BY <1>1, <1>2, <1>9, <1>10
<1>13. /\ prs' \in [Branches -> {Closed} \cup PullRequests]
       /\ prs'[Daily] = put /\ \A b \in Branches \ {Daily} : prs'[b] = prs[b]
    BY <1>1, <1>11, <1>12
<1>14. ASSUME NEW b \in Branches
       PROVE  PrInv(b)'
    <2>1. CASE b # Daily
        BY <1>13, <2>1, WhatHolds DEF PrInv
    <2>2. CASE b = Daily
        BY <1>7, <1>11, <1>13, <2>2 DEF PrInv
    <2>3. QED BY <2>1, <2>2
<1>15. RunInv'
    BY DEF BumpInvariant, RunInv, GateTrims
<1>16. QED BY <1>13, <1>14, <1>15 DEF BumpInvariant, Types, GateTrims

\* A recipe that is moved by hand is moved whole.
LEMMA HumanMovesStep ==
    ASSUME BumpInvariant, NEW p \in Packages, NEW version \in Versions, HumanMoves(p, version)
    PROVE  BumpInvariant'
<1>1. PICK tree \in Trees : tree = main
    BY WhatHolds
<1>2. PICK digest : digest = Served(p, version)
    OBVIOUS
<1>3. digest \in Digests /\ digest[1] = version
    BY <1>2, ServedFacts
<1>4. PICK new : new = [tree EXCEPT !.lock[p].version = version, !.lock[p].digest = digest,
                                    !.spec[p] = version, !.pin[p] = digest]
    OBVIOUS
<1>5. main' = new
    BY <1>1, <1>2, <1>4 DEF HumanMoves
<1>6. /\ tree.lock \in [Packages -> Locks] /\ tree.spec \in [Packages -> Versions]
      /\ tree.pin \in [Packages -> Digests] /\ tree.ratchet \in SUBSET Packages
      /\ tree.hold \in [Packages -> Holds]
    BY PartsOfTree
<1>7. PICK entry : entry = [tree.lock[p] EXCEPT !.version = version, !.digest = digest]
    OBVIOUS
<1>8. /\ entry \in Locks /\ entry.version = version /\ entry.digest = digest
      /\ entry.primary = tree.lock[p].primary
    <2>1. PICK old \in Locks : old = tree.lock[p]
        BY <1>6
    <2>2. PICK half : half = [old EXCEPT !.version = version]
        OBVIOUS
    <2>3. half \in Locks /\ half.version = version /\ half.primary = old.primary
        BY <2>2 DEF Locks
    <2>4. entry = [half EXCEPT !.digest = digest]
        BY <1>7, <2>1, <2>2
    <2>5. entry \in Locks /\ entry.version = version /\ entry.digest = digest /\ entry.primary = old.primary
        BY <1>3, <2>3, <2>4 DEF Locks
    <2>6. QED BY <2>1, <2>5
<1>9. tree = [lock |-> tree.lock, spec |-> tree.spec, pin |-> tree.pin,
              ratchet |-> tree.ratchet, hold |-> tree.hold]
    BY PartsOfTree
<1>10. new = [lock |-> [tree.lock EXCEPT ![p] = entry], spec |-> [tree.spec EXCEPT ![p] = version],
              pin |-> [tree.pin EXCEPT ![p] = digest], ratchet |-> tree.ratchet, hold |-> tree.hold]
    BY <1>4, <1>6, <1>7, <1>9, ReleaseFields
<1>11. /\ [tree.lock EXCEPT ![p] = entry] \in [Packages -> Locks]
       /\ [tree.spec EXCEPT ![p] = version] \in [Packages -> Versions]
       /\ [tree.pin EXCEPT ![p] = digest] \in [Packages -> Digests]
    BY <1>3, <1>6, <1>8
<1>12. /\ new \in Trees /\ new.lock = [tree.lock EXCEPT ![p] = entry]
       /\ new.spec = [tree.spec EXCEPT ![p] = version] /\ new.pin = [tree.pin EXCEPT ![p] = digest]
       /\ new.ratchet = tree.ratchet /\ new.hold = tree.hold
    BY <1>6, <1>10, <1>11, TreeOfParts
<1>13. /\ new.lock[p] = entry /\ new.spec[p] = version /\ new.pin[p] = digest
       /\ \A q \in Packages \ {p} : /\ new.lock[q] = tree.lock[q] /\ new.spec[q] = tree.spec[q]
                                    /\ new.pin[q] = tree.pin[q]
    BY <1>6, <1>12
<1>14. /\ \A q \in Packages : /\ tree.spec[q] = tree.lock[q].version /\ tree.pin[q] = tree.lock[q].digest
                              /\ tree.lock[q].digest[1] = tree.lock[q].version
       /\ tree.ratchet = {q \in Packages : tree.lock[q].primary = "lookaside"}
    BY <1>1, WhatHolds DEF Whole, Validates
<1>15. \A q \in Packages : /\ new.spec[q] = new.lock[q].version /\ new.pin[q] = new.lock[q].digest
                           /\ new.lock[q].digest[1] = new.lock[q].version
                           /\ new.lock[q].primary = tree.lock[q].primary
    <2>1. TAKE q \in Packages
    <2>2. CASE q = p
        BY <1>3, <1>8, <1>13, <2>2
    <2>3. CASE q # p
        BY <1>13, <1>14, <2>3
    <2>4. QED BY <2>2, <2>3
<1>16. Whole(new)
    BY <1>12, <1>14, <1>15 DEF Whole, Validates
<1>17. main' \in Trees /\ Whole(main')
    BY <1>5, <1>12, <1>16
<1>18. hand' \in 0..MaxHand
    BY WhatHolds, BumpRunAssumption DEF HumanMoves
<1>19. \A b \in Branches : PrInv(b)'
    BY DEF BumpInvariant, PrInv, HumanMoves
<1>20. RunInv'
    BY DEF BumpInvariant, RunInv, HumanMoves
<1>21. QED BY <1>17, <1>18, <1>19, <1>20 DEF BumpInvariant, Types, HumanMoves

\* Every step, then.
LEMMA BumpStep ==
    ASSUME BumpInvariant, [Next]_vars
    PROVE  BumpInvariant'
<1>1. ASSUME NEW clear \in BOOLEAN, Schedule(clear)
      PROVE  BumpInvariant'
    BY <1>1, ScheduleStep
<1>2. CASE Dispatch
    BY <1>2, DispatchStep
<1>3. CASE RunStep
    <2>1. ASSUME NEW readable, Decide(readable)
          PROVE  BumpInvariant'
        BY <2>1, DecideStep
    <2>2. ASSUME NEW p \in Packages, NEW fetched \in BOOLEAN, ApplyOne(p, fetched)
          PROVE  BumpInvariant'
        BY <2>2, ApplyStep
    <2>3. CASE Applied
        BY <2>3, AppliedStep
    <2>4. ASSUME NEW reached \in BOOLEAN, Verify(reached)
          PROVE  BumpInvariant'
        BY <2>4, VerifyStep
    <2>5. CASE Open
        BY <2>5, OpenStep
    <2>6. CASE DispatchGate
        BY <2>6, DispatchGateStep
    <2>7. QED BY <1>3, <2>1, <2>2, <2>3, <2>4, <2>5, <2>6 DEF RunStep
<1>4. CASE GateLands
    BY <1>4, LandsStep, BranchesApart DEF GateLands
<1>5. ASSUME NEW p \in Packages, Release(p)
      PROVE  BumpInvariant'
    BY <1>5, ReleaseStep
<1>6. ASSUME NEW p \in Packages, GateTrims(p)
      PROVE  BumpInvariant'
    BY <1>6, GateTrimsStep
<1>7. ASSUME NEW p \in Packages, NEW version \in Versions, Roll(p, version)
      PROVE  BumpInvariant'
    BY <1>7, RollStep
<1>8. ASSUME NEW p \in Packages, NEW version \in Versions, HumanMoves(p, version)
      PROVE  BumpInvariant'
    BY <1>8, HumanMovesStep
<1>9. ASSUME NEW branch \in Branches, HumanLands(branch)
      PROVE  BumpInvariant'
    BY <1>9, LandsStep DEF HumanLands
<1>10. CASE UNCHANGED vars
    <2>1. \A b \in Branches : PrInv(b)'
        BY <1>10 DEF BumpInvariant, PrInv, vars
    <2>2. RunInv'
        BY <1>10 DEF BumpInvariant, RunInv, vars
    <2>3. QED BY <1>10, <2>1, <2>2 DEF BumpInvariant, Types, vars
<1>11. QED
    BY <1>1, <1>2, <1>3, <1>4, <1>5, <1>6, <1>7, <1>8, <1>9, <1>10 DEF Next, Versions

\* The inductive invariant.
THEOREM BumpIsInvariant == Spec => []BumpInvariant
BY InitBump, BumpStep, PTL DEF Spec

\* The types of everything the runs, the branches and main hold.
THEOREM TypeCorrect == Spec => []TypeOK
<1>1. BumpInvariant => TypeOK
    <2>1. SUFFICES ASSUME BumpInvariant
                   PROVE  TypeOK
        OBVIOUS
    <2>2. \/ run = Idle
          \/ run.at = "plan" /\ run.only \in Onlies /\ run.cycle \in Cycles /\ run.base \in Trees
          \/ /\ run.at \in {"apply", "verify", "open", "gate"} /\ run.only \in Onlies /\ run.cycle \in Cycles
             /\ run.base \in Trees /\ run.tree \in Trees /\ run.relock \in BOOLEAN
        BY <2>1, WhatHolds DEF Begun, Working
    <2>3. /\ run.at \in {"idle", "plan", "apply", "verify", "open", "gate"}
          /\ run.only \in Packages \cup {"all"} /\ run.cycle \in {<<>>, <<52>>}
          /\ run.at # "idle" => run.base \in Trees
          /\ run.at \notin {"idle", "plan"} => run.tree \in Trees /\ run.relock \in BOOLEAN
        <3>1. CASE run = Idle
            BY <3>1 DEF Idle
        <3>2. CASE run # Idle
            BY <2>2, <3>2 DEF Onlies, Cycles
        <3>3. QED BY <3>1, <3>2
    <2>4. \A b \in Branches :
              prs[b].open => prs[b].base \in Trees /\ prs[b].head \in Trees /\ prs[b].gated \in BOOLEAN
        <3>1. prs \in [Branches -> {Closed} \cup PullRequests]
            BY <2>1, WhatHolds
        <3>2. QED BY <3>1, Tags
    <2>5. /\ main \in Trees /\ hand \in 0..MaxHand
          /\ upstream.shipped \in [Packages -> 1..Len(Shipped)]
          /\ upstream.rolled \subseteq Packages \X ToSet(Shipped)
        BY <2>1, WhatHolds DEF Versions
    <2>6. QED BY <2>3, <2>4, <2>5 DEF TypeOK
<1>2. QED BY <1>1, BumpIsInvariant, PTL

\* Lock, spec, manifest and ratchet move together, whatever fails half-way and
\* whatever lands between a run's checkout and its pull request.
THEOREM BumpsCorrect == Spec => []BumpsAreWhole
<1>1. BumpInvariant => BumpsAreWhole
    <2>1. SUFFICES ASSUME BumpInvariant, NEW b \in Branches, prs[b].open
                   PROVE  Whole(prs[b].head) /\ (Mergeable(prs[b]) => Whole(Merged(prs[b])))
        BY WhatHolds DEF BumpsAreWhole
    <2>2. PICK pr \in PullRequests : pr = prs[b]
        BY <2>1, WhatHolds, Tags
    <2>3. Advance(pr.base, pr.head)
        BY <2>1, <2>2, WhatHolds DEF PrInv
    <2>4. Whole(pr.head)
        BY <2>3 DEF Advance
    <2>5. ASSUME Mergeable(pr)
          PROVE  Whole(Merged(pr))
        <3>1. PICK merged : merged = Merged(pr)
            OBVIOUS
        <3>2. main \in Trees /\ Whole(main)
            BY <2>1, WhatHolds
        <3>3. Whole(merged)
            BY <2>3, <2>5, <3>1, <3>2, MergeFacts
        <3>4. QED BY <3>1, <3>3
    <2>6. QED BY <2>2, <2>4, <2>5
<1>2. QED BY <1>1, BumpIsInvariant, PTL

\* The branch that lands with no one looking carries nothing that is a human's
\* to decide.
THEOREM DailyCorrect == Spec => []DailyIsInSeries
<1>1. BumpInvariant => DailyIsInSeries
    <2>1. SUFFICES ASSUME BumpInvariant, prs[Daily].open
                   PROVE  LET pr == prs[Daily]
                          IN  /\ Relocks(pr) = {}
                              /\ \A p \in Bumped(pr) :
                                     /\ p \notin ReviewOnly
                                     /\ pr.head.lock[p].version.num[1] = pr.base.lock[p].version.num[1]
        BY DEF DailyIsInSeries
    <2>2. prs[Daily] \in PullRequests
        BY <2>1, WhatHolds, BranchesApart, Tags
    <2>3. InSeries(prs[Daily].base, prs[Daily].head)
        BY <2>1, <2>2, WhatHolds, BranchesApart DEF PrInv
    <2>4. QED BY <2>3 DEF InSeries, Relocks, Bumped
<1>2. QED BY <1>1, BumpIsInvariant, PTL

\* What a pull request that lands leaves of main, and of what it changed.
LEMMA WhatLands ==
    ASSUME BumpInvariant, NEW branch \in Branches, Lands(branch)
    PROVE  /\ \A p \in Changed(prs[branch]) :
                   /\ main'.lock[p] = prs[branch].head.lock[p] /\ main'.hold[p] = prs[branch].head.hold[p]
                   /\ main.lock[p] = prs[branch].base.lock[p] /\ main.hold[p] = prs[branch].base.hold[p]
           /\ \A p \in Packages \ Changed(prs[branch]) :
                   main'.lock[p] = main.lock[p] /\ main'.hold[p] = main.hold[p]
           /\ \A p \in Bumped(prs[branch]) :
                   main'.lock[p] = prs[branch].head.lock[p] /\ main'.lock[p] # main.lock[p]
<1>1. PICK pr \in PullRequests : pr = prs[branch]
    BY LandsFacts
<1>2. Mergeable(pr) /\ Advance(pr.base, pr.head) /\ main' = Merged(pr)
    BY <1>1, LandsFacts
<1>3. PICK merged : merged = Merged(pr)
    OBVIOUS
<1>4. main \in Trees /\ Whole(main)
    BY WhatHolds
<1>5. /\ \A p \in Changed(pr) : merged.lock[p] = pr.head.lock[p] /\ merged.hold[p] = pr.head.hold[p]
      /\ \A p \in Packages \ Changed(pr) : merged.lock[p] = main.lock[p] /\ merged.hold[p] = main.hold[p]
    BY <1>2, <1>3, <1>4, MergeFacts
<1>6. main' = merged
    BY <1>2, <1>3
<1>7. \A p \in Changed(pr) : main.lock[p] = pr.base.lock[p] /\ main.hold[p] = pr.base.hold[p]
    BY <1>2 DEF Mergeable
<1>8. ASSUME NEW p \in Bumped(pr)
      PROVE  merged.lock[p] = pr.head.lock[p] /\ merged.lock[p] # main.lock[p]
    <2>1. p \in Changed(pr) /\ pr.head.lock[p] # pr.base.lock[p]
        BY DEF Bumped, Changed
    <2>2. QED BY <1>5, <1>7, <2>1
<1>9. QED BY <1>1, <1>5, <1>6, <1>7, <1>8

\* What a step may do to main.
LEMMA MainMovesBy ==
    ASSUME BumpInvariant, [Next]_vars, main' # main
    PROVE  \/ \E branch \in Branches : Lands(branch)
           \/ \E p \in Packages, version \in Versions : HumanMoves(p, version)
<1>1. CASE RunStep
    BY <1>1 DEF RunStep, Decide, ApplyOne, Applied, Verify, Open, DispatchGate
<1>2. CASE ~RunStep
    BY <1>2, BranchesApart
       DEF Next, vars, Schedule, Dispatch, GateLands, HumanLands, Release, GateTrims, Roll, Versions
<1>3. QED BY <1>1, <1>2

----------------------------------------------------------------------------
(* The holds *)

\* The releases of p among the first n.
Among(p, n) == {Shipped[i] : i \in ({1} \cup Comes[p]) \cap 1..n}

\* What a tree locks and holds is out, and what it holds a gate could refuse.
Out(tree, shipped) ==
    \A p \in Packages : /\ tree.lock[p].version \in Among(p, shipped[p])
                        /\ tree.hold[p] \subseteq Among(p, shipped[p]) \cap Within

\* A lock that moved is past what was held, and a hold that changed gave way to
\* something newer.
Passed(base, tree) ==
    \A p \in Packages :
        /\ tree.lock[p] # base.lock[p] =>
              \A u \in base.hold[p] : Above(tree.lock[p].version.num, u.num)
        /\ tree.hold[p] # base.hold[p] =>
              \A u \in base.hold[p] :
                  \E newer \in {tree.lock[p].version} \cup tree.hold[p] : Above(newer.num, u.num)

\* What the run may still apply to p.
Passes(p) ==
    /\ run.todo[p].latest \in Among(p, upstream.shipped[p])
    /\ \A u \in run.base.hold[p] : Above(run.todo[p].latest.num, u.num)

RunHolds ==
    /\ run \in Begun \cup Working => Out(run.base, upstream.shipped)
    /\ run \in Working => /\ Out(run.tree, upstream.shipped) /\ Passed(run.base, run.tree)
                          /\ \A p \in DOMAIN run.todo : Passes(p)

PrHolds(b) ==
    prs[b] \in PullRequests => /\ Out(prs[b].base, upstream.shipped) /\ Out(prs[b].head, upstream.shipped)
                               /\ Passed(prs[b].base, prs[b].head)

HoldInvariant ==
    Out(main, upstream.shipped) /\ RunHolds /\ \A b \in Branches : PrHolds(b)

\* Nothing is taken back.
LEMMA OutStaysOut ==
    ASSUME NEW tree, NEW before \in [Packages -> Nat], NEW after \in [Packages -> Nat],
           \A p \in Packages : before[p] <= after[p], Out(tree, before)
    PROVE  Out(tree, after)
<1>1. ASSUME NEW p \in Packages
      PROVE  Among(p, before[p]) \subseteq Among(p, after[p])
    <2>1. \A i \in 1..before[p] : i \in 1..after[p]
        OBVIOUS
    <2>2. QED BY <2>1 DEF Among
<1>2. QED BY <1>1 DEF Out

\* The first state.
LEMMA InitHolds ==
    ASSUME Init
    PROVE  HoldInvariant
<1>1. /\ main = FirstTree /\ run = Idle /\ prs = [b \in Branches |-> Closed]
      /\ \A p \in Packages : upstream.shipped[p] \in {1, 2}
    BY DEF Init
<1>2. Out(main, upstream.shipped)
    <2>1. ASSUME NEW p \in Packages
          PROVE  Shipped[1] \in Among(p, upstream.shipped[p])
        <3>1. 1 \in ({1} \cup Comes[p]) \cap 1..upstream.shipped[p]
            BY <1>1
        <3>2. QED BY <3>1 DEF Among
    <2>2. ASSUME NEW p \in Packages
          PROVE  main.lock[p].version = Shipped[1] /\ main.hold[p] = {}
        BY <1>1 DEF FirstTree
    <2>3. QED BY <2>1, <2>2 DEF Out
<1>3. RunHolds
    <2>1. run \notin Begun /\ run \notin Working
        BY <1>1, Phases, Tags
    <2>2. QED BY <2>1 DEF RunHolds
<1>4. \A b \in Branches : PrHolds(b)
    <2>1. Closed \notin PullRequests
        BY Tags
    <2>2. QED BY <1>1, <2>1 DEF PrHolds
<1>5. QED BY <1>2, <1>3, <1>4 DEF HoldInvariant

\* A step that touches no branch, nor main, nor the upstreams.
LEMMA OnlyTheRunHolds ==
    ASSUME HoldInvariant, UNCHANGED <<main, upstream, prs>>, RunHolds'
    PROVE  HoldInvariant'
BY DEF HoldInvariant, PrHolds

\* A step that leaves the run alone, and the upstreams.
LEMMA RunHoldsStays ==
    ASSUME HoldInvariant, UNCHANGED <<run, upstream>>
    PROVE  RunHolds'
BY DEF HoldInvariant, RunHolds, Passes

\* A run begins with main as it is.
LEMMA StartHolds ==
    ASSUME HoldInvariant, BumpInvariant, NEW only, NEW cycle, NEW by, NEW clear, Start(only, cycle, by, clear),
           UNCHANGED upstream
    PROVE  RunHolds'
<1>1. run' \notin Working /\ run'.base = main
    BY DEF Start, Working
<1>2. QED BY <1>1 DEF HoldInvariant, RunHolds

\* What a run decides to move is newer than what is held.
LEMMA DecideHolds ==
    ASSUME HoldInvariant, BumpInvariant, NEW readable, Decide(readable)
    PROVE  HoldInvariant'
<1> DEFINE considered(p) == Considered(p, readable, run.base)
           finals == {p \in Packages : run.only \in {"all", p} /\ Written(considered(p))}
           proposals == [p \in finals |-> Plan(considered(p))]
<1>1. run \in Begun /\ run.base \in Trees /\ Out(run.base, upstream.shipped)
    <2>1. run \in Begun
        BY WhatHolds, Phases DEF Decide
    <2>2. QED BY <2>1 DEF Begun, HoldInvariant, RunHolds
<1>2. ASSUME NEW p \in finals
      PROVE  /\ proposals[p].latest \in Among(p, upstream.shipped[p])
             /\ \A u \in run.base.hold[p] : Above(proposals[p].latest.num, u.num)
    <2>1. p \in Packages /\ Written(considered(p)) /\ proposals[p] = Plan(considered(p))
        OBVIOUS
    <2>2. PICK tree \in Trees : tree = run.base
        BY <1>1
    <2>3. PICK b : b = Considered(p, readable, tree)
        OBVIOUS
    <2>4. Written(b) /\ proposals[p] = Plan(b)
        BY <2>1, <2>2, <2>3
    <2> HIDE DEF considered, finals, proposals
    <2>5. /\ b.entry = [version |-> tree.lock[p].version, primary |-> tree.lock[p].primary,
                        mirror |-> FALSE, feed |-> tree.lock[p].feed]
          /\ b.cycle = run.cycle /\ b.held = tree.hold[p]
        BY <2>3, ConsideredEntry
    <2>6. b.only \in BOOLEAN /\ b.listing.released \in SUBSET Versions
        BY <2>1, <2>3, ConsideredFacts
    <2>7. b.listing.released = Among(p, upstream.shipped[p])
        <3> DEFINE released == Released(p)
        <3>1. b.listing.released = released
            BY <2>3 DEF Considered
        <3>2. QED BY <3>1 DEF Released, Among
    <2>8. tree.lock[p] \in Locks /\ tree.hold[p] \in Holds
        BY <2>1, PartsOfTree
    <2>9. /\ b.entry.version \in Versions /\ b.entry.primary \in {"gnome", "lookaside"}
          /\ b.entry.feed \in {"gnome", "none"} /\ b.entry.mirror = FALSE
        BY <2>5, <2>8 DEF Locks
    <2>10. PICK latest : latest = Plan(b).latest
        OBVIOUS
    <2>11. /\ latest \in Versions /\ Above(latest.num, b.entry.version.num)
           /\ latest \in b.listing.released /\ b.held # {latest}
           /\ \A w \in b.listing.released : ReleaseCycle(w) = ReleaseCycle(latest) => ~Above(w.num, latest.num)
        BY <2>4, <2>6, <2>9, <2>10, WrittenFacts DEF Proposals
    <2>12. ASSUME NEW u \in tree.hold[p]
           PROVE  Above(latest.num, u.num)
        <3>1. u \in Within /\ u \in b.listing.released
            BY <1>1, <2>1, <2>2, <2>7 DEF Out
        <3>2. tree.hold[p] = {u}
            BY <2>8 DEF Holds
        <3>3. u # latest
            BY <2>5, <2>11, <3>2
        <3>4. ReleaseCycle(u) = ReleaseCycle(latest) => ~Above(u.num, latest.num)
            BY <2>11, <3>1
        <3>5. QED BY <2>9, <2>11, <3>1, <3>3, <3>4, AboveWhatIsHeld
    <2>13. QED BY <2>2, <2>4, <2>7, <2>10, <2>11, <2>12
<1>3. DOMAIN proposals = finals
    OBVIOUS
<1>4. /\ run'.todo = proposals /\ run'.base = run.base /\ run'.tree = run.base /\ UNCHANGED <<main, upstream, prs>>
    BY DEF Decide
<1> HIDE DEF considered, finals, proposals
<1>5. Passed(run.base, run.base)
    BY DEF Passed
<1>6. \A p \in DOMAIN run'.todo : Passes(p)'
    BY <1>2, <1>3, <1>4 DEF Passes
<1>7. RunHolds'
    BY <1>1, <1>4, <1>5, <1>6 DEF RunHolds
<1>8. QED BY <1>4, <1>7, OnlyTheRunHolds

\* A package that is moved is moved past what is held.
LEMMA ApplyHolds ==
    ASSUME HoldInvariant, BumpInvariant, NEW p \in Packages, NEW fetched \in BOOLEAN, ApplyOne(p, fetched)
    PROVE  HoldInvariant'
<1>1. /\ run \in Working /\ run.base \in Trees /\ run.tree \in Trees /\ p \in DOMAIN run.todo
      /\ run.todo \in UNION {[S -> Proposals] : S \in SUBSET Packages}
    <2>1. run \in Working /\ p \in DOMAIN run.todo
        BY WhatHolds, Phases DEF ApplyOne
    <2>2. QED BY <2>1 DEF Working
<1>2. /\ Out(run.base, upstream.shipped) /\ Out(run.tree, upstream.shipped) /\ Passed(run.base, run.tree)
      /\ \A q \in DOMAIN run.todo : Passes(q)
    BY <1>1 DEF HoldInvariant, RunHolds
<1>3. PICK proposal \in Proposals : proposal = run.todo[p]
    BY <1>1
<1>4. PICK base \in Trees, tree \in Trees : base = run.base /\ tree = run.tree
    BY <1>1
<1>5. PICK result : result = Apply(p, tree, proposal, fetched)
    OBVIOUS
<1>6. PICK new : new = RetireHold(p, result)
    OBVIOUS
<1>7. PICK rest : rest = [q \in DOMAIN run.todo \ {p} |-> run.todo[q]]
    OBVIOUS
<1>8. run' = [run EXCEPT !.tree = new, !.applied = @ \/ result.ok, !.todo = rest]
    BY <1>3, <1>4, <1>5, <1>6, <1>7 DEF ApplyOne, GoesOn
<1>9. run'.base = run.base /\ run'.tree = new /\ run'.todo = rest
    BY <1>1, <1>8 DEF Working
<1>10. PICK digest : digest = Served(p, proposal.latest)
    OBVIOUS
<1>11. PICK entry : entry = PlannedEntry(tree.lock[p], proposal, digest)
    OBVIOUS
<1>12. PICK kept : kept = IF entry.primary = "lookaside" THEN tree.ratchet ELSE tree.ratchet \ {p}
    OBVIOUS
<1>13. PICK after : after = [lock |-> [tree.lock EXCEPT ![p] = entry],
                             spec |-> [tree.spec EXCEPT ![p] = proposal.latest],
                             pin |-> [tree.pin EXCEPT ![p] = digest], ratchet |-> kept,
                             hold |-> [tree.hold EXCEPT ![p] = {}]]
    OBVIOUS
<1>14. new = tree \/ new = after
    BY <1>5, <1>6, <1>10, <1>11, <1>12, <1>13, ApplyMoves, SMTT(40)
<1>15. /\ proposal.latest \in Among(p, upstream.shipped[p])
       /\ \A u \in base.hold[p] : Above(proposal.latest.num, u.num)
    BY <1>1, <1>2, <1>3, <1>4 DEF Passes
<1>16. ASSUME new = after
       PROVE  Out(new, upstream.shipped) /\ Passed(base, new)
    <2>1. tree.lock \in [Packages -> Locks] /\ tree.hold \in [Packages -> Holds]
        BY PartsOfTree
    <2>2. proposal.latest \in Versions
        BY DEF Proposals
    <2>3. digest \in Digests
        BY <1>10, <2>2, ServedFacts
    <2>4. entry.version = proposal.latest
        BY <1>11, <2>1, <2>3, PlannedEntryFacts
    <2>5. new.lock = [tree.lock EXCEPT ![p] = entry] /\ new.hold = [tree.hold EXCEPT ![p] = {}]
        BY <1>13, <1>16
    <2>6. /\ new.lock[p].version = proposal.latest /\ new.hold[p] = {}
          /\ \A q \in Packages \ {p} : new.lock[q] = tree.lock[q] /\ new.hold[q] = tree.hold[q]
        BY <2>1, <2>4, <2>5
    <2>7. Out(new, upstream.shipped)
        BY <1>2, <1>4, <1>15, <2>6 DEF Out
    <2>8. Passed(base, new)
        <3>1. ASSUME NEW q \in Packages, NEW u \in base.hold[q]
              PROVE  /\ new.lock[q] # base.lock[q] => Above(new.lock[q].version.num, u.num)
                     /\ new.hold[q] # base.hold[q] =>
                            \E newer \in {new.lock[q].version} \cup new.hold[q] : Above(newer.num, u.num)
            <4>1. CASE q = p
                BY <1>15, <2>6, <4>1
            <4>2. CASE q # p
                BY <1>2, <1>4, <2>6, <4>2 DEF Passed
            <4>3. QED BY <4>1, <4>2
        <3>2. QED BY <3>1 DEF Passed
    <2>9. QED BY <2>7, <2>8
<1>17. Out(new, upstream.shipped) /\ Passed(base, new)
    <2>1. CASE new = tree
        BY <1>2, <1>4, <2>1
    <2>2. QED BY <1>14, <1>16, <2>1
<1>18. \A q \in DOMAIN rest : q \in DOMAIN run.todo /\ rest[q] = run.todo[q]
    BY <1>7
<1>19. UNCHANGED <<main, upstream, prs>>
    BY DEF ApplyOne
<1>20. \A q \in DOMAIN run'.todo : Passes(q)'
    BY <1>2, <1>9, <1>18, <1>19 DEF Passes
<1>21. RunHolds'
    BY <1>2, <1>4, <1>9, <1>17, <1>19, <1>20 DEF RunHolds
<1>22. QED BY <1>19, <1>21, OnlyTheRunHolds

\* A run that goes on, or ends.
LEMMA MoveOnHolds ==
    ASSUME HoldInvariant, BumpInvariant, UNCHANGED upstream,
           run' = Idle \/ (run \in Working /\ \E at \in {"verify", "open", "gate"} : run' = [run EXCEPT !.at = at])
    PROVE  RunHolds'
<1>1. CASE run' = Idle
    <2>1. run' \notin Begun /\ run' \notin Working
        BY <1>1 DEF Idle, Begun, Working
    <2>2. QED BY <2>1 DEF RunHolds
<1>2. ASSUME run \in Working, NEW at \in {"verify", "open", "gate"}, run' = [run EXCEPT !.at = at]
      PROVE  RunHolds'
    <2>1. run'.base = run.base /\ run'.tree = run.tree /\ run'.todo = run.todo
        BY <1>2 DEF Working
    <2>2. QED BY <1>2, <2>1 DEF HoldInvariant, RunHolds, Passes
<1>3. QED BY <1>1, <1>2

\* A branch gets what the run has made, is closed, or stays.
LEMMA OpenHolds ==
    ASSUME HoldInvariant, BumpInvariant, Open
    PROVE  HoldInvariant'
<1>1. run \in Working
    BY WhatHolds, Phases DEF Open
<1>2. /\ Out(run.base, upstream.shipped) /\ Out(run.tree, upstream.shipped) /\ Passed(run.base, run.tree)
    BY <1>1 DEF HoldInvariant, RunHolds
<1>3. PICK branch : branch = BranchOf(run)
    OBVIOUS
<1>4. prs \in [Branches -> {Closed} \cup PullRequests] /\ branch \in Branches
    BY <1>1, <1>3, WhatHolds, WhereARunGoes
<1>5. PICK pr : pr = [open |-> TRUE, base |-> run.base, head |-> run.tree, gated |-> FALSE]
    OBVIOUS
<1>6. pr.base = run.base /\ pr.head = run.tree
    BY <1>5
<1>7. \E put \in {Closed, prs[branch], pr} : prs' = [prs EXCEPT ![branch] = put]
    <2>1. prs' = [prs EXCEPT ![branch] =
                      IF run.tree = run.base THEN Closed
                      ELSE IF prs[branch].open /\ prs[branch].base = run.base /\ prs[branch].head = run.tree
                           THEN prs[branch] ELSE pr]
        BY <1>3, <1>5 DEF Open
    <2>2. QED BY <2>1
<1>8. PICK put \in {Closed, prs[branch], pr} : prs' = [prs EXCEPT ![branch] = put]
    BY <1>7
<1>9. prs'[branch] = put /\ \A b \in Branches \ {branch} : prs'[b] = prs[b]
    BY <1>4, <1>8
<1>10. UNCHANGED <<main, upstream>>
    BY DEF Open
<1>11. ASSUME NEW b \in Branches
       PROVE  PrHolds(b)'
    <2>1. CASE prs'[b] = prs[b]
        BY <1>10, <2>1 DEF HoldInvariant, PrHolds
    <2>2. CASE prs'[b] = Closed
        <3>1. Closed \notin PullRequests
            BY Tags
        <3>2. QED BY <2>2, <3>1 DEF PrHolds
    <2>3. CASE prs'[b] = pr
        BY <1>2, <1>6, <1>10, <2>3 DEF PrHolds
    <2>4. QED BY <1>8, <1>9, <2>1, <2>2, <2>3
<1>12. RunHolds'
    BY <1>1, <1>10, MoveOnHolds DEF Open
<1>13. QED BY <1>10, <1>11, <1>12 DEF HoldInvariant

\* A gate that is called changes neither base nor head.
LEMMA DispatchGateHolds ==
    ASSUME HoldInvariant, BumpInvariant, DispatchGate
    PROVE  HoldInvariant'
<1>1. prs \in [Branches -> {Closed} \cup PullRequests] /\ Daily \in Branches
    BY WhatHolds, BranchesApart
<1>2. UNCHANGED <<main, upstream>> /\ RunHolds'
    BY MoveOnHolds DEF DispatchGate
<1>3. ASSUME NEW b \in Branches
      PROVE  PrHolds(b)'
    <2>1. CASE prs'[b] = prs[b]
        BY <1>2, <2>1 DEF HoldInvariant, PrHolds
    <2>2. CASE prs'[b] # prs[b]
        <3>1. b = Daily /\ prs[Daily].open /\ prs' = [prs EXCEPT ![Daily].gated = TRUE]
            BY <1>1, <2>2 DEF DispatchGate
        <3>2. PICK pr \in PullRequests : pr = prs[Daily]
            BY <1>1, <3>1, Tags
        <3>3. PICK put : put = [pr EXCEPT !.gated = TRUE]
            OBVIOUS
        <3>4. put.base = pr.base /\ put.head = pr.head
            BY <3>3 DEF PullRequests
        <3>5. prs'[b] = put
            BY <1>1, <3>1, <3>2, <3>3
        <3>6. QED BY <1>2, <3>1, <3>2, <3>4, <3>5 DEF HoldInvariant, PrHolds
    <2>3. QED BY <2>1, <2>2
<1>4. QED BY <1>2, <1>3 DEF HoldInvariant

\* A release that comes out is one more.
LEMMA ReleaseHolds ==
    ASSUME HoldInvariant, BumpInvariant, NEW p \in Packages, Release(p)
    PROVE  HoldInvariant'
<1>1. upstream \in [shipped : [Packages -> 1..4], rolled : SUBSET (Packages \X Versions)]
    BY WhatHolds, TheReleases
<1>2. PICK before \in [Packages -> Nat] : before = upstream.shipped
    BY <1>1
<1>3. PICK next \in Comes[p] : next > before[p] /\ upstream' = [upstream EXCEPT !.shipped[p] = next]
    BY <1>2 DEF Release
<1>4. next \in Nat
    BY BumpRunAssumption
<1>5. PICK after : after = [before EXCEPT ![p] = next]
    OBVIOUS
<1>6. after \in [Packages -> Nat] /\ \A q \in Packages : before[q] <= after[q]
    BY <1>3, <1>4, <1>5
<1>7. upstream'.shipped = after
    BY <1>1, <1>2, <1>3, <1>5
<1>8. \A tree : Out(tree, before) => Out(tree, after)
    BY <1>6, OutStaysOut
<1>9. \A q \in Packages : Among(q, before[q]) \subseteq Among(q, after[q])
    <2>1. \A q \in Packages : \A i \in 1..before[q] : i \in 1..after[q]
        BY <1>6
    <2>2. QED BY <2>1 DEF Among
<1>10. UNCHANGED <<main, run, prs>>
    BY DEF Release
<1>11. Out(main, upstream.shipped)'
    BY <1>2, <1>7, <1>8, <1>10 DEF HoldInvariant
<1>12. ASSUME NEW b \in Branches
       PROVE  PrHolds(b)'
    BY <1>2, <1>7, <1>8, <1>10 DEF HoldInvariant, PrHolds
<1>13. RunHolds'
    <2>1. ASSUME run \in Working, NEW q \in DOMAIN run.todo
          PROVE  Passes(q)'
        <3>1. q \in Packages
            BY <2>1 DEF Working
        <3>2. Passes(q)
            BY <2>1 DEF HoldInvariant, RunHolds
        <3>3. QED BY <1>2, <1>7, <1>9, <1>10, <3>1, <3>2 DEF Passes
    <2>2. QED BY <1>2, <1>7, <1>8, <1>10, <2>1 DEF HoldInvariant, RunHolds
<1>14. QED BY <1>11, <1>12, <1>13 DEF HoldInvariant

\* A tarball that is replaced is no release.
LEMMA RollHolds ==
    ASSUME HoldInvariant, BumpInvariant, NEW p \in Packages, NEW version \in Versions, Roll(p, version)
    PROVE  HoldInvariant'
<1>1. upstream \in [shipped : [Packages -> 1..Len(Shipped)], rolled : SUBSET (Packages \X Versions)]
    BY WhatHolds
<1>2. upstream'.shipped = upstream.shipped /\ UNCHANGED <<main, run, prs>>
    BY <1>1 DEF Roll
<1>3. QED BY <1>2 DEF HoldInvariant, RunHolds, PrHolds, Passes

\* What lands is of the branch or of main.
LEMMA LandsHolds ==
    ASSUME HoldInvariant, BumpInvariant, NEW branch \in Branches, Lands(branch)
    PROVE  HoldInvariant'
<1>1. PICK pr \in PullRequests : pr = prs[branch]
    BY LandsFacts
<1>2. Out(pr.head, upstream.shipped) /\ Out(main, upstream.shipped)
    BY <1>1 DEF HoldInvariant, PrHolds
<1>3. /\ \A p \in Changed(pr) : main'.lock[p] = pr.head.lock[p] /\ main'.hold[p] = pr.head.hold[p]
      /\ \A p \in Packages \ Changed(pr) : main'.lock[p] = main.lock[p] /\ main'.hold[p] = main.hold[p]
    BY <1>1, WhatLands
<1>4. UNCHANGED <<run, upstream>>
    BY DEF Lands
<1>5. Out(main', upstream.shipped)
    <2>1. ASSUME NEW p \in Packages
          PROVE  /\ main'.lock[p].version \in Among(p, upstream.shipped[p])
                 /\ main'.hold[p] \subseteq Among(p, upstream.shipped[p]) \cap Within
        BY <1>2, <1>3 DEF Out
    <2>2. QED BY <2>1 DEF Out
<1>6. ASSUME NEW b \in Branches
      PROVE  PrHolds(b)'
    <2>1. prs'[b] = Closed \/ prs'[b] = prs[b]
        BY LandsFacts
    <2>2. Closed \notin PullRequests
        BY Tags
    <2>3. QED BY <1>4, <2>1, <2>2 DEF HoldInvariant, PrHolds
<1>7. RunHolds'
    BY <1>4, RunHoldsStays
<1>8. QED BY <1>4, <1>5, <1>6, <1>7 DEF HoldInvariant

\* What the gate holds is newer than what was held, as the bump was.
LEMMA GateTrimsHolds ==
    ASSUME HoldInvariant, BumpInvariant, NEW p \in Packages, GateTrims(p)
    PROVE  HoldInvariant'
<1>1. prs \in [Branches -> {Closed} \cup PullRequests] /\ Daily \in Branches
    BY WhatHolds, BranchesApart
<1>2. PICK pr \in PullRequests : pr = prs[Daily]
    BY <1>1, Tags DEF GateTrims
<1>3. Advance(pr.base, pr.head) /\ InSeries(pr.base, pr.head)
    BY <1>1, <1>2, WhatHolds DEF PrInv
<1>4. PICK base \in Trees, head \in Trees : base = pr.base /\ head = pr.head
    BY Tags
<1>5. head.lock[p] # base.lock[p]
    BY <1>2, <1>4 DEF GateTrims, Bumped
<1>6. Out(base, upstream.shipped) /\ Out(head, upstream.shipped) /\ Passed(base, head)
    BY <1>1, <1>2, <1>4 DEF HoldInvariant, PrHolds
<1>7. PICK new : new = [head EXCEPT !.lock[p] = base.lock[p], !.spec[p] = base.spec[p],
                                    !.pin[p] = base.pin[p], !.hold[p] = {head.lock[p].version}]
    OBVIOUS
<1>8. /\ head.lock \in [Packages -> Locks] /\ base.lock \in [Packages -> Locks]
      /\ head.hold \in [Packages -> Holds]
    BY PartsOfTree
<1>9. /\ new.lock = [head.lock EXCEPT ![p] = base.lock[p]]
      /\ new.hold = [head.hold EXCEPT ![p] = {head.lock[p].version}]
    <2>1. head = [lock |-> head.lock, spec |-> head.spec, pin |-> head.pin,
                  ratchet |-> head.ratchet, hold |-> head.hold]
        BY PartsOfTree
    <2>2. new = [lock |-> [head.lock EXCEPT ![p] = base.lock[p]], spec |-> [head.spec EXCEPT ![p] = base.spec[p]],
                 pin |-> [head.pin EXCEPT ![p] = base.pin[p]], ratchet |-> head.ratchet,
                 hold |-> [head.hold EXCEPT ![p] = {head.lock[p].version}]]
        BY <1>7, <2>1, FourFields
    <2>3. QED BY <2>2
<1>10. /\ new.lock[p] = base.lock[p] /\ new.hold[p] = {head.lock[p].version}
       /\ \A q \in Packages \ {p} : new.lock[q] = head.lock[q] /\ new.hold[q] = head.hold[q]
    BY <1>8, <1>9
<1>11. head.lock[p].version \in Within
    <2>1. head.lock[p].version \in Versions /\ base.lock[p].version \in Versions
        BY <1>8 DEF Locks
    <2>2. Above(head.lock[p].version.num, base.lock[p].version.num)
        BY <1>3, <1>4, <1>5 DEF Advance
    <2>3. head.lock[p].version.num[1] = base.lock[p].version.num[1]
        BY <1>3, <1>4, <1>5 DEF InSeries
    <2>4. QED BY <2>1, <2>2, <2>3, AboveInItsCycle
<1>12. Out(new, upstream.shipped)
    BY <1>6, <1>10, <1>11 DEF Out
<1>13. Passed(base, new)
    <2>1. ASSUME NEW q \in Packages, NEW u \in base.hold[q]
          PROVE  /\ new.lock[q] # base.lock[q] => Above(new.lock[q].version.num, u.num)
                 /\ new.hold[q] # base.hold[q] =>
                        \E newer \in {new.lock[q].version} \cup new.hold[q] : Above(newer.num, u.num)
        <3>1. CASE q = p
            <4>1. Above(head.lock[p].version.num, u.num)
                BY <1>5, <1>6, <2>1, <3>1 DEF Passed
            <4>2. QED BY <1>10, <3>1, <4>1
        <3>2. CASE q # p
            BY <1>6, <1>10, <2>1, <3>2 DEF Passed
        <3>3. QED BY <3>1, <3>2
    <2>2. QED BY <2>1 DEF Passed
<1>14. PICK put : put = [pr EXCEPT !.head = new]
    OBVIOUS
<1>15. put.base = base /\ put.head = new
    BY <1>4, <1>14 DEF PullRequests
<1>16. prs' = [prs EXCEPT ![Daily].head = new] /\ UNCHANGED <<main, upstream, run>>
    BY <1>2, <1>4, <1>7 DEF GateTrims
<1>17. prs'[Daily] = put /\ \A b \in Branches \ {Daily} : prs'[b] = prs[b]
    BY <1>1, <1>2, <1>14, <1>16
<1>18. ASSUME NEW b \in Branches
       PROVE  PrHolds(b)'
    <2>1. CASE b # Daily
        BY <1>16, <1>17, <2>1 DEF HoldInvariant, PrHolds
    <2>2. CASE b = Daily
        BY <1>6, <1>12, <1>13, <1>15, <1>16, <1>17, <2>2 DEF PrHolds
    <2>3. QED BY <2>1, <2>2
<1>19. RunHolds'
    BY <1>16, RunHoldsStays
<1>20. QED BY <1>16, <1>18, <1>19 DEF HoldInvariant

\* A move by hand leaves the holds as they are.
LEMMA HumanMovesTree ==
    ASSUME BumpInvariant, NEW p \in Packages, NEW version \in Versions, HumanMoves(p, version)
    PROVE  /\ main'.hold = main.hold /\ main'.lock[p].version = version
           /\ \A q \in Packages \ {p} : main'.lock[q] = main.lock[q]
<1>1. PICK tree \in Trees : tree = main
    BY WhatHolds
<1>2. PICK digest : digest = Served(p, version)
    OBVIOUS
<1>3. PICK new : new = [tree EXCEPT !.lock[p].version = version, !.lock[p].digest = digest,
                                    !.spec[p] = version, !.pin[p] = digest]
    OBVIOUS
<1>4. main' = new
    BY <1>1, <1>2, <1>3 DEF HumanMoves
<1>5. tree.lock \in [Packages -> Locks]
    BY PartsOfTree
<1>6. tree = [lock |-> tree.lock, spec |-> tree.spec, pin |-> tree.pin,
              ratchet |-> tree.ratchet, hold |-> tree.hold]
    BY PartsOfTree
<1>7. PICK old \in Locks : old = tree.lock[p]
    BY <1>5
<1>8. PICK entry : entry = [old EXCEPT !.version = version, !.digest = digest]
    OBVIOUS
<1>9. entry.version = version
    BY <1>8 DEF Locks
<1>10. new = [lock |-> [tree.lock EXCEPT ![p] = entry],
              spec |-> [tree.spec EXCEPT ![p] = version], pin |-> [tree.pin EXCEPT ![p] = digest],
              ratchet |-> tree.ratchet, hold |-> tree.hold]
    BY <1>3, <1>5, <1>6, <1>7, <1>8, ReleaseFields
<1>11. new.hold = tree.hold /\ new.lock = [tree.lock EXCEPT ![p] = entry]
    BY <1>10
<1>12. QED BY <1>1, <1>4, <1>5, <1>9, <1>11

\* A recipe is moved by hand to what is out.
LEMMA HumanMovesHolds ==
    ASSUME HoldInvariant, BumpInvariant, NEW p \in Packages, NEW version \in Versions, HumanMoves(p, version)
    PROVE  HoldInvariant'
<1>1. /\ main'.hold = main.hold /\ main'.lock[p].version = version
      /\ \A q \in Packages \ {p} : main'.lock[q] = main.lock[q]
    BY HumanMovesTree
<1>2. version \in Among(p, upstream.shipped[p]) /\ UNCHANGED <<upstream, run, prs>>
    BY DEF HumanMoves, Released, Among
<1>3. Out(main, upstream.shipped)
    BY DEF HoldInvariant
<1>4. Out(main', upstream.shipped)
    BY <1>1, <1>2, <1>3 DEF Out
<1>5. \A b \in Branches : PrHolds(b)'
    BY <1>2 DEF HoldInvariant, PrHolds
<1>6. RunHolds'
    BY <1>2, RunHoldsStays
<1>7. QED BY <1>2, <1>4, <1>5, <1>6 DEF HoldInvariant

\* Every step of a run.
LEMMA RunStepHolds ==
    ASSUME HoldInvariant, BumpInvariant, RunStep
    PROVE  HoldInvariant'
<1>1. ASSUME NEW readable, Decide(readable)
      PROVE  HoldInvariant'
    BY <1>1, DecideHolds
<1>2. ASSUME NEW p \in Packages, NEW fetched \in BOOLEAN, ApplyOne(p, fetched)
      PROVE  HoldInvariant'
    BY <1>2, ApplyHolds
<1>3. CASE Applied
    <2>1. run \in Working
        BY <1>3, WhatHolds, Phases DEF Applied
    <2>2. RunHolds' /\ UNCHANGED <<main, upstream, prs>>
        BY <1>3, <2>1, MoveOnHolds DEF Applied
    <2>3. QED BY <2>2, OnlyTheRunHolds
<1>4. ASSUME NEW reached \in BOOLEAN, Verify(reached)
      PROVE  HoldInvariant'
    <2>1. run \in Working
        BY <1>4, WhatHolds, Phases DEF Verify
    <2>2. RunHolds' /\ UNCHANGED <<main, upstream, prs>>
        BY <1>4, <2>1, MoveOnHolds DEF Verify
    <2>3. QED BY <2>2, OnlyTheRunHolds
<1>5. QED BY <1>1, <1>2, <1>3, <1>4, OpenHolds, DispatchGateHolds DEF RunStep

\* Every step, then.
LEMMA HoldStep ==
    ASSUME HoldInvariant, BumpInvariant, [Next]_vars
    PROVE  HoldInvariant'
<1>1. ASSUME NEW clear \in BOOLEAN, Schedule(clear)
      PROVE  HoldInvariant'
    BY <1>1, StartHolds, OnlyTheRunHolds DEF Schedule
<1>2. CASE Dispatch
    BY <1>2, StartHolds, OnlyTheRunHolds DEF Dispatch
<1>3. CASE RunStep
    BY <1>3, RunStepHolds
<1>4. CASE GateLands
    BY <1>4, LandsHolds, BranchesApart DEF GateLands
<1>5. ASSUME NEW p \in Packages, Release(p) \/ GateTrims(p)
      PROVE  HoldInvariant'
    BY <1>5, ReleaseHolds, GateTrimsHolds
<1>6. ASSUME NEW p \in Packages, NEW version \in Versions, Roll(p, version) \/ HumanMoves(p, version)
      PROVE  HoldInvariant'
    BY <1>6, RollHolds, HumanMovesHolds
<1>7. ASSUME NEW branch \in Branches, HumanLands(branch)
      PROVE  HoldInvariant'
    BY <1>7, LandsHolds DEF HumanLands
<1>8. CASE UNCHANGED vars
    BY <1>8 DEF HoldInvariant, RunHolds, PrHolds, Passes, vars
<1>9. QED BY <1>1, <1>2, <1>3, <1>4, <1>5, <1>6, <1>7, <1>8 DEF Next, Versions

\* What is held gives way only to something newer, on main or held in its
\* place, whatever runs fail to apply and gates take out in between.
THEOREM HoldsCorrect == Spec => HoldsOutlastFailures
<1>1. ASSUME HoldInvariant, BumpInvariant, [Next]_vars
      PROVE  \A p \in Packages : main'.hold[p] # main.hold[p] =>
                 \A v \in main.hold[p] :
                     \E newer \in {main'.lock[p].version} \cup main'.hold[p] : Above(newer.num, v.num)
    <2>1. CASE main' = main
        BY <2>1
    <2>2. ASSUME NEW branch \in Branches, Lands(branch), NEW p \in Packages, main'.hold[p] # main.hold[p],
                 NEW v \in main.hold[p]
          PROVE  \E newer \in {main'.lock[p].version} \cup main'.hold[p] : Above(newer.num, v.num)
        <3>1. PICK pr \in PullRequests : pr = prs[branch]
            BY <1>1, <2>2, LandsFacts
        <3>2. Passed(pr.base, pr.head)
            BY <1>1, <2>2, <3>1 DEF HoldInvariant, PrHolds
        <3>3. p \in Changed(pr)
            BY <1>1, <2>2, <3>1, WhatLands
        <3>4. /\ main'.lock[p] = pr.head.lock[p] /\ main'.hold[p] = pr.head.hold[p]
              /\ main.hold[p] = pr.base.hold[p]
            BY <1>1, <2>2, <3>1, <3>3, WhatLands
        <3>5. \E newer \in {pr.head.lock[p].version} \cup pr.head.hold[p] : Above(newer.num, v.num)
            BY <2>2, <3>2, <3>4 DEF Passed
        <3>6. QED BY <3>4, <3>5
    <2>3. CASE \E p \in Packages, version \in Versions : HumanMoves(p, version)
        BY <1>1, <2>3, HumanMovesTree
    <2>4. QED BY <1>1, <2>1, <2>2, <2>3, MainMovesBy
<1>2. Spec => []HoldInvariant
    BY InitHolds, HoldStep, BumpIsInvariant, PTL DEF Spec
<1>3. QED BY <1>1, <1>2, BumpIsInvariant, PTL DEF Spec, HoldsOutlastFailures

----------------------------------------------------------------------------
(* The relocks *)

\* Which branches a step may change, and how.
LEMMA BranchesMoveBy ==
    ASSUME BumpInvariant, [Next]_vars, NEW b \in Branches, prs'[b] # prs[b], b # Daily
    PROVE  Lands(b) \/ (Open /\ BranchOf(run) = b)
<1>1. prs \in [Branches -> {Closed} \cup PullRequests] /\ Daily \in Branches
    BY WhatHolds, BranchesApart
<1>2. CASE Open
    <2>1. run \in Working /\ BranchOf(run) \in Branches
        BY <1>2, WhatHolds, Phases, WhereARunGoes DEF Open
    <2>2. \E put : prs' = [prs EXCEPT ![BranchOf(run)] = put]
        BY <1>2 DEF Open
    <2>3. QED BY <1>1, <1>2, <2>1, <2>2
<1>3. CASE DispatchGate
    <2>1. prs' = prs \/ \E put : prs' = [prs EXCEPT ![Daily] = put]
        BY <1>1, <1>3 DEF DispatchGate
    <2>2. QED BY <1>1, <2>1
<1>4. ASSUME NEW p \in Packages, GateTrims(p)
      PROVE  FALSE
    <2>1. \E put : prs' = [prs EXCEPT ![Daily] = put]
        BY <1>1, <1>4 DEF GateTrims
    <2>2. QED BY <1>1, <2>1
<1>5. ASSUME NEW branch \in Branches, Lands(branch)
      PROVE  branch = b
    BY <1>5, LandsFacts
<1>6. CASE RunStep
    BY <1>2, <1>3, <1>6 DEF RunStep, Decide, ApplyOne, Applied, Verify
<1>7. CASE ~RunStep
    BY <1>1, <1>4, <1>5, <1>7
       DEF Next, vars, Schedule, Dispatch, GateLands, HumanLands, Release, Roll, HumanMoves
<1>8. QED BY <1>6, <1>7

\* A relock stays on its branch until it lands, or a run for its own package
\* makes it anew.
THEOREM RelocksCorrect == Spec => RelockSurvives
<1>1. ASSUME BumpInvariant, [Next]_vars
      PROVE  \A b \in Branches \ {Cycle} :
                 prs[b].open => \A p \in Relocks(prs[b]) :
                     \/ prs'[b].open /\ p \in Relocks(prs'[b])
                     \/ main' # main /\ main'.lock[p] = prs[b].head.lock[p]
                     \/ run.only = p
    <2>1. SUFFICES ASSUME NEW b \in Branches \ {Cycle}, prs[b].open, NEW p \in Relocks(prs[b])
                   PROVE  \/ prs'[b].open /\ p \in Relocks(prs'[b])
                          \/ main' # main /\ main'.lock[p] = prs[b].head.lock[p]
                          \/ run.only = p
        OBVIOUS
    <2>2. prs[b] \in PullRequests
        BY <1>1, <2>1, WhatHolds, Tags
    <2>3. p \in Packages /\ p \in Bumped(prs[b])
        BY <2>1 DEF Relocks, Bumped
    <2>4. b # Daily
        BY <1>1, <2>1, <2>2, <2>3, WhatHolds DEF PrInv, InSeries, Relocks
    <2>5. b = <<"relock", p>>
        BY <1>1, <2>1, <2>2, <2>3, <2>4, WhatHolds DEF PrInv, Bumped
    <2>6. CASE prs'[b] = prs[b]
        BY <2>1, <2>6
    <2>7. CASE Lands(b)
        <3>1. main'.lock[p] = prs[b].head.lock[p] /\ main'.lock[p] # main.lock[p]
            BY <1>1, <2>3, <2>7, WhatLands
        <3>2. QED BY <3>1
    <2>8. CASE Open /\ BranchOf(run) = b
        <3>1. run \in Working
            BY <1>1, <2>8, WhatHolds, Phases DEF Open
        <3>2. b = <<"relock", run.only>>
            BY <1>1, <2>1, <2>4, <2>8, <3>1, WhereARunGoes
        <3>3. QED BY <2>5, <3>2
    <2>9. QED BY <1>1, <2>4, <2>6, <2>7, <2>8, BranchesMoveBy
<1>2. QED BY <1>1, BumpIsInvariant, PTL DEF Spec, RelockSurvives
=============================================================================
