----------------------------- MODULE VeilProofs -----------------------------
(***************************************************************************)
(* Theorems about the Veil commands.                                       *)
(*                                                                         *)
(* First the torrc, for every file system, every way its files include each*)
(* other, every bound on the nesting, and however they are edited while    *)
(* they are read; then that Veil implements Torrc, so that what holds of   *)
(* every reading holds of the reading inside a command, among all its other*)
(* probes; then that an undisturbed reading finds the text of the torrc and*)
(* that its options mean what the last words on them say; then that a      *)
(* reading with one file edited under it finds what the torrc means before *)
(* the edit or after it; then what planner, reports and doctor make of the *)
(* replies, on every machine and whatever one thing changes under them.    *)
(***************************************************************************)
EXTENDS Veil, TLAPS, SequenceTheorems, WellFoundedInduction

----------------------------------------------------------------------------
(* Reading the torrc                                                       *)

\* What can stand on todo.
Lines == Said \cup {VisitLine(p) : p \in Paths}
Items == [line : Lines, path : Paths, chain : SUBSET Paths, depth : Nat]

\* A line of a file is looked at only where the file itself was not refused.
Admitted(item) ==
    /\ item.chain \cap Outside = {}
    /\ item.depth <= MaxIncludeDepth + 1
    /\ item.line.kind # "visit" => item.path \notin Outside /\ item.depth <= MaxIncludeDepth

TypeOK ==
    /\ fs \in [Paths -> Entries]
    /\ todo \in Seq(Items)
    /\ lines \in Seq([said : Lines, in : Paths])

IInv ==
    /\ TypeOK
    /\ \A i \in DOMAIN todo : Admitted(todo[i])
    /\ \A i \in DOMAIN lines : lines[i].in \notin Outside

\* Whatever an entry is, its body is a sequence of lines.
LEMMA BodyIsLines ==
    \A entry \in Entries : entry.body \in Seq(Lines) /\ entry.kind \in {"file", "dir", "absent"}
<1> SUFFICES ASSUME NEW entry \in Entries
             PROVE  entry.body \in Seq(Lines) /\ entry.kind \in {"file", "dir", "absent"}
  OBVIOUS
<1>1. CASE \E f \in Files : entry = File(f)
  BY <1>1, ContentsAssumption DEF File, Lines
<1>2. CASE \E d \in Dirs : entry = Dir(d)
  <2>1. PICK d \in Dirs : entry = Dir(d)
    BY <1>2
  <2>2. d \in Seq(Paths)
    BY ContentsAssumption
  <2>3. [i \in DOMAIN d |-> VisitLine(d[i])] \in Seq(Lines)
    BY <2>2 DEF Lines
  <2>4. QED
    BY <2>1, <2>3 DEF Dir
<1>3. CASE entry = Absent
  BY <1>3 DEF Absent
<1>4. QED
  BY <1>1, <1>2, <1>3 DEF Entries

\* Every line but a directive names a path.
LEMMA LinesNamePaths == \A line \in Lines : line.kind # "directive" => line.of \in Paths
BY ContentsAssumption DEF Lines, VisitLine

\* A directory holds paths.
LEMMA DirectoriesHoldPaths ==
    ASSUME NEW entry \in Entries, entry.kind = "dir", NEW i \in DOMAIN entry.body
    PROVE  entry.body[i].of \in Paths
<1>1. PICK d \in Dirs : entry = Dir(d)
  BY DEF Entries, File, Absent
<1>2. d \in Seq(Paths)
  BY ContentsAssumption
<1>3. entry.body = [j \in DOMAIN d |-> VisitLine(d[j])]
  BY <1>1 DEF Dir
<1>4. i \in DOMAIN d /\ entry.body[i] = VisitLine(d[i])
  BY <1>3
<1>5. QED
  BY <1>2, <1>4 DEF VisitLine

\* One include deeper, or passed over: what is admitted stays so.
LEMMA DeeperIsAdmitted ==
    ASSUME NEW item, item.chain \in SUBSET Paths, item.chain \cap Outside = {},
           item.depth \in Nat, item.depth <= MaxIncludeDepth, NEW p \in Paths
    PROVE  /\ Enter(item, p) \in Items /\ Admitted(Enter(item, p))
           /\ PassOver(item, p) \in Items /\ Admitted(PassOver(item, p))
<1>1. VisitLine(p) \in Lines /\ VisitLine(p).kind = "visit"
  BY DEF Lines, VisitLine
<1>2. item.depth + 1 \in Nat /\ MaxIncludeDepth + 1 \in Nat /\ item.depth + 1 <= MaxIncludeDepth + 1
  BY PathsAssumption
<1>3. Enter(item, p) \in Items /\ PassOver(item, p) \in Items
  BY <1>1, <1>2 DEF Enter, PassOver, Item, Items
<1>4. /\ Enter(item, p).line = VisitLine(p) /\ Enter(item, p).chain = item.chain
      /\ Enter(item, p).depth = item.depth + 1
      /\ PassOver(item, p).line = VisitLine(p) /\ PassOver(item, p).chain = item.chain
      /\ PassOver(item, p).depth = MaxIncludeDepth + 1
  BY DEF Enter, PassOver, Item
<1>5. QED
  BY <1>1, <1>2, <1>3, <1>4 DEF Admitted

\* What comes of a path that is looked at: items that are admitted.
LEMMA ResolvedIsAdmitted ==
    ASSUME TypeOK, NEW item \in Items, Admitted(item)
    PROVE  /\ Resolved(item) \in Seq(Items)
           /\ \A i \in DOMAIN Resolved(item) : Admitted(Resolved(item)[i])
<1> DEFINE inside == [item EXCEPT !.chain = @ \cup {item.path}]
           entry  == fs[item.path]
<1>1. CASE Refused(item)
  BY <1>1 DEF Resolved
<1>2. CASE ~Refused(item)
  <2>1. /\ inside.chain \in SUBSET Paths /\ inside.chain \cap Outside = {}
        /\ item.path \in Paths \ Outside /\ item.depth \in Nat /\ item.depth <= MaxIncludeDepth
    BY <1>2, PathsAssumption DEF Items, Refused, Admitted
  <2>2. entry \in Entries
    BY DEF TypeOK, Items
  <2>3. entry.body \in Seq(Lines)
    BY <2>2, BodyIsLines
  <2>4. CASE entry.kind = "dir"
    <3>1. \A i \in DOMAIN entry.body : entry.body[i].of \in Paths
      <4> HIDE DEF entry
      <4> QED
        BY <2>2, <2>4, DirectoriesHoldPaths
    <3>2. Resolved(item) = Children(inside, entry.body, PlainFiles)
      BY <1>2, <2>4 DEF Resolved
    <3>3. \A p \in Paths : /\ Enter(inside, p) \in Items /\ Admitted(Enter(inside, p))
                           /\ PassOver(inside, p) \in Items /\ Admitted(PassOver(inside, p))
      <4>1. inside.depth = item.depth
        BY DEF Items
      <4> HIDE DEF inside
      <4>2. QED
        BY <2>1, <4>1, DeeperIsAdmitted
    <3> HIDE DEF inside, entry
    <3>4. QED
      BY <2>3, <3>1, <3>2, <3>3 DEF Children
  <2>5. CASE entry.kind # "dir"
    <3> DEFINE part(i) == Item(entry.body[i], item.path, inside.chain, item.depth)
    <3>1. Resolved(item) = [i \in DOMAIN entry.body |-> part(i)]
      BY <1>2, <2>5 DEF Resolved
    <3>2. \A i \in DOMAIN entry.body : part(i) \in Items /\ Admitted(part(i))
      <4> HIDE DEF inside, entry
      <4>1. QED
        BY <2>1, <2>3, PathsAssumption DEF Item, Items, Admitted
    <3> HIDE DEF inside, entry, part
    <3>3. QED
      BY <2>3, <3>1, <3>2
  <2>6. QED
    BY <2>4, <2>5
<1>3. QED
  BY <1>1, <1>2

\* What comes of a wildcard in a file that is read: items that are admitted.
LEMMA MatchesAreAdmitted ==
    ASSUME TypeOK, NEW item \in Items, Admitted(item), item.line.kind = "wildcard"
    PROVE  /\ Matches(item) \in Seq(Items)
           /\ \A i \in DOMAIN Matches(item) : Admitted(Matches(item)[i])
<1> DEFINE entry == fs[item.line.of]
<1>1. CASE item.line.of \in Outside \/ entry.kind # "dir"
  BY <1>1 DEF Matches
<1>2. CASE ~(item.line.of \in Outside \/ entry.kind # "dir")
  <2>1. item.line.of \in Paths
    BY LinesNamePaths DEF Items
  <2>2. entry \in Entries /\ entry.body \in Seq(Lines)
    BY <2>1, BodyIsLines DEF TypeOK
  <2>3. \A i \in DOMAIN entry.body : entry.body[i].of \in Paths
    <3> HIDE DEF entry
    <3> QED
      BY <1>2, <2>2, DirectoriesHoldPaths
  <2>4. \A p \in Paths : /\ Enter(item, p) \in Items /\ Admitted(Enter(item, p))
                         /\ PassOver(item, p) \in Items /\ Admitted(PassOver(item, p))
    <3>1. /\ item.chain \in SUBSET Paths /\ item.chain \cap Outside = {}
          /\ item.depth \in Nat /\ item.depth <= MaxIncludeDepth
      BY DEF Items, Admitted
    <3>2. QED
      BY <3>1, DeeperIsAdmitted
  <2>5. Matches(item) = Children(item, entry.body, item.line.match)
    BY <1>2 DEF Matches
  <2> HIDE DEF entry
  <2>6. QED
    BY <2>2, <2>3, <2>4, <2>5 DEF Children
<1>3. QED
  BY <1>1, <1>2

\* Replacing the head of todo by items that are admitted leaves all admitted.
LEMMA ReplacedHeadIsAdmitted ==
    ASSUME IInv, todo # <<>>, NEW new \in Seq(Items),
           \A i \in DOMAIN new : Admitted(new[i]), todo' = new \o Tail(todo)
    PROVE  todo' \in Seq(Items) /\ \A i \in DOMAIN todo' : Admitted(todo'[i])
<1>1. Tail(todo) \in Seq(Items) /\ \A i \in DOMAIN Tail(todo) : Admitted(Tail(todo)[i])
  BY DEF IInv, TypeOK
<1>2. QED
  BY <1>1

\* One step of reading, by whatever replaces the head of todo.
LEMMA ReadKeepsIInv == ASSUME IInv, Read PROVE IInv'
<1> USE DEF Next1
<1>1. todo # <<>> /\ Head(todo) \in Items /\ Admitted(Head(todo)) /\ TypeOK /\ UNCHANGED fs
  <2>1. todo # <<>> /\ UNCHANGED fs
    BY DEF Read, Visit, FollowInclude, ExpandWildcard, Keep
  <2>2. todo \in Seq(Items) /\ TypeOK
    BY DEF IInv, TypeOK
  <2>3. Head(todo) = todo[1] /\ 1 \in DOMAIN todo /\ todo[1] \in Items
    BY <2>1, <2>2
  <2>4. QED
    BY <2>1, <2>2, <2>3 DEF IInv
<1>2. CASE Visit
  <2>1. todo' \in Seq(Items) /\ \A i \in DOMAIN todo' : Admitted(todo'[i])
    <3> DEFINE new == Resolved(Head(todo))
    <3>1. todo' = new \o Tail(todo)
      BY <1>2 DEF Visit
    <3>2. new \in Seq(Items) /\ \A i \in DOMAIN new : Admitted(new[i])
      BY <1>1, <3>1, ResolvedIsAdmitted
    <3> HIDE DEF new
    <3>3. QED
      BY <1>1, <3>1, <3>2, ReplacedHeadIsAdmitted
  <2>2. QED
    BY <1>1, <1>2, <2>1 DEF IInv, TypeOK, Visit
<1>3. CASE FollowInclude
  <2> DEFINE item == Head(todo)
             new == <<Enter(item, item.line.of)>>
  <2>1. item.line.of \in Paths
    BY <1>1, <1>3, LinesNamePaths DEF FollowInclude, Items
  <2>2. /\ item.chain \in SUBSET Paths /\ item.chain \cap Outside = {}
        /\ item.depth \in Nat /\ item.depth <= MaxIncludeDepth
    BY <1>1, <1>3 DEF FollowInclude, Items, Admitted
  <2>3. new \in Seq(Items) /\ \A i \in DOMAIN new : Admitted(new[i])
    <3>1. Enter(item, item.line.of) \in Items /\ Admitted(Enter(item, item.line.of))
      BY <2>1, <2>2, DeeperIsAdmitted
    <3>2. QED
      BY <3>1
  <2>4. todo' = new \o Tail(todo) /\ UNCHANGED lines
    BY <1>3 DEF FollowInclude
  <2>5. todo' \in Seq(Items) /\ \A i \in DOMAIN todo' : Admitted(todo'[i])
    <3> HIDE DEF new
    <3> QED
      BY <1>1, <2>3, <2>4, ReplacedHeadIsAdmitted
  <2>6. QED
    BY <1>1, <2>4, <2>5 DEF IInv, TypeOK
<1>4. CASE ExpandWildcard
  <2>1. todo' \in Seq(Items) /\ \A i \in DOMAIN todo' : Admitted(todo'[i])
    <3> DEFINE new == Matches(Head(todo))
    <3>1. todo' = new \o Tail(todo) /\ Head(todo).line.kind = "wildcard"
      BY <1>4 DEF ExpandWildcard
    <3>2. new \in Seq(Items) /\ \A i \in DOMAIN new : Admitted(new[i])
      BY <1>1, <3>1, MatchesAreAdmitted
    <3> HIDE DEF new
    <3>3. QED
      BY <1>1, <3>1, <3>2, ReplacedHeadIsAdmitted
  <2>2. QED
    BY <1>1, <1>4, <2>1 DEF IInv, TypeOK, ExpandWildcard
<1>5. CASE Keep
  <2>1. /\ todo' = <<>> \o Tail(todo)
        /\ lines' = Append(lines, [said |-> Head(todo).line, in |-> Head(todo).path])
        /\ Head(todo).line.kind = "directive"
    BY <1>5 DEF Keep
  <2>2. todo' \in Seq(Items) /\ \A i \in DOMAIN todo' : Admitted(todo'[i])
    <3> DEFINE new == <<>>
    <3>1. new \in Seq(Items) /\ \A i \in DOMAIN new : Admitted(new[i])
      OBVIOUS
    <3>2. todo' = new \o Tail(todo)
      BY <2>1
    <3> HIDE DEF new
    <3>3. QED
      BY <1>1, <3>1, <3>2, ReplacedHeadIsAdmitted
  <2>3. [said |-> Head(todo).line, in |-> Head(todo).path] \in [said : Lines, in : Paths]
    BY <1>1 DEF Items
  <2>4. Head(todo).path \notin Outside
    BY <1>1, <2>1 DEF Admitted
  <2>5. lines \in Seq([said : Lines, in : Paths]) /\ \A i \in DOMAIN lines : lines[i].in \notin Outside
    BY DEF IInv, TypeOK
  <2>6. lines' \in Seq([said : Lines, in : Paths]) /\ \A i \in DOMAIN lines' : lines'[i].in \notin Outside
    BY <2>1, <2>3, <2>4, <2>5
  <2>7. QED
    BY <1>1, <2>2, <2>6 DEF IInv, TypeOK
<1>6. QED
  BY <1>2, <1>3, <1>4, <1>5 DEF Read

\* Every step of the reader or of an editor keeps the invariant.
LEMMA StepKeepsIInv == ASSUME IInv, [ReadNext]_readVars PROVE IInv'
<1>1. CASE Begin
  <2> DEFINE first == Item(VisitLine(Main), Main, {}, 0)
  <2>1. first \in Items /\ Admitted(first)
    BY PathsAssumption DEF Item, Items, Lines, VisitLine, Admitted
  <2>2. todo' \in {<<>>, <<first>>} /\ lines' = <<>> /\ UNCHANGED fs
    BY <1>1 DEF Begin
  <2> HIDE DEF first
  <2>3. todo' \in Seq(Items) /\ \A i \in DOMAIN todo' : Admitted(todo'[i])
    <3>1. CASE todo' = <<>>
      BY <3>1
    <3>2. CASE todo' = <<first>>
      <4>1. <<first>> \in Seq(Items) /\ DOMAIN <<first>> = {1} /\ <<first>>[1] = first
        BY <2>1
      <4>2. QED
        BY <2>1, <3>2, <4>1
    <3>3. QED
      BY <2>2, <3>1, <3>2
  <2>4. QED
    BY <2>2, <2>3 DEF IInv, TypeOK
<1>2. CASE Read
  BY <1>2, ReadKeepsIInv
<1>3. CASE Edit
  BY <1>3 DEF Edit, IInv, TypeOK
<1>4. CASE UNCHANGED readVars
  BY <1>4 DEF readVars, IInv, TypeOK
<1>5. QED
  BY <1>1, <1>2, <1>3, <1>4 DEF ReadNext

\* The invariant holds before anything is read and in every state after.
THEOREM Invariance == ReadSpec => []IInv
<1>1. ReadInit => IInv
  BY DEF ReadInit, IInv, TypeOK
<1>2. IInv /\ [ReadNext]_readVars => IInv'
  BY StepKeepsIInv
<1>3. QED
  BY <1>1, <1>2, PTL DEF ReadSpec

\* tor.py:104, _is_within_root: nothing is ever read that resolves outside
\* the root, whatever the files include and however they are edited.
THEOREM NothingOutsideIsRead == ReadSpec => []StaysInRoot
<1>1. IInv => StaysInRoot
  BY DEF IInv, StaysInRoot, Admitted
<1>2. QED
  BY <1>1, Invariance, PTL

\* tor.py:88, _MAX_INCLUDE_DEPTH: the recursion is never deeper than the
\* bound and the one call that refuses to go on.
THEOREM RecursionIsBounded == ReadSpec => []NestingIsBounded
<1>1. IInv => NestingIsBounded
  BY DEF IInv, NestingIsBounded, Admitted
<1>2. QED
  BY <1>1, Invariance, PTL

----------------------------------------------------------------------------
(* Veil implements Torrc                                                   *)

\* A change on the machine edits the torrc or leaves the reading alone.
LEMMA OthersAreEdits == ASSUME Others PROVE [ReadNext]_readVars
<1>1. CASE EditTorrc
  <2>1. PICK e \in Edits : Change([World EXCEPT !.fs[e.path] = e.entry])
    BY <1>1 DEF EditTorrc
  <2>2. [World EXCEPT !.fs[e.path] = e.entry].fs = [fs EXCEPT ![e.path] = e.entry]
    BY DEF World
  <2>3. fs' = [fs EXCEPT ![e.path] = e.entry] /\ UNCHANGED <<todo, lines>>
    BY <2>1, <2>2 DEF Change
  <2>4. e.path \in Paths /\ e.entry \in Entries
    BY VeilAssumption
  <2>5. QED
    BY <2>3, <2>4 DEF ReadNext, Edit
<1>2. CASE RunTor
  BY <1>2 DEF RunTor, Change, World, readVars
<1>3. CASE TakePort
  BY <1>3 DEF TakePort, Change, World, readVars
<1>4. CASE \E things \in Toggles : Toggle(things)
  BY <1>4 DEF Toggle, Change, World, readVars
<1>5. QED
  BY <1>1, <1>2, <1>3, <1>4 DEF Others

\* Each step of a command, or of the machine, is a step of Torrc or none.
LEMMA StepsAreReadSteps == ASSUME [Next]_veilVars PROVE [ReadNext]_readVars
<1>1. CASE \E c \in Commands : Start(c)
  BY <1>1 DEF Start
<1>2. CASE Ask
  BY <1>2 DEF Ask
<1>3. CASE TimeOut
  BY <1>3 DEF TimeOut
<1>4. CASE BeginRead
  BY <1>4 DEF BeginRead, ReadNext
<1>5. CASE ReadOn
  BY <1>5 DEF ReadOn, ReadNext
<1>6. CASE EndRead
  BY <1>6 DEF EndRead
<1>7. CASE PutAway
  BY <1>7 DEF PutAway
<1>8. CASE Others
  BY <1>8, OthersAreEdits
<1>9. CASE UNCHANGED veilVars
  BY <1>9 DEF veilVars, readVars
<1>10. QED
  BY <1>1, <1>2, <1>3, <1>4, <1>5, <1>6, <1>7, <1>8, <1>9 DEF Next, Step

\* `serein veil plan` and `serein veil capabilities` read the torrc as Torrc
\* says: the refinement that carries its theorems over.
THEOREM VeilReadsLikeTorrc == Spec => ReadSpec
<1>1. Init => ReadInit
  BY VeilAssumption DEF Init, ReadInit
<1>2. [Next]_veilVars => [ReadNext]_readVars
  BY StepsAreReadSteps
<1>3. QED
  BY <1>1, <1>2, PTL DEF Spec, ReadSpec

\* tor.py:104, _is_within_root: inside a command too, whatever the files
\* include and whatever changes while it runs, nothing outside the root is read.
THEOREM VeilStaysInRoot == Spec => []StaysInRoot
BY VeilReadsLikeTorrc, NothingOutsideIsRead, PTL

----------------------------------------------------------------------------
(* Texts put together                                                      *)

\* A set of numbers has a least one.
LEMMA Least ==
    ASSUME NEW T \in SUBSET Nat, T # {}
    PROVE  \E n \in T : \A k \in T : n <= k
<1>1. PICK n \in T : \A k \in T : ~ (<<k, n>> \in OpToRel(<, Nat))
  BY WFMin, NatLessThanWellFounded, Zenon
<1>2. \A k \in T : ~ (k < n)
  BY <1>1, Zenon DEF OpToRel
<1>3. QED
  BY <1>2

\* f holds the first 1, 2, ..., n of some texts put together.
Joins(f, texts, n) ==
    f = [i \in 1..n |-> IF i = 1 THEN texts[i] ELSE f[i - 1] \o texts[i]]

\* There is such an f, one text at a time.
LEMMA JoinsExist ==
    ASSUME NEW texts, NEW n \in Nat
    PROVE  \E f : Joins(f, texts, n)
<1> DEFINE T == {k \in Nat : ~ \E f : Joins(f, texts, k)}
<1>1. SUFFICES ASSUME T # {} PROVE FALSE
  OBVIOUS
<1>2. PICK k \in T : \A l \in T : k <= l
  BY <1>1, Least
<1>3. k # 0
  <2>1. Joins([i \in 1..0 |-> <<>>], texts, 0)
    BY DEF Joins
  <2>2. QED
    BY <2>1
<1>4. k - 1 \in Nat /\ k - 1 \notin T
  BY <1>2, <1>3
<1>5. PICK f : Joins(f, texts, k - 1)
  BY <1>4
<1> DEFINE g == [i \in 1..k |->
                   IF i < k THEN f[i] ELSE IF i = 1 THEN texts[i] ELSE f[i - 1] \o texts[i]]
<1>6. \A i \in 1..k : i # 1 => g[i - 1] = f[i - 1]
  OBVIOUS
<1>7. \A i \in 1..k : g[i] = IF i = 1 THEN texts[i] ELSE g[i - 1] \o texts[i]
  <2> SUFFICES ASSUME NEW i \in 1..k
               PROVE  g[i] = IF i = 1 THEN texts[i] ELSE g[i - 1] \o texts[i]
    OBVIOUS
  <2>1. CASE i = k
    BY <2>1, <1>3, <1>6
  <2>2. CASE i # k
    <3>1. i \in 1..(k - 1) /\ g[i] = f[i]
      BY <2>2
    <3>2. f[i] = IF i = 1 THEN texts[i] ELSE f[i - 1] \o texts[i]
      BY <1>5, <3>1 DEF Joins
    <3>3. QED
      BY <1>6, <3>1, <3>2
  <2>3. QED
    BY <2>1, <2>2
<1>8. Joins(g, texts, k)
  <2> DEFINE h == [i \in 1..k |-> IF i = 1 THEN texts[i] ELSE g[i - 1] \o texts[i]]
  <2>1. \A i \in 1..k : g[i] = h[i]
    <3> HIDE DEF g
    <3>1. QED
      BY <1>7
  <2>2. g = h
    BY <2>1
  <2>3. QED
    BY <2>2 DEF Joins
<1>9. QED
  BY <1>8

\* So the last of them is what the texts flatten to.
LEMMA FlattenJoins ==
    ASSUME NEW S, NEW texts \in Seq(Seq(S))
    PROVE  \E f : /\ Joins(f, texts, Len(texts))
                  /\ FlattenSeq(texts) = IF Len(texts) = 0 THEN <<>> ELSE f[Len(texts)]
                  /\ \A i \in 1..Len(texts) : f[i] \in Seq(S)
<1> DEFINE f == CHOOSE g : Joins(g, texts, Len(texts))
<1>1. Joins(f, texts, Len(texts))
  <2>1. \E g : Joins(g, texts, Len(texts))
    BY JoinsExist, Len(texts) \in Nat
  <2>2. QED
    BY <2>1
<1>2. Len(texts) # 0 => FlattenSeq(texts) = f[Len(texts)]
  BY DEF FlattenSeq, Joins
<1>3. Len(texts) = 0 => FlattenSeq(texts) = <<>>
  <2>1. Len(texts) = 0 => texts = <<>>
    BY EmptySeq
  <2>2. QED
    BY <2>1 DEF FlattenSeq
<1> HIDE DEF f
<1> DEFINE T == {i \in 1..Len(texts) : f[i] \notin Seq(S)}
<1>4. T = {}
  <2>1. SUFFICES ASSUME T # {} PROVE FALSE
    OBVIOUS
  <2>2. PICK n \in T : \A k \in T : n <= k
    <3>1. T \in SUBSET Nat
      OBVIOUS
    <3> HIDE DEF T
    <3>2. QED
      BY <2>1, <3>1, Least
  <2>3. f[n] = IF n = 1 THEN texts[n] ELSE f[n - 1] \o texts[n]
    BY <1>1 DEF Joins
  <2>4. texts[n] \in Seq(S) /\ (n # 1 => f[n - 1] \in Seq(S))
    BY <2>2
  <2>5. \A s, t \in Seq(S) : s \o t \in Seq(S)
    OBVIOUS
  <2>6. f[n] \in Seq(S)
    BY <2>3, <2>4, <2>5
  <2>7. QED
    BY <2>6
<1>5. QED
  BY <1>1, <1>2, <1>3, <1>4

\* What texts flatten to is a text.
LEMMA FlattenIsText ==
    ASSUME NEW S, NEW texts \in Seq(Seq(S))
    PROVE  FlattenSeq(texts) \in Seq(S)
BY FlattenJoins

\* One text flattens to itself, and no text to none.
LEMMA FlattenFew ==
    ASSUME NEW S, NEW text \in Seq(S)
    PROVE  FlattenSeq(<<text>>) = text /\ FlattenSeq(<<>>) = <<>>
<1>1. FlattenSeq(<<>>) = <<>>
  BY DEF FlattenSeq
<1>2. <<text>> \in Seq(Seq(S)) /\ Len(<<text>>) = 1 /\ <<text>>[1] = text
  OBVIOUS
<1> DEFINE one == <<text>>
<1> HIDE DEF one
<1>3. PICK f : /\ Joins(f, one, Len(one))
               /\ FlattenSeq(one) = IF Len(one) = 0 THEN <<>> ELSE f[Len(one)]
  BY <1>2, FlattenJoins DEF one
<1>4. FlattenSeq(one) = f[1] /\ f[1] = text
  BY <1>2, <1>3 DEF Joins, one
<1>5. QED
  BY <1>1, <1>3, <1>4 DEF one

\* How texts are put together does not matter.
LEMMA JoiningAssociates ==
    ASSUME NEW S
    PROVE  \A r, s, t \in Seq(S) : (r \o s) \o t = r \o (s \o t)
BY ConcatAssociative

\* Some texts and some more flatten to what each flatten to.
LEMMA FlattenConcat ==
    ASSUME NEW S, NEW a \in Seq(Seq(S)), NEW b \in Seq(Seq(S))
    PROVE  FlattenSeq(a \o b) = FlattenSeq(a) \o FlattenSeq(b)
<1> DEFINE n == Len(a)
           p == Len(b)
           c == a \o b
<1>0. \A r, s, t \in Seq(S) : (r \o s) \o t = r \o (s \o t)
  BY JoiningAssociates
<1>1. /\ c \in Seq(Seq(S)) /\ Len(c) = n + p /\ n \in Nat /\ p \in Nat
      /\ \A i \in 1..n : c[i] = a[i]
      /\ \A i \in 1..p : c[n + i] = b[i]
  <2>1. /\ c \in Seq(Seq(S)) /\ Len(c) = n + p /\ n \in Nat /\ p \in Nat
        /\ \A i \in 1..(n + p) : c[i] = IF i <= n THEN a[i] ELSE b[i - n]
    BY ConcatProperties
  <2> HIDE DEF n, p, c
  <2>2. \A i \in 1..n : c[i] = a[i]
    BY <2>1
  <2>3. ASSUME NEW i \in 1..p PROVE c[n + i] = b[i]
    <3>1. n + i \in 1..(n + p) /\ ~(n + i <= n) /\ n + i - n = i
      BY <2>1
    <3>2. QED
      BY <2>1, <3>1
  <2>4. QED
    BY <2>1, <2>2, <2>3
<1>2. PICK f : /\ Joins(f, c, n + p)
               /\ FlattenSeq(c) = IF n + p = 0 THEN <<>> ELSE f[n + p]
  <2> HIDE DEF n, p, c
  <2>1. \E f : /\ Joins(f, c, Len(c))
               /\ FlattenSeq(c) = IF Len(c) = 0 THEN <<>> ELSE f[Len(c)]
    BY <1>1, FlattenJoins
  <2>2. QED
    BY <1>1, <2>1, Zenon
<1>3. PICK g : /\ Joins(g, a, n)
               /\ FlattenSeq(a) = IF n = 0 THEN <<>> ELSE g[n]
               /\ \A i \in 1..n : g[i] \in Seq(S)
  BY FlattenJoins
<1>4. PICK h : /\ Joins(h, b, p)
               /\ FlattenSeq(b) = IF p = 0 THEN <<>> ELSE h[p]
               /\ \A i \in 1..p : h[i] \in Seq(S)
  BY FlattenJoins
<1>5. FlattenSeq(a) \in Seq(S) /\ \A i \in 1..p : b[i] \in Seq(S)
  BY FlattenIsText
<1> HIDE DEF n, p, c
<1> DEFINE T == {i \in 1..n : f[i] # g[i]}
<1>6. T = {}
  <2>1. SUFFICES ASSUME T # {} PROVE FALSE
    OBVIOUS
  <2>2. PICK i \in T : \A k \in T : i <= k
    <3>1. T \in SUBSET Nat
      BY <1>1
    <3> HIDE DEF T
    <3>2. QED
      BY <2>1, <3>1, Least
  <2>3. i \in 1..n /\ i \in 1..(n + p) /\ i \in Nat
    BY <1>1
  <2>4. f[i] = IF i = 1 THEN c[i] ELSE f[i - 1] \o c[i]
    BY <1>2, <2>3 DEF Joins
  <2>5. g[i] = IF i = 1 THEN a[i] ELSE g[i - 1] \o a[i]
    BY <1>3, <2>3 DEF Joins
  <2>6. i # 1 => f[i - 1] = g[i - 1]
    <3>1. i # 1 => i - 1 \in 1..n /\ ~(i <= i - 1)
      BY <1>1, <2>3
    <3>2. QED
      BY <2>2, <3>1
  <2>7. QED
    BY <1>1, <2>3, <2>4, <2>5, <2>6
<1> DEFINE U == {i \in 1..p : f[n + i] # FlattenSeq(a) \o h[i]}
<1>7. U = {}
  <2>1. SUFFICES ASSUME U # {} PROVE FALSE
    OBVIOUS
  <2>2. PICK i \in U : \A k \in U : i <= k
    <3>1. U \in SUBSET Nat
      BY <1>1
    <3> HIDE DEF U
    <3>2. QED
      BY <2>1, <3>1, Least
  <2>3. i \in 1..p /\ n + i \in 1..(n + p) /\ i \in Nat
    <3>1. i \in 1..p /\ n \in Nat /\ p \in Nat
      BY <1>1
    <3> HIDE DEF U
    <3>2. QED
      BY <3>1
  <2>4. f[n + i] = IF n + i = 1 THEN b[i] ELSE f[n + i - 1] \o b[i]
    <3>1. \A k \in 1..(n + p) : f[k] = IF k = 1 THEN c[k] ELSE f[k - 1] \o c[k]
      BY <1>2 DEF Joins
    <3>2. c[n + i] = b[i]
      BY <1>1, <2>3, Zenon
    <3>3. f[n + i] = IF n + i = 1 THEN c[n + i] ELSE f[n + i - 1] \o c[n + i]
      <4>1. n \in Nat /\ p \in Nat
        BY <1>1
      <4>2. QED
        BY <2>3, <3>1, <4>1
    <3>4. QED
      BY <3>2, <3>3, Zenon
  <2>5. h[i] = IF i = 1 THEN b[i] ELSE h[i - 1] \o b[i]
    BY <1>4, <2>3 DEF Joins
  <2>6. CASE i # 1
    <3>1. f[n + i - 1] = FlattenSeq(a) \o h[i - 1]
      <4>1. i - 1 \in 1..p /\ n + (i - 1) = n + i - 1 /\ ~(i <= i - 1)
        BY <1>1, <2>3, <2>6
      <4>2. i - 1 \notin U
        BY <2>2, <4>1
      <4>3. QED
        BY <4>1, <4>2
    <3>2. n + i # 1 /\ n + i - 1 = n + (i - 1)
      BY <1>1, <2>3, <2>6
    <3>3. h[i - 1] \in Seq(S) /\ b[i] \in Seq(S)
      BY <1>1, <1>4, <1>5, <2>3, <2>6
    <3>4. (FlattenSeq(a) \o h[i - 1]) \o b[i] = FlattenSeq(a) \o (h[i - 1] \o b[i])
      BY <1>0, <1>5, <3>3, Zenon
    <3>5. f[n + i] = f[n + i - 1] \o b[i] /\ h[i] = h[i - 1] \o b[i]
      BY <2>4, <2>5, <2>6, <3>2, Zenon
    <3>6. f[n + i] = FlattenSeq(a) \o h[i]
      BY <3>1, <3>4, <3>5, Zenon
    <3>7. QED
      BY <2>2, <3>6
  <2>7. CASE i = 1 /\ n = 0
    <3>1. FlattenSeq(a) = <<>> /\ b[1] \in Seq(S) /\ f[n + i] = b[1] /\ h[i] = b[1]
      BY <1>3, <1>5, <2>3, <2>4, <2>5, <2>7
    <3>2. FlattenSeq(a) \o h[i] = b[1]
      BY <3>1
    <3>3. QED
      BY <2>2, <3>1, <3>2
  <2>8. CASE i = 1 /\ n # 0
    <3>1. n \in 1..n /\ n + i # 1 /\ n + i - 1 = n
      BY <1>1, <2>8
    <3>2. f[n] = g[n] /\ FlattenSeq(a) = g[n]
      BY <1>3, <1>6, <2>8, <3>1
    <3>3. f[n + i] = FlattenSeq(a) \o b[i] /\ h[i] = b[i]
      BY <2>4, <2>5, <2>8, <3>1, <3>2
    <3>4. QED
      BY <2>2, <3>3
  <2>9. QED
    BY <1>1, <2>6, <2>7, <2>8
<1>8. CASE p # 0
  <2>1. p \in 1..p /\ n + p # 0
    BY <1>1, <1>8
  <2>2. f[n + p] = FlattenSeq(a) \o h[p]
    BY <1>7, <2>1
  <2>3. QED
    BY <1>2, <1>4, <1>8, <2>1, <2>2 DEF c
<1>9. CASE p = 0 /\ n # 0
  <2>1. n \in 1..n /\ n + p = n /\ FlattenSeq(b) = <<>>
    BY <1>1, <1>4, <1>9
  <2>2. f[n] = g[n]
    BY <1>6, <2>1
  <2>3. FlattenSeq(a) \o <<>> = FlattenSeq(a)
    BY <1>5
  <2>4. QED
    BY <1>2, <1>3, <1>9, <2>1, <2>2, <2>3 DEF c
<1>10. CASE p = 0 /\ n = 0
  BY <1>2, <1>3, <1>4, <1>10 DEF c
<1>11. QED
  BY <1>8, <1>9, <1>10

----------------------------------------------------------------------------
(* What the directives mean                                                *)

\* v holds what the loop of Evaluate has after 0, 1, ..., n directives.
Values(v, ds, name, cleared, additive, n) ==
    v = [i \in 0..n |->
            IF i = 0 THEN Unknown
            ELSE IF ds[i].name # name THEN v[i - 1]
            ELSE IF ds[i].op = "clear" THEN cleared
            ELSE (additive /\ v[i - 1] = TRUE) \/ ds[i].value # "0"]

\* There is such a v, one directive at a time.
LEMMA ValuesExist ==
    ASSUME NEW ds, NEW name, NEW cleared, NEW additive, NEW n \in Nat
    PROVE  \E v : Values(v, ds, name, cleared, additive, n)
<1> DEFINE Next1Value(i, last) ==
               IF ds[i].name # name THEN last
               ELSE IF ds[i].op = "clear" THEN cleared
               ELSE (additive /\ last = TRUE) \/ ds[i].value # "0"
           Is(v, k) == v = [i \in 0..k |-> IF i = 0 THEN Unknown ELSE Next1Value(i, v[i - 1])]
           T == {k \in Nat : ~ \E v : Is(v, k)}
<1>1. SUFFICES ASSUME T # {} PROVE FALSE
  BY DEF Values
<1> HIDE DEF Next1Value
<1>2. PICK k \in T : \A l \in T : k <= l
  BY <1>1, Least
<1>3. k # 0
  <2>1. Is([i \in 0..0 |-> Unknown], 0)
    OBVIOUS
  <2>2. QED
    BY <2>1
<1>4. k - 1 \in Nat /\ k - 1 \notin T
  BY <1>2, <1>3
<1>5. PICK f : Is(f, k - 1)
  BY <1>4
<1> DEFINE g == [i \in 0..k |-> IF i < k THEN f[i] ELSE Next1Value(i, f[i - 1])]
<1>6. \A i \in 0..k : i # 0 => g[i - 1] = f[i - 1]
  OBVIOUS
<1>7. \A i \in 0..k : g[i] = IF i = 0 THEN Unknown ELSE Next1Value(i, g[i - 1])
  <2> SUFFICES ASSUME NEW i \in 0..k
               PROVE  g[i] = IF i = 0 THEN Unknown ELSE Next1Value(i, g[i - 1])
    OBVIOUS
  <2>1. CASE i = k
    BY <2>1, <1>3, <1>6
  <2>2. CASE i # k
    <3>1. i \in 0..(k - 1) /\ g[i] = f[i]
      BY <2>2
    <3>2. f[i] = IF i = 0 THEN Unknown ELSE Next1Value(i, f[i - 1])
      BY <1>5, <3>1
    <3>3. QED
      BY <1>6, <3>1, <3>2
  <2>3. QED
    BY <2>1, <2>2
<1>8. Is(g, k)
  <2> DEFINE h == [i \in 0..k |-> IF i = 0 THEN Unknown ELSE Next1Value(i, g[i - 1])]
  <2>1. \A i \in 0..k : g[i] = h[i]
    <3> HIDE DEF g
    <3>1. QED
      BY <1>7
  <2>2. g = h
    BY <2>1
  <2>3. QED
    BY <2>2
<1>9. QED
  BY <1>8

\* So the last of them is what Evaluate returns.
LEMMA EvaluateIs ==
    ASSUME NEW S, NEW ds \in Seq(S), NEW name, NEW cleared, NEW additive
    PROVE  \E v : /\ Values(v, ds, name, cleared, additive, Len(ds))
                  /\ Evaluate(ds, name, cleared, additive) = v[Len(ds)]
<1> DEFINE v == CHOOSE f : Values(f, ds, name, cleared, additive, Len(ds))
<1>1. Values(v, ds, name, cleared, additive, Len(ds))
  <2>1. \E f : Values(f, ds, name, cleared, additive, Len(ds))
    BY ValuesExist, Len(ds) \in Nat
  <2>2. QED
    BY <2>1
<1>2. Evaluate(ds, name, cleared, additive) = v[Len(ds)]
  BY DEF Evaluate, Values
<1>3. QED
  BY <1>1, <1>2

\* And each follows from the one before.
LEMMA ValuesStep ==
    ASSUME NEW ds, NEW name, NEW cleared, NEW additive, NEW n \in Nat, NEW v,
           Values(v, ds, name, cleared, additive, n), NEW i \in 1..n
    PROVE  v[i] = IF ds[i].name # name THEN v[i - 1]
                  ELSE IF ds[i].op = "clear" THEN cleared
                  ELSE (additive /\ v[i - 1] = TRUE) \/ ds[i].value # "0"
BY DEF Values

\* Said of the first i directives: one of them has the name, and one of that
\* name enables it and is not followed by a clear.
Names(ds, name, i) == \E j \in 1..i : ds[j].name = name

On(ds, name, i) ==
    \E j \in 1..i : /\ ds[j].name = name /\ ds[j].op # "clear" /\ ds[j].value # "0"
                    /\ \A k \in j..i : ds[k].name = name => ds[k].op # "clear"

\* The last of them that has the name is the j-th.
LastIs(ds, name, i, j) ==
    /\ j \in 1..i /\ ds[j].name = name
    /\ \A k \in 1..i : ds[k].name = name => k <= j

\* What the two values say of the first i directives.
Mean(v, w, ds, name, i) ==
    /\ v[i] \in BOOLEAN \cup {Unknown} /\ w[i] \in BOOLEAN \cup {Unknown}
    /\ v[i] = Unknown <=> ~Names(ds, name, i)
    /\ v[i] = TRUE <=> On(ds, name, i)
    /\ w[i] = Unknown <=> \A j \in 1..i : LastIs(ds, name, i, j) => ds[j].op = "clear"
    /\ w[i] = TRUE => v[i] = TRUE
    /\ Names(ds, name, i) => \E j \in 1..i : LastIs(ds, name, i, j)

\* After each directive they say so.
LEMMA ValuesMean ==
    ASSUME NEW ds, NEW name, NEW n \in Nat, NEW v, NEW w,
           Values(v, ds, name, FALSE, TRUE, n), Values(w, ds, name, Unknown, FALSE, n)
    PROVE  \A i \in 0..n : Mean(v, w, ds, name, i)
<1> DEFINE Good(i) == Mean(v, w, ds, name, i)
           T == {i \in 0..n : ~Good(i)}
<1>1. SUFFICES ASSUME T # {} PROVE FALSE
  OBVIOUS
<1>2. PICK i \in T : \A k \in T : i <= k
  <2>1. T \in SUBSET Nat
    OBVIOUS
  <2> HIDE DEF T
  <2>2. QED
    BY <1>1, <2>1, Least
<1>3. v[0] = Unknown /\ w[0] = Unknown
  BY DEF Values
<1>4. i # 0
  <2>1. 1..0 = {}
    OBVIOUS
  <2>2. ~Names(ds, name, 0) /\ ~On(ds, name, 0) /\ \A j \in 1..0 : FALSE
    BY <2>1 DEF Names, On
  <2>3. v[0] # TRUE /\ w[0] # TRUE
    BY <1>3, UnknownAssumption
  <2>4. Good(0)
    BY <1>3, <2>2, <2>3 DEF Mean
  <2>5. QED
    BY <2>4
<1>5. i \in 1..n /\ i - 1 \in 0..n /\ Good(i - 1)
  <2>1. i \in 1..n /\ i - 1 \in 0..n /\ ~(i <= i - 1)
    BY <1>4
  <2> HIDE DEF Good
  <2>2. QED
    BY <1>2, <2>1
<1>6. v[i] = IF ds[i].name # name THEN v[i - 1]
             ELSE IF ds[i].op = "clear" THEN FALSE
             ELSE v[i - 1] = TRUE \/ ds[i].value # "0"
  <2>1. v[i] = IF ds[i].name # name THEN v[i - 1]
               ELSE IF ds[i].op = "clear" THEN FALSE
               ELSE (TRUE /\ v[i - 1] = TRUE) \/ ds[i].value # "0"
    BY <1>5, ValuesStep, Zenon
  <2>2. ((TRUE /\ v[i - 1] = TRUE) \/ ds[i].value # "0") = (v[i - 1] = TRUE \/ ds[i].value # "0")
    OBVIOUS
  <2>3. QED
    BY <2>1, <2>2, Zenon
<1>7. w[i] = IF ds[i].name # name THEN w[i - 1]
             ELSE IF ds[i].op = "clear" THEN Unknown ELSE ds[i].value # "0"
  <2>1. w[i] = IF ds[i].name # name THEN w[i - 1]
               ELSE IF ds[i].op = "clear" THEN Unknown
               ELSE (FALSE /\ w[i - 1] = TRUE) \/ ds[i].value # "0"
    BY <1>5, ValuesStep, Zenon
  <2>2. ((FALSE /\ w[i - 1] = TRUE) \/ ds[i].value # "0") = (ds[i].value # "0")
    OBVIOUS
  <2>3. QED
    BY <2>1, <2>2, Zenon
<1> DEFINE p == i - 1
<1>8. 1..i = (1..p) \cup {i} /\ p \in Nat /\ i = p + 1
  BY <1>5
<1> HIDE DEF p
<1>9. CASE ds[i].name # name
  <2>1. Names(ds, name, i) <=> Names(ds, name, p)
    BY <1>8, <1>9 DEF Names
  <2>2. On(ds, name, i) <=> On(ds, name, p)
    <3>1. \A j \in 1..p : j..i = (j..p) \cup {i}
      BY <1>8
    <3>2. QED
      BY <1>8, <1>9, <3>1 DEF On
  <2>3. \A j : LastIs(ds, name, i, j) <=> LastIs(ds, name, p, j)
    BY <1>8, <1>9 DEF LastIs
  <2>4. v[i] = v[p] /\ w[i] = w[p] /\ Good(p)
    BY <1>5, <1>6, <1>7, <1>9 DEF p
  <2>5. \A j : LastIs(ds, name, i, j) => j \in 1..p
    BY <2>3 DEF LastIs
  <2>6. (\A j \in 1..i : LastIs(ds, name, i, j) => ds[j].op = "clear")
          <=> (\A j \in 1..p : LastIs(ds, name, p, j) => ds[j].op = "clear")
    BY <1>8, <2>3, <2>5
  <2>7. (\E j \in 1..p : LastIs(ds, name, p, j)) => \E j \in 1..i : LastIs(ds, name, i, j)
    BY <1>8, <2>3
  <2>8. Good(i)
    BY <2>1, <2>2, <2>4, <2>6, <2>7 DEF Mean
  <2>9. QED
    BY <2>8
<1>10. ASSUME ds[i].name = name
       PROVE  /\ Names(ds, name, i)
              /\ LastIs(ds, name, i, i) /\ \A j : LastIs(ds, name, i, j) => j = i
  <2>1. i \in 1..i /\ \A k \in 1..i : k <= i
    BY <1>8
  <2>2. Names(ds, name, i) /\ LastIs(ds, name, i, i)
    BY <1>10, <2>1 DEF Names, LastIs
  <2>3. ASSUME NEW j, LastIs(ds, name, i, j) PROVE j = i
    <3>1. j \in 1..i /\ i <= j
      BY <1>10, <2>1, <2>3 DEF LastIs
    <3>2. QED
      BY <1>8, <3>1
  <2>4. QED
    BY <2>2, <2>3
<1>11. CASE ds[i].name = name /\ ds[i].op = "clear"
  <2>1. ~On(ds, name, i)
    <3>1. \A j \in 1..i : i \in j..i
      BY <1>8
    <3>2. QED
      BY <1>11, <3>1 DEF On
  <2>2. v[i] = FALSE /\ w[i] = Unknown
    BY <1>6, <1>7, <1>11
  <2>3. \A j \in 1..i : LastIs(ds, name, i, j) => ds[j].op = "clear"
    BY <1>10, <1>11
  <2>4. \E j \in 1..i : LastIs(ds, name, i, j)
    BY <1>8, <1>10, <1>11
  <2>5. Good(i)
    BY <1>10, <1>11, <2>1, <2>2, <2>3, <2>4, UnknownAssumption DEF Mean
  <2>6. QED
    BY <2>5
<1>12. CASE ds[i].name = name /\ ds[i].op # "clear"
  <2>1. On(ds, name, i) <=> On(ds, name, p) \/ ds[i].value # "0"
    <3>1. /\ \A j \in 1..p : j..i = (j..p) \cup {i}
          /\ i..i = {i}
      BY <1>8
    <3>2. ASSUME On(ds, name, p) PROVE On(ds, name, i)
      BY <1>8, <1>12, <3>1, <3>2 DEF On
    <3>3. ASSUME ds[i].value # "0" PROVE On(ds, name, i)
      BY <1>8, <1>12, <3>1, <3>3 DEF On
    <3>4. ASSUME On(ds, name, i), ds[i].value = "0" PROVE On(ds, name, p)
      BY <1>8, <1>12, <3>1, <3>4 DEF On
    <3>5. QED
      BY <3>2, <3>3, <3>4
  <2>2. v[i] = (v[p] = TRUE \/ ds[i].value # "0") /\ w[i] = (ds[i].value # "0")
    BY <1>6, <1>7, <1>12 DEF p
  <2>3. v[p] = TRUE <=> On(ds, name, p)
    BY <1>5 DEF p, Mean
  <2>4. v[i] \in BOOLEAN /\ w[i] \in BOOLEAN /\ (v[i] = TRUE <=> On(ds, name, i))
    BY <2>1, <2>2, <2>3
  <2>5. ~ \A j \in 1..i : LastIs(ds, name, i, j) => ds[j].op = "clear"
    BY <1>8, <1>10, <1>12
  <2>6. \E j \in 1..i : LastIs(ds, name, i, j)
    BY <1>8, <1>10, <1>12
  <2>7. w[i] = TRUE => v[i] = TRUE
    BY <2>2
  <2>8. v[i] # Unknown /\ w[i] # Unknown
    BY <2>4, UnknownAssumption
  <2>9. Good(i)
    BY <1>10, <1>12, <2>4, <2>5, <2>6, <2>7, <2>8 DEF Mean
  <2>10. QED
    BY <2>9
<1>13. QED
  BY <1>9, <1>11, <1>12

\* Whatever is said, an option is enabled exactly if it is set after it was
\* cleared for the last time.
LEMMA DirectivesMean ==
    ASSUME NEW S, NEW ds \in Seq(S), NEW name
    PROVE  LET v == MultiValue(ds, name)
               flag == Scalar(ds, name)
               mentioned == \E i \in DOMAIN ds : ds[i].name = name
           IN
           /\ v = Unknown <=> ~mentioned
           /\ v = TRUE <=> Enabled(ds, name)
           /\ flag = Unknown <=> (mentioned => LastOf(ds, name).op = "clear")
           /\ flag = TRUE => v = TRUE
<1> DEFINE n == Len(ds)
           mentioned == \E i \in DOMAIN ds : ds[i].name = name
<1>1. n \in Nat /\ DOMAIN ds = 1..n /\ n \in 0..n
  OBVIOUS
<1>2. PICK v : Values(v, ds, name, FALSE, TRUE, n) /\ MultiValue(ds, name) = v[n]
  BY EvaluateIs DEF MultiValue
<1>3. PICK w : Values(w, ds, name, Unknown, FALSE, n) /\ Scalar(ds, name) = w[n]
  BY EvaluateIs DEF Scalar
<1> HIDE DEF n
<1>4. /\ v[n] = Unknown <=> ~Names(ds, name, n)
      /\ v[n] = TRUE <=> On(ds, name, n)
      /\ w[n] = Unknown <=> \A j \in 1..n : LastIs(ds, name, n, j) => ds[j].op = "clear"
      /\ w[n] = TRUE => v[n] = TRUE
      /\ Names(ds, name, n) => \E j \in 1..n : LastIs(ds, name, n, j)
  <2>1. Values(v, ds, name, FALSE, TRUE, n) /\ Values(w, ds, name, Unknown, FALSE, n)
    BY <1>2, <1>3
  <2>2. QED
    <3>1. Mean(v, w, ds, name, n)
      BY <1>1, <2>1, ValuesMean
    <3>2. QED
      BY <3>1 DEF Mean
<1>5. mentioned <=> Names(ds, name, n)
  BY <1>1 DEF Names
<1>6. Enabled(ds, name) <=> On(ds, name, n)
  BY <1>1 DEF Enabled, On, n
<1>7. w[n] = Unknown <=> (mentioned => LastOf(ds, name).op = "clear")
  <2>1. CASE ~mentioned
    BY <1>4, <1>5, <2>1, <1>1 DEF LastIs
  <2>2. CASE mentioned
    <3> DEFINE at == {i \in DOMAIN ds : ds[i].name = name}
               last == CHOOSE i \in at : \A j \in at : j <= i
    <3>1. PICK j \in 1..n : LastIs(ds, name, n, j)
      BY <1>4, <1>5, <2>2
    <3>2. j \in at /\ \A k \in at : k <= j
      BY <1>1, <3>1 DEF LastIs
    <3>3. last \in at /\ \A k \in at : k <= last
      BY <3>2
    <3>4. at \subseteq Nat
      BY <1>1
    <3>5. last = j
      <4> HIDE DEF at, last
      <4>1. last <= j /\ j <= last /\ last \in Nat /\ j \in Nat
        BY <3>2, <3>3, <3>4
      <4>2. QED
        BY <4>1
    <3>6. LastOf(ds, name) = ds[j]
      BY <3>5 DEF LastOf
    <3>7. \A k : LastIs(ds, name, n, k) => k = j
      <4>1. ASSUME NEW k, LastIs(ds, name, n, k) PROVE k = j
        <5>1. k \in Nat /\ k <= j /\ j <= k
          BY <1>1, <3>1, <4>1 DEF LastIs
        <5>2. QED
          BY <5>1
      <4>2. QED
        BY <4>1
    <3> HIDE DEF mentioned
    <3>8. QED
      BY <1>4, <2>2, <3>1, <3>6, <3>7
  <2>3. QED
    BY <2>1, <2>2
<1>8. QED
  BY <1>2, <1>3, <1>4, <1>5, <1>6, <1>7

----------------------------------------------------------------------------
(* What the text says                                                      *)

\* For every path and every chain of files it is nested in, a text.
Belows == [Paths -> [SUBSET Paths -> Seq(Said)]]

\* A file or nothing holds what files say.
LEMMA FilesHoldLines ==
    ASSUME NEW entry \in Entries, entry.kind # "dir"
    PROVE  entry.body \in Seq(Said)
<1>1. CASE \E f \in Files : entry = File(f)
  BY <1>1, ContentsAssumption DEF File
<1>2. CASE entry = Absent
  BY <1>2 DEF Absent
<1>3. QED
  BY <1>1, <1>2 DEF Entries, Dir

\* The texts of what is taken of a body, one after another.
Parts(below, body, taken, chain) ==
    [i \in DOMAIN body |-> IF body[i].of \in taken THEN below[body[i].of][chain] ELSE <<>>]

\* What is taken of a body is a text, made of those of its lines.
LEMMA AmongIsText ==
    ASSUME NEW below \in Belows, NEW body \in Seq(Lines), \A i \in DOMAIN body : body[i].of \in Paths,
           NEW taken, NEW chain \in SUBSET Paths
    PROVE  /\ Parts(below, body, taken, chain) \in Seq(Seq(Said))
           /\ Among(below, body, taken, chain) = FlattenSeq(Parts(below, body, taken, chain))
           /\ Among(below, body, taken, chain) \in Seq(Said)
<1> DEFINE part(i) == IF body[i].of \in taken THEN below[body[i].of][chain] ELSE <<>>
<1>1. \A i \in DOMAIN body : part(i) \in Seq(Said)
  BY DEF Belows
<1>2. Parts(below, body, taken, chain) = [i \in DOMAIN body |-> part(i)]
  BY DEF Parts
<1> HIDE DEF part
<1>3. [i \in DOMAIN body |-> part(i)] \in Seq(Seq(Said))
  BY <1>1
<1>4. Among(below, body, taken, chain) = FlattenSeq(Parts(below, body, taken, chain))
  BY DEF Among, Parts
<1>5. QED
  BY <1>2, <1>3, <1>4, FlattenIsText

\* What a line of a file stands for is a text.
LEMMA LineIsText ==
    ASSUME NEW f \in [Paths -> Entries], NEW below \in Belows, NEW line \in Said,
           NEW chain \in SUBSET Paths
    PROVE  LineText(f, below, line, chain) \in Seq(Said)
<1>1. line.kind \in {"directive", "include", "wildcard"} /\ (line.kind # "directive" => line.of \in Paths)
  BY ContentsAssumption
<1>2. CASE line.kind = "directive"
  BY <1>2 DEF LineText
<1>3. CASE line.kind = "include"
  BY <1>1, <1>3 DEF LineText, Belows
<1>4. CASE line.kind = "wildcard"
  <2>1. f[line.of] \in Entries /\ f[line.of].body \in Seq(Lines)
    BY <1>1, <1>4, BodyIsLines
  <2>2. f[line.of].kind = "dir" => Among(below, f[line.of].body, line.match, chain) \in Seq(Said)
    <3> DEFINE entry == f[line.of]
    <3> HIDE DEF entry
    <3>1. entry.kind = "dir" => \A i \in DOMAIN entry.body : entry.body[i].of \in Paths
      BY <2>1, DirectoriesHoldPaths DEF entry
    <3>2. entry.body \in Seq(Lines)
      BY <2>1 DEF entry
    <3>3. entry.kind = "dir" => Among(below, entry.body, line.match, chain) \in Seq(Said)
      BY <3>1, <3>2, AmongIsText
    <3>4. QED
      BY <3>3 DEF entry
  <2>3. QED
    BY <1>4, <2>2 DEF LineText
<1>5. QED
  BY <1>1, <1>2, <1>3, <1>4

\* The lines of a file, each as what it stands for.
Spelled(f, below, body, chain) == [i \in DOMAIN body |-> LineText(f, below, body[i], chain)]

\* The lines of a file stand for texts.
LEMMA SpelledIsText ==
    ASSUME NEW f \in [Paths -> Entries], NEW below \in Belows, NEW body \in Seq(Said),
           NEW chain \in SUBSET Paths
    PROVE  Spelled(f, below, body, chain) \in Seq(Seq(Said))
<1>1. \A i \in DOMAIN body : LineText(f, below, body[i], chain) \in Seq(Said)
  BY LineIsText
<1> DEFINE part(i) == LineText(f, below, body[i], chain)
<1>2. Spelled(f, below, body, chain) = [i \in DOMAIN body |-> part(i)]
  BY DEF Spelled
<1> HIDE DEF part
<1>3. \A i \in DOMAIN body : part(i) \in Seq(Said)
  BY <1>1 DEF part
<1>4. [i \in DOMAIN body |-> part(i)] \in Seq(Seq(Said))
  BY <1>3
<1>5. QED
  BY <1>2, <1>4

\* What a path stands for, case by case, and that it is a text.
LEMMA PathIsText ==
    ASSUME NEW f \in [Paths -> Entries], NEW below \in Belows, NEW p \in Paths,
           NEW chain \in SUBSET Paths
    PROVE  LET text  == PathText(f, below, p, chain)
               body  == f[p].body
               plain == {q \in Paths : f[q].kind = "file"}
           IN  /\ text \in Seq(Said)
               /\ p \in chain \cup Outside => text = <<>>
               /\ p \notin chain \cup Outside /\ f[p].kind = "dir"
                    => text = Among(below, body, plain, chain \cup {p})
               /\ p \notin chain \cup Outside /\ f[p].kind # "dir"
                    => text = FlattenSeq(Spelled(f, below, body, chain \cup {p}))
<1> DEFINE text  == PathText(f, below, p, chain)
           body  == f[p].body
           plain == {q \in Paths : f[q].kind = "file"}
<1>1. f[p] \in Entries /\ body \in Seq(Lines) /\ chain \cup {p} \in SUBSET Paths
  BY BodyIsLines
<1>2. CASE p \in chain \cup Outside
  BY <1>2 DEF PathText
<1>3. CASE p \notin chain \cup Outside /\ f[p].kind = "dir"
  <2>1. text = Among(below, body, plain, chain \cup {p})
    BY <1>3 DEF PathText
  <2>2. Among(below, body, plain, chain \cup {p}) \in Seq(Said)
    BY <1>1, <1>3, DirectoriesHoldPaths, AmongIsText
  <2>3. QED
    BY <1>3, <2>1, <2>2
<1>4. CASE p \notin chain \cup Outside /\ f[p].kind # "dir"
  <2>1. text = FlattenSeq(Spelled(f, below, body, chain \cup {p}))
    BY <1>4 DEF PathText, Spelled
  <2>2. FlattenSeq(Spelled(f, below, body, chain \cup {p})) \in Seq(Said)
    BY <1>1, <1>4, FilesHoldLines, SpelledIsText, FlattenIsText
  <2>3. QED
    BY <1>4, <2>1, <2>2
<1>5. QED
  BY <1>2, <1>3, <1>4

----------------------------------------------------------------------------
(* Level by level                                                          *)

\* T holds the texts of all paths down to 0, 1, ..., n levels.
Level(T, f, k) ==
    [p \in Paths |-> [chain \in SUBSET Paths |->
        IF k = 0 THEN <<>> ELSE PathText(f, T[k - 1], p, chain)]]

Nests(T, f, n) == T = [k \in 0..n |-> Level(T, f, k)]

\* There is such a T, one level at a time.
LEMMA NestsExist ==
    ASSUME NEW f, NEW n \in Nat
    PROVE  \E T : Nests(T, f, n)
<1> DEFINE U == {k \in Nat : ~ \E T : Nests(T, f, k)}
<1>1. SUFFICES ASSUME U # {} PROVE FALSE
  OBVIOUS
<1>2. PICK k \in U : \A l \in U : k <= l
  BY <1>1, Least
<1>3. k # 0
  <2> DEFINE T == [i \in 0..0 |-> Level(<<>>, f, 0)]
  <2>1. \A i \in 0..0 : i = 0 /\ Level(T, f, 0) = Level(<<>>, f, 0)
    BY DEF Level
  <2>2. [i \in 0..0 |-> Level(T, f, i)] = [i \in 0..0 |-> Level(<<>>, f, 0)]
    BY <2>1
  <2>3. Nests(T, f, 0)
    BY <2>2 DEF Nests
  <2>4. QED
    BY <2>3
<1>4. k - 1 \in Nat /\ k - 1 \notin U
  BY <1>2, <1>3
<1>5. PICK T : Nests(T, f, k - 1)
  BY <1>4
<1> DEFINE V == [i \in 0..k |-> IF i < k THEN T[i] ELSE Level(T, f, k)]
<1>6. \A i \in 0..k : i # 0 => V[i - 1] = T[i - 1]
  OBVIOUS
<1>7. \A i \in 0..k : V[i] = Level(V, f, i)
  <2> SUFFICES ASSUME NEW i \in 0..k PROVE V[i] = Level(V, f, i)
    OBVIOUS
  <2>1. Level(V, f, i) = Level(T, f, i)
    BY <1>6 DEF Level
  <2>2. CASE i = k
    BY <2>1, <2>2
  <2>3. CASE i # k
    <3>1. i \in 0..(k - 1) /\ V[i] = T[i]
      BY <2>3
    <3>2. T[i] = Level(T, f, i)
      BY <1>5, <3>1 DEF Nests
    <3>3. QED
      BY <2>1, <3>1, <3>2
  <2>4. QED
    BY <2>2, <2>3
<1>8. Nests(V, f, k)
  <2> DEFINE W == [i \in 0..k |-> Level(V, f, i)]
  <2>1. \A i \in 0..k : V[i] = W[i]
    <3> HIDE DEF V
    <3>1. QED
      BY <1>7
  <2>2. V = W
    BY <2>1
  <2>3. QED
    BY <2>2 DEF Nests
<1>9. QED
  BY <1>8

\* The texts of a torrc that Readable is made of.
Levels(f) == CHOOSE T : Nests(T, f, MaxIncludeDepth + 1)

\* Each level follows from the one below, and they are texts.
LEMMA LevelsAreTexts ==
    ASSUME NEW f \in [Paths -> Entries]
    PROVE  /\ Readable(f) = IF f[Main].kind = "file" THEN Levels(f)[MaxIncludeDepth + 1][Main][{}]
                            ELSE <<>>
           /\ \A k \in 0..(MaxIncludeDepth + 1) : Levels(f)[k] \in Belows
           /\ \A p \in Paths, chain \in SUBSET Paths : Levels(f)[0][p][chain] = <<>>
           /\ \A k \in 1..(MaxIncludeDepth + 1), p \in Paths, chain \in SUBSET Paths :
                 Levels(f)[k][p][chain] = PathText(f, Levels(f)[k - 1], p, chain)
<1> DEFINE n == MaxIncludeDepth + 1
           T == Levels(f)
<1>1. n \in Nat
  BY PathsAssumption
<1>2. Nests(T, f, n)
  <2>1. \E U : Nests(U, f, n)
    BY <1>1, NestsExist
  <2>2. QED
    BY <2>1 DEF Levels
<1>3. Readable(f) = IF f[Main].kind = "file" THEN T[n][Main][{}] ELSE <<>>
  BY DEF Readable, Text, Levels, Nests, Level
<1> HIDE DEF T, n
<1>4. \A p \in Paths, chain \in SUBSET Paths : T[0][p][chain] = <<>>
  BY <1>1, <1>2 DEF Nests, Level
<1>5. \A k \in 1..n, p \in Paths, chain \in SUBSET Paths :
         T[k][p][chain] = PathText(f, T[k - 1], p, chain)
  <2>1. SUFFICES ASSUME NEW k \in 1..n, NEW p \in Paths, NEW chain \in SUBSET Paths
                 PROVE  T[k][p][chain] = PathText(f, T[k - 1], p, chain)
    OBVIOUS
  <2>2. T[k] = Level(T, f, k) /\ k # 0
    BY <1>1, <1>2 DEF Nests
  <2> DEFINE G == [q \in Paths |-> [c \in SUBSET Paths |-> PathText(f, T[k - 1], q, c)]]
  <2>3. Level(T, f, k) = G
    BY <2>2 DEF Level
  <2>4. T[k] = G
    BY <2>2, <2>3
  <2>5. G[p] = [c \in SUBSET Paths |-> PathText(f, T[k - 1], p, c)]
    OBVIOUS
  <2>6. G[p][chain] = PathText(f, T[k - 1], p, chain)
    BY <2>5
  <2> HIDE DEF G
  <2>7. QED
    BY <2>4, <2>6
<1> DEFINE U == {k \in 0..n : T[k] \notin Belows}
<1>6. U = {}
  <2>1. SUFFICES ASSUME U # {} PROVE FALSE
    OBVIOUS
  <2>2. PICK k \in U : \A l \in U : k <= l
    <3>1. U \in SUBSET Nat
      BY <1>1
    <3> HIDE DEF U
    <3>2. QED
      BY <2>1, <3>1, Least
  <2>3. T[0] \in Belows
    BY <1>1, <1>2 DEF Nests, Level, Belows
  <2>4. k \in 1..n /\ k - 1 \in 0..n /\ ~(k <= k - 1)
    BY <1>1, <2>3
  <2>5. T[k - 1] \in Belows
    BY <2>2, <2>4
  <2>6. \A p \in Paths, chain \in SUBSET Paths : PathText(f, T[k - 1], p, chain) \in Seq(Said)
    BY <2>5, PathIsText
  <2>7. T[k] \in Belows
    <3>1. T[k] = Level(T, f, k) /\ k # 0
      BY <1>1, <1>2, <2>4 DEF Nests
    <3>2. Level(T, f, k) \in Belows
      BY <2>6, <3>1 DEF Level, Belows
    <3>3. QED
      BY <3>1, <3>2
  <2>8. QED
    BY <2>7
<1>7. \A k \in 0..n : T[k] \in Belows
  BY <1>6
<1> HIDE DEF U
<1>8. QED
  BY <1>3, <1>4, <1>5, <1>7 DEF T, n

----------------------------------------------------------------------------
(* What is still to be read                                                *)

\* The text an item on todo stands for, and all items of a sequence.
Meaning(f, item) ==
    LET n == MaxIncludeDepth + 1 - item.depth IN
    IF item.line.kind = "visit" THEN Levels(f)[n][item.path][item.chain]
    ELSE LineText(f, Levels(f)[n - 1], item.line, item.chain)

Meanings(f, items) == [i \in DOMAIN items |-> Meaning(f, items[i])]

Rest(f, items) == FlattenSeq(Meanings(f, items))

AllAdmitted(items) == items \in Seq(Items) /\ \A i \in DOMAIN items : Admitted(items[i])

\* Where an item is, and that what it stands for is a text.
LEMMA MeaningIsText ==
    ASSUME NEW f \in [Paths -> Entries], NEW item \in Items, Admitted(item)
    PROVE  /\ MaxIncludeDepth + 1 - item.depth \in 0..(MaxIncludeDepth + 1)
           /\ item.line.kind # "visit" => /\ MaxIncludeDepth + 1 - item.depth # 0 
                                          /\ item.line \in Said
           /\ Meaning(f, item) \in Seq(Said)
<1> DEFINE n == MaxIncludeDepth + 1 - item.depth
<1>1. n \in 0..(MaxIncludeDepth + 1) /\ (item.line.kind # "visit" => n # 0)
  BY PathsAssumption DEF Items, Admitted
<1>2. item.line \in Lines /\ item.path \in Paths /\ item.chain \in SUBSET Paths
  BY DEF Items
<1>3. item.line.kind # "visit" => item.line \in Said
  BY <1>2 DEF Lines, VisitLine
<1> HIDE DEF n
<1>4. CASE item.line.kind = "visit"
  <2>1. Levels(f)[n] \in Belows
    BY <1>1, LevelsAreTexts
  <2>2. Meaning(f, item) = Levels(f)[n][item.path][item.chain]
    BY <1>4 DEF Meaning, n
  <2>3. QED
    BY <1>1, <1>2, <1>4, <2>1, <2>2 DEF Belows, n
<1>5. CASE item.line.kind # "visit"
  <2>1. n - 1 \in 0..(MaxIncludeDepth + 1)
    BY <1>1, <1>5, PathsAssumption
  <2>2. Levels(f)[n - 1] \in Belows
    BY <2>1, LevelsAreTexts
  <2>3. Meaning(f, item) = LineText(f, Levels(f)[n - 1], item.line, item.chain)
    BY <1>5 DEF Meaning, n
  <2>4. LineText(f, Levels(f)[n - 1], item.line, item.chain) \in Seq(Said)
    BY <1>2, <1>3, <1>5, <2>2, LineIsText
  <2>5. QED
    BY <1>1, <1>3, <1>5, <2>3, <2>4 DEF n
<1>6. QED
  BY <1>4, <1>5

\* What is still to be read stands for a text.
LEMMA MeaningsAreTexts ==
    ASSUME NEW f \in [Paths -> Entries], NEW items, AllAdmitted(items)
    PROVE  Meanings(f, items) \in Seq(Seq(Said)) /\ Rest(f, items) \in Seq(Said)
<1>1. \A i \in DOMAIN items : Meaning(f, items[i]) \in Seq(Said)
  BY MeaningIsText DEF AllAdmitted
<1>2. Meanings(f, items) \in Seq(Seq(Said))
  BY <1>1 DEF Meanings, AllAdmitted
<1>3. QED
  BY <1>2, FlattenIsText DEF Rest

\* Admitted items put in front of others are admitted.
LEMMA AdmittedConcat ==
    ASSUME NEW a, NEW b, AllAdmitted(a), AllAdmitted(b)
    PROVE  AllAdmitted(a \o b)
<1>1. a \in Seq(Items) /\ b \in Seq(Items)
  BY DEF AllAdmitted
<1>2. /\ a \o b \in Seq(Items) /\ Len(a \o b) = Len(a) + Len(b)
      /\ \A i \in 1..(Len(a) + Len(b)) : (a \o b)[i] = IF i <= Len(a) THEN a[i] ELSE b[i - Len(a)]
  BY <1>1, ConcatProperties
<1>3. ASSUME NEW i \in 1..(Len(a) + Len(b)) PROVE Admitted((a \o b)[i])
  <2>1. CASE i <= Len(a)
    BY <1>1, <1>2, <2>1 DEF AllAdmitted
  <2>2. CASE ~(i <= Len(a))
    <3>1. i - Len(a) \in DOMAIN b
      BY <1>1, <2>2
    <3>2. QED
      BY <1>2, <2>2, <3>1 DEF AllAdmitted
  <2>3. QED
    BY <2>1, <2>2
<1>4. QED
  BY <1>2, <1>3 DEF AllAdmitted

\* Items put in front of others: their texts come first.
LEMMA RestConcat ==
    ASSUME NEW f \in [Paths -> Entries], NEW a, NEW b, AllAdmitted(a), AllAdmitted(b)
    PROVE  Rest(f, a \o b) = Rest(f, a) \o Rest(f, b)
<1>1. Meanings(f, a \o b) = Meanings(f, a) \o Meanings(f, b)
  <2> DEFINE A == Meanings(f, a)
             B == Meanings(f, b)
             C == Meanings(f, a \o b)
  <2>1. /\ a \in Seq(Items) /\ b \in Seq(Items)
        /\ A \in Seq(Seq(Said)) /\ B \in Seq(Seq(Said))
    BY MeaningsAreTexts DEF AllAdmitted
  <2>2. /\ Len(A) = Len(a) /\ Len(B) = Len(b)
        /\ \A i \in 1..Len(a) : A[i] = Meaning(f, a[i])
        /\ \A i \in 1..Len(b) : B[i] = Meaning(f, b[i])
    <3>1. DOMAIN A = 1..Len(a) /\ DOMAIN B = 1..Len(b) /\ Len(a) \in Nat /\ Len(b) \in Nat
      BY <2>1 DEF Meanings
    <3>2. QED
      BY <2>1, <3>1 DEF Meanings
  <2>3. C = [i \in 1..(Len(a) + Len(b)) |-> Meaning(f, (a \o b)[i])]
    BY <2>1 DEF Meanings
  <2>4. /\ A \o B \in Seq(Seq(Said)) /\ Len(A \o B) = Len(a) + Len(b)
        /\ \A i \in 1..(Len(a) + Len(b)) :
              (A \o B)[i] = IF i <= Len(a) THEN A[i] ELSE B[i - Len(a)]
    <3> HIDE DEF A, B
    <3>1. /\ A \o B \in Seq(Seq(Said)) /\ Len(A \o B) = Len(A) + Len(B)
          /\ \A i \in 1..(Len(A) + Len(B)) :
                (A \o B)[i] = IF i <= Len(A) THEN A[i] ELSE B[i - Len(A)]
      <4>1. A \in Seq(Seq(Said)) /\ B \in Seq(Seq(Said))
        BY <2>1
      <4>2. QED
        BY <4>1, ConcatProperties
    <3>2. QED
      BY <2>2, <3>1, Zenon
  <2>5. \A i \in 1..(Len(a) + Len(b)) :
           Meaning(f, (a \o b)[i]) = IF i <= Len(a) THEN A[i] ELSE B[i - Len(a)]
    <3> SUFFICES ASSUME NEW i \in 1..(Len(a) + Len(b))
                 PROVE  Meaning(f, (a \o b)[i]) = IF i <= Len(a) THEN A[i] ELSE B[i - Len(a)]
      OBVIOUS
    <3> HIDE DEF A, B
    <3>1. Len(a) \in Nat /\ Len(b) \in Nat
      BY <2>1
    <3>2. (a \o b)[i] = IF i <= Len(a) THEN a[i] ELSE b[i - Len(a)]
      BY <2>1
    <3>3. CASE i <= Len(a)
      BY <2>2, <3>1, <3>2, <3>3
    <3>4. CASE ~(i <= Len(a))
      <4>1. i - Len(a) \in 1..Len(b)
        BY <3>1, <3>4
      <4>2. QED
        BY <2>2, <3>2, <3>4, <4>1
    <3>5. QED
      BY <3>3, <3>4
  <2>6. C \in Seq(Seq(Said)) /\ Len(C) = Len(a) + Len(b)
    <3>1. AllAdmitted(a \o b)
      BY AdmittedConcat
    <3>2. C \in Seq(Seq(Said))
      BY <3>1, MeaningsAreTexts
    <3>3. DOMAIN C = 1..(Len(a) + Len(b)) /\ Len(a) + Len(b) \in Nat
      BY <2>1, <2>3
    <3> HIDE DEF C
    <3>4. QED
      BY <3>2, <3>3
  <2>7. \A i \in 1..Len(C) : C[i] = (A \o B)[i]
    <3> HIDE DEF A, B
    <3>1. \A i \in 1..(Len(a) + Len(b)) : C[i] = Meaning(f, (a \o b)[i])
      BY <2>3
    <3> HIDE DEF C
    <3>2. QED
      BY <2>4, <2>5, <2>6, <3>1
  <2> HIDE DEF A, B, C
  <2>8. C = A \o B
    BY <2>4, <2>6, <2>7, SeqEqual
  <2>9. QED
    BY <2>8 DEF A, B, C
<1>2. Meanings(f, a) \in Seq(Seq(Said)) /\ Meanings(f, b) \in Seq(Seq(Said))
  BY MeaningsAreTexts
<1>3. QED
  BY <1>1, <1>2, FlattenConcat DEF Rest

\* One item alone.
LEMMA RestOfOne ==
    ASSUME NEW f \in [Paths -> Entries], NEW item \in Items, Admitted(item)
    PROVE  Rest(f, <<item>>) = Meaning(f, item) /\ Rest(f, <<>>) = <<>>
<1>1. Meanings(f, <<item>>) = <<Meaning(f, item)>> /\ Meanings(f, <<>>) = <<>>
  BY DEF Meanings
<1>2. Meaning(f, item) \in Seq(Said)
  BY MeaningIsText
<1> DEFINE text == Meaning(f, item)
<1> HIDE DEF text
<1>3. FlattenSeq(<<text>>) = text /\ FlattenSeq(<<>>) = <<>>
  BY <1>2, FlattenFew DEF text
<1>4. QED
  BY <1>1, <1>3 DEF Rest, text

\* The items for what is taken of a directory stand for what PathText and
\* LineText make of it.
LEMMA ChildrenMean ==
    ASSUME NEW f \in [Paths -> Entries], NEW item, item.chain \in SUBSET Paths,
           item.depth \in 0..MaxIncludeDepth,
           NEW body \in Seq(Lines), \A i \in DOMAIN body : body[i].of \in Paths, NEW taken
    PROVE  Rest(f, Children(item, body, taken))
             = Among(Levels(f)[MaxIncludeDepth - item.depth], body, taken, item.chain)
<1> DEFINE n == MaxIncludeDepth - item.depth
           part(i) == IF body[i].of \in taken THEN Levels(f)[n][body[i].of][item.chain] ELSE <<>>
<1>0. MaxIncludeDepth \in Nat /\ item.depth \in Nat /\ n \in 0..(MaxIncludeDepth + 1)
  BY PathsAssumption
<1>1. ASSUME NEW i \in DOMAIN body
      PROVE  Meaning(f, Children(item, body, taken)[i]) = part(i)
  <2> DEFINE p == body[i].of
             child == Children(item, body, taken)[i]
  <2>1. p \in Paths
    OBVIOUS
  <2> HIDE DEF p
  <2>2. CASE p \in taken
    <3>1. child = Enter(item, p)
      BY <2>2 DEF Children, p
    <3>2. /\ child.line.kind = "visit" /\ child.path = p /\ child.chain = item.chain
          /\ child.depth = item.depth + 1
      BY <3>1 DEF Enter, Item, VisitLine
    <3>3. MaxIncludeDepth + 1 - (item.depth + 1) = n
      BY <1>0
    <3> HIDE DEF child, n
    <3>4. Meaning(f, child) = Levels(f)[n][p][item.chain]
      BY <3>2, <3>3 DEF Meaning
    <3>5. QED
      BY <2>2, <3>4 DEF child, p
  <2>3. CASE p \notin taken
    <3>1. child = PassOver(item, p)
      BY <2>3 DEF Children, p
    <3>2. /\ child.line.kind = "visit" /\ child.path = p /\ child.chain = item.chain
          /\ child.depth = MaxIncludeDepth + 1
      BY <3>1 DEF PassOver, Item, VisitLine
    <3>3. MaxIncludeDepth + 1 - (MaxIncludeDepth + 1) = 0
      BY <1>0
    <3> HIDE DEF child, n
    <3>4. Meaning(f, child) = Levels(f)[0][p][item.chain]
      BY <3>2, <3>3 DEF Meaning
    <3>5. Levels(f)[0][p][item.chain] = <<>>
      BY <2>1, LevelsAreTexts
    <3>6. QED
      BY <2>3, <3>4, <3>5 DEF child, p
  <2>4. QED
    BY <2>2, <2>3
<1>2. DOMAIN Children(item, body, taken) = DOMAIN body
  BY DEF Children
<1>3. Meanings(f, Children(item, body, taken)) = [i \in DOMAIN body |-> part(i)]
  <2> HIDE DEF part
  <2>1. QED
    BY <1>1, <1>2 DEF Meanings
<1>4. QED
  BY <1>3 DEF Rest, Among

\* A path that is looked at is replaced by what it stands for.
LEMMA VisitMeans ==
    ASSUME TypeOK, NEW item \in Items, Admitted(item), item.line.kind = "visit"
    PROVE  Rest(fs, Resolved(item)) = Meaning(fs, item)
<1> DEFINE n == MaxIncludeDepth + 1 - item.depth
           p == item.path
           entry == fs[p]
           inside == [item EXCEPT !.chain = @ \cup {item.path}]
<1>1. /\ fs \in [Paths -> Entries] /\ p \in Paths /\ item.chain \in SUBSET Paths
      /\ item.depth \in Nat /\ item.depth <= MaxIncludeDepth + 1 /\ MaxIncludeDepth \in Nat
  BY PathsAssumption DEF TypeOK, Items, Admitted
<1>2. Meaning(fs, item) = Levels(fs)[n][p][item.chain]
  BY DEF Meaning
<1>3. Rest(fs, <<>>) = <<>>
  BY <1>1, RestOfOne
<1>4. CASE item.depth > MaxIncludeDepth
  <2>1. n = 0
    BY <1>1, <1>4
  <2>2. Levels(fs)[0][p][item.chain] = <<>>
    BY <1>1, LevelsAreTexts
  <2>3. Resolved(item) = <<>>
    BY <1>4 DEF Resolved, Refused
  <2> HIDE DEF n, p
  <2>4. QED
    BY <1>2, <1>3, <2>1, <2>2, <2>3
<1>5. CASE ~(item.depth > MaxIncludeDepth)
  <2> DEFINE below == Levels(fs)[n - 1]
             deeper == item.chain \cup {p}
  <2>1. n \in 1..(MaxIncludeDepth + 1) /\ n - 1 \in 0..(MaxIncludeDepth + 1) /\ n - 1 = MaxIncludeDepth - item.depth
    BY <1>1, <1>5
  <2> HIDE DEF n
  <2>2. below \in Belows
    BY <1>1, <2>1, LevelsAreTexts
  <2>3. Meaning(fs, item) = PathText(fs, below, p, item.chain)
    BY <1>1, <1>2, <2>1, LevelsAreTexts
  <2>4. /\ inside.chain = deeper /\ inside.depth = item.depth /\ deeper \in SUBSET Paths
        /\ item.depth \in 0..MaxIncludeDepth
    BY <1>1, <1>5 DEF Items
  <2>5. entry \in Entries /\ entry.body \in Seq(Lines)
    BY <1>1, BodyIsLines
  <2>6. CASE p \in item.chain \cup Outside
    <3>1. Resolved(item) = <<>>
      BY <2>6 DEF Resolved, Refused
    <3>2. PathText(fs, below, p, item.chain) = <<>>
      BY <2>6 DEF PathText
    <3>3. QED
      BY <1>3, <2>3, <3>1, <3>2
  <2>7. CASE p \notin item.chain \cup Outside /\ entry.kind = "dir"
    <3>1. Resolved(item) = Children(inside, entry.body, PlainFiles)
      BY <1>5, <2>7 DEF Resolved, Refused
    <3>2. \A i \in DOMAIN entry.body : entry.body[i].of \in Paths
      <4> HIDE DEF entry
      <4>1. QED
        BY <2>5, <2>7, DirectoriesHoldPaths
    <3>3. Rest(fs, Children(inside, entry.body, PlainFiles))
          = Among(below, entry.body, PlainFiles, deeper)
      <4> HIDE DEF inside, entry, deeper
      <4>1. Rest(fs, Children(inside, entry.body, PlainFiles))
            = Among(Levels(fs)[MaxIncludeDepth - inside.depth], entry.body, PlainFiles, inside.chain)
        BY <1>1, <2>4, <2>5, <3>2, ChildrenMean
      <4>2. QED
        BY <2>1, <2>4, <4>1
    <3>4. PathText(fs, below, p, item.chain) = Among(below, entry.body, PlainFiles, deeper)
      BY <2>7 DEF PathText, PlainFiles
    <3>5. QED
      BY <2>3, <3>1, <3>3, <3>4
  <2>8. CASE p \notin item.chain \cup Outside /\ entry.kind # "dir"
    <3> DEFINE new(i) == Item(entry.body[i], item.path, inside.chain, item.depth)
    <3>1. Resolved(item) = [i \in DOMAIN entry.body |-> new(i)]
      BY <1>5, <2>7, <2>8 DEF Resolved, Refused
    <3>2. entry.body \in Seq(Said)
      <4> HIDE DEF entry
      <4>1. QED
        BY <2>5, <2>8, FilesHoldLines
    <3>3. ASSUME NEW i \in DOMAIN entry.body
          PROVE  Meaning(fs, new(i)) = LineText(fs, below, entry.body[i], deeper)
      <4>1. entry.body[i] \in Said
        BY <3>2
      <4>2. entry.body[i].kind # "visit"
        BY <4>1, ContentsAssumption
      <4>3. new(i).line = entry.body[i] /\ new(i).chain = deeper /\ new(i).depth = item.depth
        BY <2>4 DEF Item
      <4> HIDE DEF new, entry, deeper, inside
      <4>4. QED
        BY <4>2, <4>3 DEF Meaning, n
    <3>4. Meanings(fs, Resolved(item)) = Spelled(fs, below, entry.body, deeper)
      <4> HIDE DEF new, entry, deeper, inside, below
      <4>1. QED
        BY <3>1, <3>3 DEF Meanings, Spelled
    <3>5. PathText(fs, below, p, item.chain) = FlattenSeq(Spelled(fs, below, entry.body, deeper))
      BY <2>8 DEF PathText, Spelled
    <3>6. QED
      BY <2>3, <3>4, <3>5 DEF Rest
  <2>9. QED
    BY <2>6, <2>7, <2>8
<1>6. QED
  BY <1>4, <1>5

\* A line of a file is replaced by what it stands for.
LEMMA LineMeans ==
    ASSUME TypeOK, NEW item \in Items, Admitted(item)
    PROVE  /\ item.line.kind = "include"
                => Rest(fs, <<Enter(item, item.line.of)>>) = Meaning(fs, item)
           /\ item.line.kind = "wildcard" => Rest(fs, Matches(item)) = Meaning(fs, item)
           /\ item.line.kind = "directive" => Meaning(fs, item) = <<item.line>>
<1> DEFINE n == MaxIncludeDepth + 1 - item.depth
           below == Levels(fs)[n - 1]
           of == item.line.of
<1>1. /\ fs \in [Paths -> Entries] /\ item.chain \in SUBSET Paths /\ item.chain \cap Outside = {}
      /\ item.depth \in Nat /\ MaxIncludeDepth \in Nat
      /\ item.line.kind # "visit" => item.depth <= MaxIncludeDepth
  BY PathsAssumption DEF TypeOK, Items, Admitted
<1>2. item.line.kind # "visit" => Meaning(fs, item) = LineText(fs, below, item.line, item.chain)
  BY DEF Meaning
<1>3. CASE item.line.kind = "include"
  <2> DEFINE deeper == Enter(item, of)
  <2>1. of \in Paths
    BY <1>3, LinesNamePaths DEF Items
  <2>2. deeper \in Items /\ Admitted(deeper)
    BY <1>1, <1>3, <2>1, DeeperIsAdmitted
  <2>3. Rest(fs, <<deeper>>) = Meaning(fs, deeper)
    <3> HIDE DEF deeper
    <3>1. QED
      BY <1>1, <2>2, RestOfOne
  <2>4. /\ deeper.line.kind = "visit" /\ deeper.path = of /\ deeper.chain = item.chain
        /\ deeper.depth = item.depth + 1
    BY DEF Enter, Item, VisitLine
  <2>5. MaxIncludeDepth + 1 - (item.depth + 1) = n - 1
    BY <1>1
  <2>6. Meaning(fs, deeper) = below[of][item.chain]
    <3> HIDE DEF deeper, n, of
    <3>1. QED
      BY <2>4, <2>5 DEF Meaning
  <2>7. LineText(fs, below, item.line, item.chain) = below[of][item.chain]
    BY <1>3 DEF LineText
  <2>8. QED
    BY <1>2, <1>3, <2>3, <2>6, <2>7
<1>4. CASE item.line.kind = "wildcard"
  <2> DEFINE entry == fs[of]
  <2>1. of \in Paths
    BY <1>4, LinesNamePaths DEF Items
  <2>2. entry \in Entries /\ entry.body \in Seq(Lines)
    BY <1>1, <2>1, BodyIsLines
  <2>3. CASE of \in Outside \/ entry.kind # "dir"
    <3>1. Matches(item) = <<>> /\ LineText(fs, below, item.line, item.chain) = <<>>
      BY <1>4, <2>3 DEF Matches, LineText
    <3>2. Rest(fs, <<>>) = <<>>
      BY <1>1, RestOfOne
    <3>3. QED
      BY <1>2, <1>4, <3>1, <3>2
  <2>4. CASE of \notin Outside /\ entry.kind = "dir"
    <3>1. Matches(item) = Children(item, entry.body, item.line.match)
      BY <2>4 DEF Matches
    <3>2. LineText(fs, below, item.line, item.chain)
          = Among(below, entry.body, item.line.match, item.chain)
      BY <1>4, <2>4 DEF LineText
    <3>3. item.depth \in 0..MaxIncludeDepth /\ n - 1 = MaxIncludeDepth - item.depth
      BY <1>1, <1>4
    <3> HIDE DEF entry, n
    <3>4. \A i \in DOMAIN entry.body : entry.body[i].of \in Paths
      BY <2>2, <2>4, DirectoriesHoldPaths
    <3>5. Rest(fs, Children(item, entry.body, item.line.match))
          = Among(Levels(fs)[MaxIncludeDepth - item.depth], entry.body, item.line.match, item.chain)
      BY <1>1, <2>2, <3>3, <3>4, ChildrenMean
    <3>6. QED
      BY <1>2, <1>4, <3>1, <3>2, <3>3, <3>5
  <2>5. QED
    BY <2>3, <2>4
<1>5. CASE item.line.kind = "directive"
  BY <1>2, <1>5 DEF LineText
<1>6. QED
  BY <1>3, <1>4, <1>5

\* The directives found are lines, one for one.
LEMMA DirectivesAreLines ==
    ASSUME NEW found \in Seq([said : Lines, in : Paths])
    PROVE  /\ Directives(found) \in Seq(Lines)
           /\ DOMAIN Directives(found) = DOMAIN found /\ Len(Directives(found)) = Len(found)
           /\ \A i \in DOMAIN found : Directives(found)[i] = found[i].said
<1> DEFINE said(i) == found[i].said
           n == Len(found)
<1>1. n \in Nat /\ DOMAIN found = 1..n /\ \A i \in 1..n : said(i) \in Lines
  <2> DEFINE R == [said : Lines, in : Paths]
  <2>1. found \in Seq(R)
    OBVIOUS
  <2> HIDE DEF R
  <2>2. n \in Nat /\ DOMAIN found = 1..n /\ \A i \in 1..n : found[i] \in R
    BY <2>1
  <2>3. \A r \in R : r.said \in Lines
    BY DEF R
  <2>4. QED
    BY <2>2, <2>3
<1>2. Directives(found) = [i \in 1..n |-> said(i)]
  BY <1>1 DEF Directives
<1> HIDE DEF said, n
<1>3. [i \in 1..n |-> said(i)] \in Seq(Lines)
  BY <1>1
<1>4. Len([i \in 1..n |-> said(i)]) = n
  BY <1>1
<1>5. QED
  BY <1>1, <1>2, <1>3, <1>4 DEF said, n

\* What has been found and what is still to be read make one text, and reading
\* on does not change it.
LEMMA ReadKeepsText ==
    ASSUME IInv, Read
    PROVE  Directives(lines') \o Rest(fs', todo') = Directives(lines) \o Rest(fs, todo)
<1> DEFINE item == Head(todo)
           tail == Tail(todo)
           found == Directives(lines)
<1>1. todo # <<>> /\ fs' = fs
  BY DEF Read, Visit, FollowInclude, ExpandWildcard, Keep, Next1
<1>2. TypeOK /\ AllAdmitted(todo) /\ todo \in Seq(Items)
  BY DEF IInv, TypeOK, AllAdmitted
<1>3. item = todo[1] /\ 1 \in DOMAIN todo /\ tail \in Seq(Items)
      /\ \A i \in DOMAIN tail : i + 1 \in DOMAIN todo /\ tail[i] = todo[i + 1]
  BY <1>1, <1>2
<1>4. item \in Items /\ Admitted(item) /\ AllAdmitted(tail)
  BY <1>2, <1>3 DEF AllAdmitted
<1>5. todo = <<item>> \o tail
  BY <1>1, <1>2
<1>6. fs \in [Paths -> Entries]
  BY <1>2 DEF TypeOK
<1>7. AllAdmitted(<<item>>) /\ AllAdmitted(<<>>)
  <2> HIDE DEF item
  <2>1. QED
    BY <1>4 DEF AllAdmitted
<1>8. Rest(fs, todo) = Meaning(fs, item) \o Rest(fs, tail)
  <2> HIDE DEF item, tail
  <2>1. Rest(fs, todo) = Rest(fs, <<item>>) \o Rest(fs, tail)
    BY <1>4, <1>5, <1>6, <1>7, RestConcat
  <2>2. Rest(fs, <<item>>) = Meaning(fs, item)
    BY <1>4, <1>6, RestOfOne
  <2>3. QED
    BY <2>1, <2>2
<1>9. ASSUME NEW new, AllAdmitted(new), Rest(fs, new) = Meaning(fs, item),
             todo' = new \o tail, lines' = lines
      PROVE  Directives(lines') \o Rest(fs', todo') = found \o Rest(fs, todo)
  <2> HIDE DEF item, tail
  <2>1. Rest(fs, new \o tail) = Rest(fs, new) \o Rest(fs, tail)
    BY <1>4, <1>6, <1>9, RestConcat
  <2>2. QED
    BY <1>1, <1>8, <1>9, <2>1
<1>10. CASE Visit
  <2> DEFINE new == Resolved(item)
  <2>1. todo' = new \o tail /\ lines' = lines /\ item.line.kind = "visit"
    BY <1>10 DEF Visit, Next1
  <2>2. AllAdmitted(new) /\ Rest(fs, new) = Meaning(fs, item)
    <3> HIDE DEF item
    <3>1. new \in Seq(Items) /\ \A i \in DOMAIN new : Admitted(new[i])
      BY <1>2, <1>4, ResolvedIsAdmitted
    <3>2. Rest(fs, new) = Meaning(fs, item)
      BY <1>2, <1>4, <2>1, VisitMeans
    <3>3. QED
      BY <3>1, <3>2 DEF AllAdmitted
  <2> HIDE DEF new, item, tail
  <2>3. QED
    BY <1>9, <2>1, <2>2
<1>11. CASE FollowInclude
  <2> DEFINE deeper == Enter(item, item.line.of)
             new == <<deeper>>
  <2>1. todo' = new \o tail /\ lines' = lines /\ item.line.kind = "include"
    BY <1>11 DEF FollowInclude, Next1
  <2>2. deeper \in Items /\ Admitted(deeper)
    <3>1. /\ item.chain \in SUBSET Paths /\ item.chain \cap Outside = {}
          /\ item.depth \in Nat /\ item.depth <= MaxIncludeDepth /\ item.line.of \in Paths
      BY <1>4, <2>1, LinesNamePaths DEF Items, Admitted
    <3>2. QED
      BY <3>1, DeeperIsAdmitted
  <2>3. AllAdmitted(new)
    <3> HIDE DEF deeper
    <3>1. QED
      BY <2>2 DEF AllAdmitted
  <2>4. Rest(fs, new) = Meaning(fs, item)
    <3> HIDE DEF item
    <3>1. QED
      BY <1>2, <1>4, <2>1, LineMeans
  <2> HIDE DEF new, item, tail
  <2>5. QED
    BY <1>9, <2>1, <2>3, <2>4
<1>12. CASE ExpandWildcard
  <2> DEFINE new == Matches(item)
  <2>1. todo' = new \o tail /\ lines' = lines /\ item.line.kind = "wildcard"
    BY <1>12 DEF ExpandWildcard, Next1
  <2>2. AllAdmitted(new) /\ Rest(fs, new) = Meaning(fs, item)
    <3> HIDE DEF item
    <3>1. new \in Seq(Items) /\ \A i \in DOMAIN new : Admitted(new[i])
      BY <1>2, <1>4, <2>1, MatchesAreAdmitted
    <3>2. Rest(fs, new) = Meaning(fs, item)
      BY <1>2, <1>4, <2>1, LineMeans
    <3>3. QED
      BY <3>1, <3>2 DEF AllAdmitted
  <2> HIDE DEF new, item, tail
  <2>3. QED
    BY <1>9, <2>1, <2>2
<1>13. CASE Keep
  <2> DEFINE new == [said |-> item.line, in |-> item.path]
             rest == Rest(fs, tail)
  <2>1. todo' = <<>> \o tail /\ lines' = Append(lines, new) /\ item.line.kind = "directive"
    BY <1>13 DEF Keep, Next1
  <2>2. todo' = tail
    BY <1>3, <2>1
  <2>3. Meaning(fs, item) = <<item.line>>
    <3> HIDE DEF item
    <3>1. QED
      BY <1>2, <1>4, <2>1, LineMeans
  <2>4. item.line \in Lines /\ item.path \in Paths
    BY <1>4 DEF Items
  <2>5. lines \in Seq([said : Lines, in : Paths]) /\ new \in [said : Lines, in : Paths]
    BY <1>2, <2>4 DEF TypeOK
  <2>6. found \in Seq(Lines) /\ Directives(lines') = Append(found, item.line)
    <3>1. found \in Seq(Lines) /\ DOMAIN found = DOMAIN lines /\ Len(found) = Len(lines)
          /\ \A i \in DOMAIN lines : found[i] = lines[i].said
      BY <2>5, DirectivesAreLines
    <3>2. new.said = item.line
      OBVIOUS
    <3> HIDE DEF new, found, item
    <3> DEFINE more == Append(found, item.line)
    <3>3. /\ more \in Seq(Lines) /\ Len(more) = Len(lines) + 1 /\ more[Len(lines) + 1] = item.line
          /\ \A i \in 1..Len(lines) : more[i] = found[i]
      BY <2>4, <3>1
    <3>4. /\ lines' \in Seq([said : Lines, in : Paths]) /\ Len(lines') = Len(lines) + 1
          /\ lines'[Len(lines) + 1] = new /\ \A i \in 1..Len(lines) : lines'[i] = lines[i]
      BY <2>1, <2>5
    <3>5. DOMAIN lines = 1..Len(lines) /\ Len(lines) \in Nat
      BY <2>5
    <3> HIDE DEF more
    <3>6. \A i \in 1..(Len(lines) + 1) : lines'[i].said = more[i]
      BY <3>1, <3>2, <3>3, <3>4, <3>5
    <3>7. DOMAIN lines' = 1..(Len(lines) + 1) /\ DOMAIN more = 1..(Len(lines) + 1)
      BY <3>3, <3>4, <3>5
    <3>8. more = [i \in 1..(Len(lines) + 1) |-> more[i]]
      BY <3>3, <3>7
    <3>9. Directives(lines') = more
      BY <3>6, <3>7, <3>8 DEF Directives
    <3>10. QED
      BY <3>1, <3>9 DEF more
  <2>7. rest \in Seq(Said) /\ Said \subseteq Lines
    <3>1. rest \in Seq(Said)
      <4> HIDE DEF tail
      <4>1. QED
        BY <1>4, <1>6, MeaningsAreTexts
    <3>2. QED
      BY <3>1 DEF Lines
  <2> HIDE DEF found, item, rest, tail
  <2>8. rest \in Seq(Lines)
    BY <2>7, SeqMonotonic
  <2>9. Append(found, item.line) = found \o <<item.line>> /\ <<item.line>> \in Seq(Lines)
    BY <2>4, <2>6, AppendIsConcat
  <2>10. (found \o <<item.line>>) \o rest = found \o (<<item.line>> \o rest)
    BY <2>6, <2>8, <2>9, ConcatAssociative
  <2>11. QED
    BY <1>1, <1>8, <2>2, <2>3, <2>6, <2>9, <2>10 DEF rest, found
<1>14. QED
  BY <1>10, <1>11, <1>12, <1>13 DEF Read, found

----------------------------------------------------------------------------
(* Reading the torrc in a command                                          *)

\* No file changes while the command runs.
FilesStay == \A w \in during : w.fs = fs

\* The world there is belongs to those of the command; and as long as the files
\* stay, what has been found and what is still to be read make the torrc.
Undisturbed ==
    /\ cmd = [name |-> cmd.name, at |-> cmd.at, reading |-> cmd.reading, late |-> cmd.late]
    /\ cmd.name # None => World \in during
    /\ cmd.reading /\ FilesStay => Directives(lines) \o Rest(fs, todo) = Readable(fs)

\* Whatever happens on the machine adds another world.
LEMMA OthersDisturb ==
    ASSUME Others
    PROVE  /\ cmd.name # None /\ UNCHANGED <<cmd, todo, lines, seen>>
           /\ World' # World /\ during' = during \cup {World'}
<1>1. ASSUME NEW w, Change(w), w = [m |-> w.m, fs |-> w.fs]
      PROVE  /\ cmd.name # None /\ UNCHANGED <<cmd, todo, lines, seen>>
             /\ World' # World /\ during' = during \cup {World'}
  <2>1. World' = w
    BY <1>1 DEF Change, World
  <2>2. QED
    BY <1>1, <2>1 DEF Change, Running
<1>2. CASE EditTorrc
  <2>1. PICK e \in Edits : Change([World EXCEPT !.fs[e.path] = e.entry])
    BY <1>2 DEF EditTorrc
  <2>2. QED
    BY <1>1, <2>1 DEF World
<1>3. CASE RunTor
  <2>1. PICK d \in {Loaded(m, fs), "stopped"} : Change([World EXCEPT !.m.daemon = d])
    BY <1>3 DEF RunTor
  <2>2. QED
    BY <1>1, <2>1 DEF World
<1>4. CASE TakePort
  <2>1. Change([World EXCEPT !.m.foreign = ~@])
    BY <1>4 DEF TakePort
  <2>2. QED
    BY <1>1, <2>1 DEF World
<1>5. CASE \E things \in Toggles : Toggle(things)
  <2>1. PICK things \in Toggles : Toggle(things)
    BY <1>5
  <2>2. CASE Change([World EXCEPT !.m.has = @ \cup things])
    BY <1>1, <2>2 DEF World
  <2>3. CASE Change([World EXCEPT !.m.has = @ \ things])
    BY <1>1, <2>3 DEF World
  <2>4. QED
    BY <2>1, <2>2, <2>3 DEF Toggle
<1>6. QED
  BY <1>2, <1>3, <1>4, <1>5 DEF Others

\* Reading begins with all of the torrc before it.
LEMMA BeginsWithAll ==
    ASSUME fs \in [Paths -> Entries], Begin
    PROVE  Directives(lines') \o Rest(fs', todo') = Readable(fs')
<1> DEFINE item == Item(VisitLine(Main), Main, {}, 0)
           n == MaxIncludeDepth + 1
<1>1. Main \in Paths /\ MaxIncludeDepth \in Nat /\ Main \notin Outside
  BY PathsAssumption
<1>2. /\ item.line.kind = "visit" /\ item.path = Main /\ item.chain = {} /\ item.depth = 0
      /\ item \in Items /\ Admitted(item)
  <2>1. VisitLine(Main) \in Lines
    BY <1>1 DEF Lines
  <2>2. QED
    BY <1>1, <2>1 DEF Item, VisitLine, Items, Admitted
<1>3. /\ fs' = fs /\ lines' = <<>>
      /\ todo' = IF fs[Main].kind = "file" THEN <<item>> ELSE <<>>
  BY DEF Begin
<1>4. Directives(lines') = <<>>
  BY <1>3 DEF Directives
<1>5. Readable(fs) = IF fs[Main].kind = "file" THEN Levels(fs)[n][Main][{}] ELSE <<>>
  BY LevelsAreTexts
<1>6. Meaning(fs, item) = Levels(fs)[n][Main][{}]
  <2>1. n - 0 = n
    BY <1>1
  <2> HIDE DEF item
  <2>2. QED
    BY <1>2, <2>1 DEF Meaning
<1> HIDE DEF item, n
<1>7. Rest(fs, <<item>>) = Meaning(fs, item) /\ Rest(fs, <<>>) = <<>>
  BY <1>2, RestOfOne
<1>8. Rest(fs', todo') = Readable(fs') /\ Readable(fs) \in Seq(Said)
  <2>1. Meaning(fs, item) \in Seq(Said)
    BY <1>2, MeaningIsText
  <2>2. QED
    BY <1>3, <1>5, <1>6, <1>7, <2>1
<1>9. <<>> \o Readable(fs) = Readable(fs)
  BY <1>8, ConcatEmptySeq
<1>10. QED
  BY <1>3, <1>4, <1>8, <1>9

\* Whatever a command does, or happens to the machine, this stays so.
LEMMA StepKeepsUndisturbed ==
    ASSUME IInv, Undisturbed, [Next]_veilVars
    PROVE  Undisturbed'
<1>1. ASSUME UNCHANGED <<m, fs, todo, lines, cmd, during>> PROVE Undisturbed'
  BY <1>1 DEF Undisturbed, World, FilesStay
<1>2. ASSUME NEW c \in Commands, Start(c) PROVE Undisturbed'
  BY <1>2 DEF Start, Idle, Undisturbed, World, readVars
<1>3. ASSUME Ask \/ TimeOut PROVE Undisturbed'
  <2>1. UNCHANGED <<m, fs, todo, lines, during>> /\ cmd.name # None
    BY <1>3 DEF Ask, TimeOut, readVars, Running
  <2>2. /\ cmd' = [name |-> cmd'.name, at |-> cmd'.at, reading |-> cmd'.reading, late |-> cmd'.late]
        /\ cmd'.reading = cmd.reading
    BY <1>3 DEF Ask, TimeOut, Undisturbed
  <2>3. QED
    BY <2>1, <2>2 DEF Undisturbed, World, FilesStay
<1>4. CASE BeginRead
  <2>1. UNCHANGED <<m, fs, during>> /\ cmd.name # None
    BY <1>4 DEF BeginRead, Begin, Running
  <2>2. cmd' = [name |-> cmd'.name, at |-> cmd'.at, reading |-> cmd'.reading, late |-> cmd'.late]
    BY <1>4 DEF BeginRead, Undisturbed
  <2>3. Directives(lines') \o Rest(fs', todo') = Readable(fs')
    BY <1>4, BeginsWithAll DEF BeginRead, IInv, TypeOK
  <2>4. QED
    BY <2>1, <2>2, <2>3 DEF Undisturbed, World
<1>5. CASE ReadOn
  <2>1. UNCHANGED <<m, fs, cmd, during>> /\ Read
    BY <1>5 DEF ReadOn, Read, Visit, FollowInclude, ExpandWildcard, Keep, Next1
  <2>2. Directives(lines') \o Rest(fs', todo') = Directives(lines) \o Rest(fs, todo)
    BY <2>1, ReadKeepsText
  <2>3. World' = World
    BY <2>1 DEF World
  <2>4. Undisturbed' <=>
           /\ cmd = [name |-> cmd.name, at |-> cmd.at, reading |-> cmd.reading, late |-> cmd.late]
           /\ cmd.name # None => World \in during
           /\ cmd.reading /\ FilesStay => Directives(lines') \o Rest(fs', todo') = Readable(fs)
    BY <2>1, <2>3 DEF Undisturbed, FilesStay
  <2>5. QED
    BY <2>2, <2>4 DEF Undisturbed
<1>6. CASE EndRead
  <2>1. UNCHANGED <<m, fs, todo, lines, during>> /\ cmd' = [cmd EXCEPT !.reading = FALSE, !.at = @ + 1]
    BY <1>6 DEF EndRead, readVars
  <2>2. /\ cmd' = [name |-> cmd'.name, at |-> cmd'.at, reading |-> cmd'.reading, late |-> cmd'.late]
        /\ cmd'.reading = FALSE /\ cmd'.name = cmd.name
    BY <2>1 DEF Undisturbed
  <2>3. QED
    BY <2>1, <2>2 DEF Undisturbed, World
<1>7. CASE PutAway
  BY <1>7 DEF PutAway, Idle, Undisturbed
<1>8. CASE Others
  <2>1. /\ cmd.name # None /\ UNCHANGED <<cmd, todo, lines>>
        /\ World' # World /\ during' = during \cup {World'}
    BY <1>8, OthersDisturb
  <2>2. World \in during
    BY <2>1 DEF Undisturbed
  <2>3. ASSUME FilesStay' PROVE FilesStay /\ fs' = fs
    <3>1. World \in during'
      BY <2>1, <2>2
    <3>2. fs' = fs
      BY <2>3, <3>1 DEF FilesStay, World
    <3>3. QED
      BY <2>1, <2>3, <3>2 DEF FilesStay
  <2>4. ASSUME cmd.reading, FilesStay'
        PROVE  Directives(lines') \o Rest(fs', todo') = Readable(fs')
    BY <2>1, <2>3, <2>4 DEF Undisturbed
  <2>5. QED
    BY <2>1, <2>4 DEF Undisturbed
<1>9. CASE UNCHANGED veilVars
  BY <1>1, <1>9 DEF veilVars
<1>10. QED
  BY <1>2, <1>3, <1>4, <1>5, <1>6, <1>7, <1>8, <1>9 DEF Next, Step

\* Once nothing is left to be read all of it has been found.
LEMMA FoundAll ==
    ASSUME IInv, Undisturbed, cmd.reading, todo = <<>>, FilesStay
    PROVE  Directives(lines) = Readable(fs)
<1> DEFINE ds == Directives(lines)
<1>1. ds \in Seq(Lines)
  BY DirectivesAreLines DEF IInv, TypeOK
<1>2. ds \o Rest(fs, todo) = Readable(fs)
  BY DEF Undisturbed
<1>3. Rest(fs, <<>>) = <<>>
  <2>1. Meanings(fs, <<>>) = <<>> /\ <<>> \in Seq(Said)
    BY DEF Meanings
  <2>2. QED
    BY <2>1, FlattenFew DEF Rest
<1> HIDE DEF ds
<1>4. ds = Readable(fs)
  BY <1>1, <1>2, <1>3, ConcatEmptySeq
<1>5. QED
  BY <1>4 DEF ds

\* tor.py:86-271: where no file changes meanwhile, what the command finds is
\* the torrc and all it includes, in the order of the text, and each option
\* means what the last words on it say.
THEOREM TorrcIsRead == Spec => []ReadsTheTorrc
<1>1. Init => Undisturbed
  BY DEF Init, Idle, Undisturbed
<1>2. IInv /\ Undisturbed /\ [Next]_veilVars => Undisturbed'
  BY StepKeepsUndisturbed
<1>3. IInv /\ Undisturbed => ReadsTheTorrc
  <2> SUFFICES ASSUME IInv, Undisturbed, cmd.reading, todo = <<>>, FilesStay
               PROVE  LET ds == Directives(lines) IN
                      /\ ds = Readable(fs)
                      /\ \A name \in {"SocksPort", "CookieAuthentication"} :
                            LET v == MultiValue(ds, name)
                                flag == Scalar(ds, name)
                                mentioned == \E i \in DOMAIN ds : ds[i].name = name
                            IN
                            /\ v = Unknown <=> ~mentioned
                            /\ v = TRUE <=> Enabled(ds, name)
                            /\ flag = Unknown <=> (mentioned => LastOf(ds, name).op = "clear")
                            /\ flag = TRUE => v = TRUE
    BY DEF ReadsTheTorrc, FilesStay
  <2> DEFINE ds == Directives(lines)
  <2>1. ds \in Seq(Lines)
    BY DirectivesAreLines DEF IInv, TypeOK
  <2>2. ds = Readable(fs)
    BY FoundAll
  <2> HIDE DEF ds
  <2>3. QED
    BY <2>1, <2>2, DirectivesMean DEF ds
<1>4. QED
  BY <1>1, <1>2, <1>3, VeilReadsLikeTorrc, Invariance, PTL DEF Spec

----------------------------------------------------------------------------
(* What a text does to an option                                           *)

\* An option is mentioned, or cleared.
Mentions(ds, name) == \E i \in DOMAIN ds : ds[i].name = name
Clears(ds, name)   == \E i \in DOMAIN ds : ds[i].name = name /\ ds[i].op = "clear"

\* Whatever was said before: a text leaves the port on, or off; or it says no
\* more than "0", which changes nothing but that the port was mentioned; or
\* nothing at all.
Effect(ds) ==
    IF Enabled(ds, "SocksPort") THEN "on"
    ELSE IF Clears(ds, "SocksPort") THEN "off"
    ELSE IF Mentions(ds, "SocksPort") THEN "no" ELSE "silent"

\* The effects that do not depend on what was said before, and all of them.
LastWords == {"on", "off"}
Effects   == LastWords \cup {"no", "silent"}

\* One text after another.
After(x, y) ==
    IF y \in LastWords THEN y
    ELSE IF x \in LastWords THEN x
    ELSE IF "no" \in {x, y} THEN "no" ELSE "silent"

\* The effect of two texts is that of the second after the first.
LEMMA EffectOfTwo ==
    ASSUME NEW S, NEW s \in Seq(S), NEW t \in Seq(S)
    PROVE  Effect(s \o t) = After(Effect(s), Effect(t)) /\ Effect(s) \in Effects
<1> DEFINE name == "SocksPort"
           n == Len(s)
           p == Len(t)
           r == s \o t
<1> HIDE DEF name
<1>1. /\ n \in Nat /\ p \in Nat /\ DOMAIN s = 1..n /\ DOMAIN t = 1..p
      /\ DOMAIN r = 1..(n + p) /\ Len(r) = n + p
      /\ \A i \in 1..n : r[i] = s[i]
      /\ \A i \in 1..p : r[n + i] = t[i]
  <2>1. /\ r \in Seq(S) /\ Len(r) = n + p
        /\ \A i \in 1..(n + p) : r[i] = IF i <= n THEN s[i] ELSE t[i - n]
    BY ConcatProperties
  <2>2. n \in Nat /\ p \in Nat /\ DOMAIN s = 1..n /\ DOMAIN t = 1..p
    OBVIOUS
  <2> HIDE DEF n, p, r
  <2>3. \A i \in 1..n : i \in 1..(n + p) /\ i <= n
    BY <2>2
  <2>4. \A i \in 1..p : n + i \in 1..(n + p) /\ ~(n + i <= n) /\ (n + i) - n = i
    BY <2>2
  <2>5. DOMAIN r = 1..(n + p)
    BY <2>1
  <2>6. \A i \in 1..p : r[n + i] = t[i]
    BY <2>1, <2>4, Zenon
  <2>7. QED
    BY <2>1, <2>2, <2>3, <2>5, <2>6
<1> HIDE DEF n, p, r
<1>2. \A i \in 1..(n + p) : i \in 1..n \/ \E k \in 1..p : i = n + k
  <2> SUFFICES ASSUME NEW i \in 1..(n + p), i \notin 1..n PROVE \E k \in 1..p : i = n + k
    OBVIOUS
  <2>1. i - n \in 1..p /\ i = n + (i - n)
    BY <1>1
  <2>2. QED
    BY <2>1
<1>3. \A i \in 1..p : n + i \in 1..(n + p)
  BY <1>1
<1>4. \A i \in 1..n : i \in 1..(n + p)
  BY <1>1
<1>5. Mentions(r, name) <=> Mentions(s, name) \/ Mentions(t, name)
  <2>1. ASSUME Mentions(r, name) PROVE Mentions(s, name) \/ Mentions(t, name)
    <3>1. PICK i \in 1..(n + p) : r[i].name = name
      BY <1>1, <2>1 DEF Mentions
    <3>2. CASE i \in 1..n
      BY <1>1, <3>1, <3>2 DEF Mentions
    <3>3. CASE \E k \in 1..p : i = n + k
      BY <1>1, <3>1, <3>3 DEF Mentions
    <3>4. QED
      BY <1>2, <3>2, <3>3
  <2>2. Mentions(s, name) => Mentions(r, name)
    BY <1>1, <1>4 DEF Mentions
  <2>3. Mentions(t, name) => Mentions(r, name)
    BY <1>1, <1>3 DEF Mentions
  <2>4. QED
    BY <2>1, <2>2, <2>3
<1>6. Clears(r, name) <=> Clears(s, name) \/ Clears(t, name)
  <2>1. ASSUME Clears(r, name) PROVE Clears(s, name) \/ Clears(t, name)
    <3>1. PICK i \in 1..(n + p) : r[i].name = name /\ r[i].op = "clear"
      BY <1>1, <2>1 DEF Clears
    <3>2. CASE i \in 1..n
      BY <1>1, <3>1, <3>2 DEF Clears
    <3>3. CASE \E k \in 1..p : i = n + k
      BY <1>1, <3>1, <3>3 DEF Clears
    <3>4. QED
      BY <1>2, <3>2, <3>3
  <2>2. Clears(s, name) => Clears(r, name)
    BY <1>1, <1>4 DEF Clears
  <2>3. Clears(t, name) => Clears(r, name)
    BY <1>1, <1>3 DEF Clears
  <2>4. QED
    BY <2>1, <2>2, <2>3
<1> DEFINE sets(d) == d.name = name /\ d.op # "clear" /\ d.value # "0"
           keeps(d) == d.name = name => d.op # "clear"
<1>7. \A d, l : Enabled(d, name) <=> \E i \in DOMAIN d : sets(d[i]) /\ \A j \in i..Len(d) : keeps(d[j])
  BY DEF Enabled
<1>8. ~Clears(t, name) <=> \A j \in 1..p : keeps(t[j])
  BY <1>1 DEF Clears
<1> HIDE DEF sets, keeps
<1>9. Enabled(r, name) <=> Enabled(t, name) \/ (Enabled(s, name) /\ ~Clears(t, name))
  <2>1. ASSUME NEW i \in 1..p PROVE (\A j \in (n + i)..(n + p) : keeps(r[j])) <=> \A j \in i..p : keeps(t[j])
    <3>1. \A j \in i..p : n + j \in (n + i)..(n + p) /\ j \in 1..p
      BY <1>1
    <3>2. \A j \in (n + i)..(n + p) : \E k \in i..p : j = n + k
      <4> SUFFICES ASSUME NEW j \in (n + i)..(n + p) PROVE \E k \in i..p : j = n + k
        OBVIOUS
      <4>1. j - n \in i..p /\ j = n + (j - n)
        BY <1>1
      <4>2. QED
        BY <4>1
    <3>3. QED
      BY <1>1, <3>1, <3>2
  <2>2. ASSUME NEW i \in 1..n
        PROVE  (\A j \in i..(n + p) : keeps(r[j]))
                  <=> (\A j \in i..n : keeps(s[j])) /\ (\A j \in 1..p : keeps(t[j]))
    <3>1. \A j \in i..n : j \in i..(n + p) /\ j \in 1..n
      BY <1>1
    <3>2. \A j \in 1..p : n + j \in i..(n + p)
      BY <1>1
    <3>3. \A j \in i..(n + p) : j \in i..n \/ \E k \in 1..p : j = n + k
      <4> SUFFICES ASSUME NEW j \in i..(n + p), j \notin i..n PROVE \E k \in 1..p : j = n + k
        OBVIOUS
      <4>1. j - n \in 1..p /\ j = n + (j - n)
        BY <1>1
      <4>2. QED
        BY <4>1
    <3>4. QED
      BY <1>1, <3>1, <3>2, <3>3
  <2>3. Enabled(r, name) <=> \E i \in 1..(n + p) : sets(r[i]) /\ \A j \in i..(n + p) : keeps(r[j])
    BY <1>1, <1>7
  <2>4. Enabled(s, name) <=> \E i \in 1..n : sets(s[i]) /\ \A j \in i..n : keeps(s[j])
    BY <1>1, <1>7 DEF n
  <2>5. Enabled(t, name) <=> \E i \in 1..p : sets(t[i]) /\ \A j \in i..p : keeps(t[j])
    BY <1>1, <1>7 DEF p
  <2>6. ASSUME Enabled(r, name) PROVE Enabled(t, name) \/ (Enabled(s, name) /\ ~Clears(t, name))
    <3>1. PICK i \in 1..(n + p) : sets(r[i]) /\ \A j \in i..(n + p) : keeps(r[j])
      BY <2>3, <2>6
    <3>2. CASE i \in 1..n
      BY <1>1, <1>8, <2>2, <2>4, <3>1, <3>2
    <3>3. CASE \E k \in 1..p : i = n + k
      <4>1. PICK k \in 1..p : i = n + k
        BY <3>3
      <4>2. sets(t[k])
        BY <1>1, <3>1, <4>1
      <4>3. \A j \in k..p : keeps(t[j])
        BY <2>1, <3>1, <4>1
      <4>4. QED
        BY <2>5, <4>2, <4>3
    <3>4. QED
      BY <1>2, <3>2, <3>3
  <2>7. ASSUME Enabled(t, name) PROVE Enabled(r, name)
    BY <1>1, <1>3, <2>1, <2>3, <2>5, <2>7
  <2>8. ASSUME Enabled(s, name), ~Clears(t, name) PROVE Enabled(r, name)
    BY <1>1, <1>4, <1>8, <2>2, <2>3, <2>4, <2>8
  <2>9. QED
    BY <2>6, <2>7, <2>8
<1>10. QED
  BY <1>5, <1>6, <1>9 DEF Effect, After, LastWords, Effects, name, r

\* Nothing said has no effect.
LEMMA EffectOfNothing == Effect(<<>>) = "silent"
BY DEF Effect, Enabled, Clears, Mentions

\* What the option means is a matter of the effect of all that is said.
LEMMA EffectDecides ==
    ASSUME NEW S, NEW s \in Seq(S), NEW R, NEW t \in Seq(R), Effect(s) = Effect(t)
    PROVE  MultiValue(s, "SocksPort") = MultiValue(t, "SocksPort")
<1>1. ASSUME NEW Q, NEW ds \in Seq(Q)
      PROVE  MultiValue(ds, "SocksPort") = IF Effect(ds) = "silent" THEN Unknown ELSE Effect(ds) = "on"
  <2> DEFINE n == Len(ds)
             name == "SocksPort"
  <2> HIDE DEF name
  <2>1. n \in Nat /\ n \in 0..n
    OBVIOUS
  <2>2. PICK v : Values(v, ds, name, FALSE, TRUE, n) /\ MultiValue(ds, name) = v[n]
    BY EvaluateIs DEF MultiValue
  <2>3. PICK w : Values(w, ds, name, Unknown, FALSE, n)
    BY <2>1, ValuesExist
  <2>4. v[n] \in BOOLEAN \cup {Unknown}
    <3>1. Mean(v, w, ds, name, n)
      BY <2>1, <2>2, <2>3, ValuesMean
    <3>2. QED
      BY <3>1 DEF Mean
  <2>5. MultiValue(ds, name) = Unknown <=> ~Mentions(ds, name)
    BY DirectivesMean DEF Mentions
  <2>6. MultiValue(ds, name) = TRUE <=> Enabled(ds, name)
    BY DirectivesMean
  <2>7. Enabled(ds, name) \/ Clears(ds, name) => Mentions(ds, name)
    BY DEF Enabled, Clears, Mentions
  <2>8. QED
    BY <2>2, <2>4, <2>5, <2>6, <2>7, UnknownAssumption DEF Effect, name
<1>2. QED
  BY <1>1

\* The effect of a text that a file is part of, and that was x before an edit
\* of it and y after it, is z where the file may be read now so and now so.
\* Where a and b are the effects of the file itself: what is in front of one
\* that has a last word does not count, and one that has none adds the same
\* everywhere.
Mixed(a, b, x, y, z) ==
    /\ z \in {x, y}
    /\ \/ x = y
       \/ /\ a \in LastWords => x = a
          /\ b \in LastWords => y = b
          /\ {a, b} \cap LastWords = {} => x = a /\ y = b

\* What has been put together of both stays so when more is.
LEMMA MixedAfterMixed ==
    ASSUME NEW a \in Effects, NEW b \in Effects,
           NEW x \in Effects, NEW y \in Effects, NEW z, Mixed(a, b, x, y, z),
           NEW x2 \in Effects, NEW y2 \in Effects, NEW z2, Mixed(a, b, x2, y2, z2)
    PROVE  Mixed(a, b, After(x, x2), After(y, y2), After(z, z2))
<1>1. CASE x = y /\ x2 = y2
  BY <1>1 DEF Mixed
<1>2. CASE x # y /\ x2 = y2
  <2>1. CASE x2 \in LastWords
    BY <1>2, <2>1 DEF Mixed, After
  <2>2. CASE x2 \notin LastWords
    BY <1>2, <2>2 DEF Mixed, After, Effects, LastWords
  <2>3. QED
    BY <2>1, <2>2
<1>3. CASE x2 # y2 /\ x = y
  BY <1>3 DEF Mixed, After, Effects, LastWords
<1>4. CASE x2 # y2 /\ x # y
  BY <1>4 DEF Mixed, After, Effects, LastWords
<1>5. QED
  BY <1>1, <1>2, <1>3, <1>4

\* The same of texts.
Blend(a, b, s, t, r) ==
    /\ s \in Seq(Said) /\ t \in Seq(Said) /\ r \in Seq(Said)
    /\ Mixed(a, b, Effect(s), Effect(t), Effect(r))

\* A text that the file is not part of, the file before, and the file after.
LEMMA BlendsOfOne ==
    ASSUME NEW a, NEW b
    PROVE  /\ \A s \in Seq(Said) : Blend(a, b, s, s, s)
           /\ \A s, t \in Seq(Said) : a = Effect(s) /\ b = Effect(t)
                 => Blend(a, b, s, t, s) /\ Blend(a, b, s, t, t)
BY DEF Blend, Mixed

\* One after another.
LEMMA BlendAfterBlend ==
    ASSUME NEW a \in Effects, NEW b \in Effects,
           NEW s, NEW t, NEW r, Blend(a, b, s, t, r),
           NEW s2, NEW t2, NEW r2, Blend(a, b, s2, t2, r2)
    PROVE  Blend(a, b, s \o s2, t \o t2, r \o r2)
<1>1. /\ s \in Seq(Said) /\ t \in Seq(Said) /\ r \in Seq(Said)
      /\ s2 \in Seq(Said) /\ t2 \in Seq(Said) /\ r2 \in Seq(Said)
      /\ Mixed(a, b, Effect(s), Effect(t), Effect(r))
      /\ Mixed(a, b, Effect(s2), Effect(t2), Effect(r2))
  BY DEF Blend
<1>2. \A u, v \in Seq(Said) :
         /\ u \o v \in Seq(Said)
         /\ Effect(u \o v) = After(Effect(u), Effect(v))
         /\ Effect(u) \in Effects
  BY EffectOfTwo
<1>3. Mixed(a, b, After(Effect(s), Effect(s2)), After(Effect(t), Effect(t2)),
            After(Effect(r), Effect(r2)))
  BY <1>1, <1>2, MixedAfterMixed
<1>4. QED
  BY <1>1, <1>2, <1>3 DEF Blend

\* And any number of texts.
LEMMA BlendOfMany ==
    ASSUME NEW a \in Effects, NEW b \in Effects,
           NEW ss \in Seq(Seq(Said)), NEW ts \in Seq(Seq(Said)), NEW rs \in Seq(Seq(Said)),
           Len(ts) = Len(ss), Len(rs) = Len(ss),
           \A i \in 1..Len(ss) : Blend(a, b, ss[i], ts[i], rs[i])
    PROVE  Blend(a, b, FlattenSeq(ss), FlattenSeq(ts), FlattenSeq(rs))
<1> DEFINE n == Len(ss)
<1>1. n \in Nat
  OBVIOUS
<1>2. PICK f : /\ Joins(f, ss, n)
               /\ FlattenSeq(ss) = IF n = 0 THEN <<>> ELSE f[n]
  BY FlattenJoins
<1>3. PICK g : /\ Joins(g, ts, n)
               /\ FlattenSeq(ts) = IF n = 0 THEN <<>> ELSE g[n]
  BY FlattenJoins
<1>4. PICK h : /\ Joins(h, rs, n)
               /\ FlattenSeq(rs) = IF n = 0 THEN <<>> ELSE h[n]
  BY FlattenJoins
<1>5. \A i \in 1..n : Blend(a, b, ss[i], ts[i], rs[i])
  OBVIOUS
<1> HIDE DEF n
<1> DEFINE T == {i \in 1..n : ~Blend(a, b, f[i], g[i], h[i])}
<1>6. T = {}
  <2>1. SUFFICES ASSUME T # {} PROVE FALSE
    OBVIOUS
  <2>2. PICK i \in T : \A k \in T : i <= k
    <3>1. T \in SUBSET Nat
      BY <1>1
    <3> HIDE DEF T
    <3>2. QED
      BY <2>1, <3>1, Least
  <2>3. i \in 1..n /\ ~Blend(a, b, f[i], g[i], h[i])
    OBVIOUS
  <2>4. /\ f[i] = IF i = 1 THEN ss[i] ELSE f[i - 1] \o ss[i]
        /\ g[i] = IF i = 1 THEN ts[i] ELSE g[i - 1] \o ts[i]
        /\ h[i] = IF i = 1 THEN rs[i] ELSE h[i - 1] \o rs[i]
    BY <1>2, <1>3, <1>4, <2>3 DEF Joins
  <2>5. CASE i = 1
    BY <1>5, <2>3, <2>4, <2>5
  <2>6. CASE i # 1
    <3>1. i - 1 \in 1..n /\ ~(i <= i - 1)
      BY <1>1, <2>3, <2>6
    <3>2. Blend(a, b, f[i - 1], g[i - 1], h[i - 1])
      BY <2>2, <3>1
    <3>3. Blend(a, b, ss[i], ts[i], rs[i])
      BY <1>5, <2>3
    <3> HIDE DEF T
    <3>4. QED
      BY <2>3, <2>4, <2>6, <3>2, <3>3, BlendAfterBlend
  <2>7. QED
    BY <2>5, <2>6
<1>7. CASE n = 0
  <2>1. <<>> \in Seq(Said)
    OBVIOUS
  <2>2. QED
    BY <1>2, <1>3, <1>4, <1>7, <2>1, BlendsOfOne
<1>8. CASE n # 0
  <2>1. n \in 1..n
    BY <1>1, <1>8
  <2>2. Blend(a, b, f[n], g[n], h[n])
    BY <1>6, <2>1
  <2>3. QED
    BY <1>2, <1>3, <1>4, <1>8, <2>2
<1>9. QED
  BY <1>7, <1>8

----------------------------------------------------------------------------
(* How deep the files nest                                                 *)

\* L holds the paths that are 0, 1, ..., n levels below the main file.
Layered(L, f, n) ==
    L = [k \in 0..n |-> IF k = 0 THEN {Main} ELSE UNION {Brought(f, p) : p \in L[k - 1]}]

\* There is such an L, one level at a time.
LEMMA LayersExist ==
    ASSUME NEW f, NEW n \in Nat
    PROVE  \E L : Layered(L, f, n)
<1> DEFINE further(T) == UNION {Brought(f, p) : p \in T}
           Is(L, k) == L = [i \in 0..k |-> IF i = 0 THEN {Main} ELSE further(L[i - 1])]
           U == {k \in Nat : ~ \E L : Is(L, k)}
<1>1. SUFFICES ASSUME U # {} PROVE FALSE
  BY DEF Layered
<1> HIDE DEF further
<1>2. PICK k \in U : \A l \in U : k <= l
  BY <1>1, Least
<1>3. k # 0
  <2>1. Is([i \in 0..0 |-> {Main}], 0)
    OBVIOUS
  <2>2. QED
    BY <2>1
<1>4. k - 1 \in Nat /\ k - 1 \notin U
  <2>1. k \in Nat
    OBVIOUS
  <2>2. k - 1 \in Nat /\ ~(k <= k - 1)
    BY <1>3, <2>1
  <2> HIDE DEF U
  <2>3. QED
    BY <1>2, <2>2
<1>5. PICK L : Is(L, k - 1)
  BY <1>4
<1> DEFINE V == [i \in 0..k |-> IF i < k THEN L[i] ELSE further(L[i - 1])]
<1>6. \A i \in 0..k : i # 0 => V[i - 1] = L[i - 1]
  OBVIOUS
<1>7. \A i \in 0..k : V[i] = IF i = 0 THEN {Main} ELSE further(V[i - 1])
  <2> SUFFICES ASSUME NEW i \in 0..k PROVE V[i] = IF i = 0 THEN {Main} ELSE further(V[i - 1])
    OBVIOUS
  <2>1. CASE i = k
    BY <2>1, <1>3, <1>6
  <2>2. CASE i # k
    <3>1. i \in 0..(k - 1) /\ V[i] = L[i]
      BY <2>2
    <3>2. L[i] = IF i = 0 THEN {Main} ELSE further(L[i - 1])
      BY <1>5, <3>1
    <3>3. QED
      BY <1>6, <3>1, <3>2
  <2>3. QED
    BY <2>1, <2>2
<1>8. Is(V, k)
  <2> DEFINE W == [i \in 0..k |-> IF i = 0 THEN {Main} ELSE further(V[i - 1])]
  <2>1. \A i \in 0..k : V[i] = W[i]
    <3> HIDE DEF V
    <3>1. QED
      BY <1>7
  <2>2. V = W
    BY <2>1
  <2>3. QED
    BY <2>2
<1>9. QED
  BY <1>8

Layers(f) == CHOOSE L : Layered(L, f, MaxIncludeDepth + 1)

\* The paths that at most n levels of includes lead on from.
Shallow(f, n) ==
    UNION {Layers(f)[k] : k \in ((MaxIncludeDepth + 1) - n)..(MaxIncludeDepth + 1)}

\* Where no include is cut off, each path brings in shallower ones.
LEMMA BroughtIsShallower ==
    ASSUME NEW f, Whole(f)
    PROVE  /\ Main \in Shallow(f, MaxIncludeDepth + 1)
           /\ \A n, k \in 0..(MaxIncludeDepth + 1) : n <= k => Shallow(f, n) \subseteq Shallow(f, k)
           /\ \A n \in 0..(MaxIncludeDepth + 1) : \A q \in Shallow(f, n) :
                 n >= 1 /\ Brought(f, q) \subseteq Shallow(f, n - 1)
<1> DEFINE N == MaxIncludeDepth + 1
           L == Layers(f)
<1>1. N \in Nat
  BY PathsAssumption
<1>2. Layered(L, f, N)
  BY <1>1, LayersExist DEF Layers
<1>3. L[N] = {}
  BY <1>2 DEF Whole, Layered, Layers
<1> DEFINE further(T) == UNION {Brought(f, p) : p \in T}
<1>4. \A k \in 0..N : L[k] = IF k = 0 THEN {Main} ELSE further(L[k - 1])
  <2> HIDE DEF L, N
  <2>1. L = [k \in 0..N |-> IF k = 0 THEN {Main} ELSE further(L[k - 1])]
    BY <1>2 DEF Layered
  <2> HIDE DEF further
  <2>2. QED
    BY <2>1
<1>5. L[0] = {Main} /\ \A k \in 0..N : k < N => \A q \in L[k] : Brought(f, q) \subseteq L[k + 1]
  <2>1. L[0] = {Main}
    <3>1. 0 \in 0..N
      BY <1>1
    <3> HIDE DEF L, N, further
    <3>2. QED
      BY <1>4, <3>1
  <2>2. ASSUME NEW k \in 0..N, k < N, NEW q \in L[k] PROVE Brought(f, q) \subseteq L[k + 1]
    <3>1. k + 1 \in 0..N /\ k + 1 # 0 /\ k + 1 - 1 = k
      BY <1>1, <2>2
    <3>2. L[k + 1] = further(L[k])
      <4> HIDE DEF L, N, further
      <4>1. QED
        BY <1>4, <3>1
    <3> HIDE DEF L, N
    <3>3. QED
      BY <3>2
  <2>3. QED
    BY <2>1, <2>2
<1>6. \A n : Shallow(f, n) = UNION {L[k] : k \in (N - n)..N}
  BY DEF Shallow
<1> HIDE DEF L, N, further
<1>7. Main \in Shallow(f, N)
  <2>1. 0 \in (N - N)..N
    BY <1>1
  <2>2. QED
    BY <1>5, <1>6, <2>1
<1>8. ASSUME NEW n \in 0..N, NEW k \in 0..N, n <= k PROVE Shallow(f, n) \subseteq Shallow(f, k)
  <2>1. (N - n)..N \subseteq (N - k)..N
    BY <1>1, <1>8
  <2>2. QED
    BY <1>6, <2>1
<1>9. ASSUME NEW n \in 0..N, NEW q \in Shallow(f, n)
      PROVE  n >= 1 /\ Brought(f, q) \subseteq Shallow(f, n - 1)
  <2>1. PICK k \in (N - n)..N : q \in L[k]
    BY <1>6
  <2>2. k # N
    BY <1>3, <2>1 DEF L, N
  <2>3. k \in 0..N /\ k < N /\ n >= 1 /\ k + 1 \in (N - (n - 1))..N
    BY <1>1, <2>1, <2>2
  <2>4. Brought(f, q) \subseteq L[k + 1]
    BY <1>5, <2>1, <2>3
  <2>5. QED
    BY <1>6, <2>3, <2>4
<1>10. QED
  BY <1>7, <1>8, <1>9 DEF N

\* A path that stands in a chain: what the chain is made of leads on to it.
Above(f, chain, q) ==
    \A c \in chain, k \in 0..(MaxIncludeDepth + 1) :
       c \in Shallow(f, k) => k >= 1 /\ q \in Shallow(f, k - 1)

\* A path that can be on level n and in that place.
FitsThere(f, n, chain, q) == q \in Shallow(f, n) /\ Above(f, chain, q)

\* The main file fits, no path is in the chain it stands in, and what it brings
\* in fits one level down.
LEMMA FitsDown ==
    ASSUME NEW f, Whole(f)
    PROVE  /\ FitsThere(f, MaxIncludeDepth + 1, {}, Main)
           /\ \A n \in 0..(MaxIncludeDepth + 1) : \A chain, q : FitsThere(f, n, chain, q) =>
                 /\ n >= 1 /\ q \notin chain
                 /\ \A c \in Brought(f, q) : FitsThere(f, n - 1, chain \cup {q}, c)
<1> DEFINE N == MaxIncludeDepth + 1
           S(n) == Shallow(f, n)
<1>1. N \in Nat
  BY PathsAssumption
<1>2. /\ Main \in S(N)
      /\ \A n, k \in 0..N : n <= k => S(n) \subseteq S(k)
      /\ \A n \in 0..N : \A q \in S(n) : n >= 1 /\ Brought(f, q) \subseteq S(n - 1)
  BY BroughtIsShallower
<1>3. \A chain, q : Above(f, chain, q) <=>
         \A c \in chain, k \in 0..N : c \in S(k) => k >= 1 /\ q \in S(k - 1)
  BY DEF Above
<1> HIDE DEF N, S
<1>4. ASSUME NEW n \in 0..N, NEW chain, NEW q, q \in S(n), Above(f, chain, q)
      PROVE  /\ n >= 1 /\ q \notin chain
             /\ \A c \in Brought(f, q) : c \in S(n - 1) /\ Above(f, chain \cup {q}, c)
  <2>1. q \notin chain
    <3> SUFFICES ASSUME q \in chain PROVE FALSE
      OBVIOUS
    <3> DEFINE T == {k \in 0..N : q \in S(k)}
    <3>1. PICK k \in T : \A l \in T : k <= l
      <4>1. T \in SUBSET Nat /\ T # {}
        BY <1>1, <1>4
      <4> HIDE DEF T
      <4>2. QED
        BY <4>1, Least
    <3>2. k \in 0..N /\ k >= 1 /\ q \in S(k - 1)
      BY <1>3, <1>4, <3>1
    <3>3. k - 1 \in T /\ ~(k <= k - 1)
      BY <1>1, <3>2
    <3>4. QED
      BY <3>1, <3>3
  <2>2. ASSUME NEW c \in Brought(f, q) PROVE Above(f, chain \cup {q}, c)
    <3> SUFFICES ASSUME NEW d \in chain \cup {q}, NEW k \in 0..N, d \in S(k)
                 PROVE  k >= 1 /\ c \in S(k - 1)
      BY <1>3
    <3>1. CASE d = q
      BY <1>2, <2>2, <3>1
    <3>2. CASE d \in chain
      <4>1. k >= 1 /\ q \in S(k - 1)
        BY <1>3, <1>4, <3>2
      <4>2. k - 1 \in 0..N
        BY <1>1, <4>1
      <4>3. k - 1 >= 1 /\ c \in S(k - 2)
        <5>1. k - 1 - 1 = k - 2
          BY <1>1
        <5>2. QED
          BY <1>2, <2>2, <4>1, <4>2, <5>1
      <4>4. k - 2 \in 0..N /\ k - 2 <= k - 1
        BY <1>1, <4>3
      <4>5. QED
        BY <1>2, <4>1, <4>2, <4>3, <4>4
    <3>3. QED
      BY <3>1, <3>2
  <2>3. QED
    BY <1>2, <1>4, <2>1, <2>2
<1>5. Above(f, {}, Main)
  BY DEF Above
<1>6. QED
  BY <1>2, <1>4, <1>5 DEF FitsThere, N, S

----------------------------------------------------------------------------
(* Where a text does not depend on the place                               *)

\* What is refused or not there says nothing.
LEMMA RefusedSaysNothing ==
    ASSUME NEW f \in [Paths -> Entries], NEW n \in 0..(MaxIncludeDepth + 1), NEW q \in Paths,
           NEW chain \in SUBSET Paths, q \in chain \cup Outside \/ f[q].kind = "absent"
    PROVE  Levels(f)[n][q][chain] = <<>>
<1>1. CASE n = 0
  BY <1>1, LevelsAreTexts
<1>2. CASE n # 0
  <2>1. n \in 1..(MaxIncludeDepth + 1) /\ n - 1 \in 0..(MaxIncludeDepth + 1)
    BY <1>2, PathsAssumption
  <2>2. Levels(f)[n][q][chain] = PathText(f, Levels(f)[n - 1], q, chain)
    BY <2>1, LevelsAreTexts
  <2>3. CASE q \in chain \cup Outside
    BY <2>2, <2>3 DEF PathText
  <2>4. CASE q \notin chain \cup Outside /\ f[q].kind = "absent"
    <3>1. f[q].body = <<>>
      BY <2>4 DEF Entries, File, Dir, Absent
    <3> DEFINE below == Levels(f)[n - 1]
               body == f[q].body
    <3>2. PathText(f, below, q, chain) = FlattenSeq(Spelled(f, below, body, chain \cup {q}))
      BY <2>4 DEF PathText, Spelled
    <3>3. Spelled(f, below, <<>>, chain \cup {q}) = <<>>
      BY DEF Spelled
    <3> HIDE DEF below
    <3>4. FlattenSeq(<<>>) = <<>>
      BY DEF FlattenSeq
    <3>5. QED
      BY <2>2, <3>1, <3>2, <3>3, <3>4 DEF below
  <2>5. QED
    BY <2>3, <2>4
<1>3. QED
  BY <1>1, <1>2

\* The paths that a line names.
NamedBy(f, line) ==
    CASE line.kind = "directive" -> {}
      [] line.kind = "include"   -> {line.of}
      [] line.kind = "wildcard"  ->
           {f[line.of].body[i].of : i \in {i \in DOMAIN f[line.of].body :
               f[line.of].kind = "dir" /\ f[line.of].body[i].of \in line.match}}

\* And it names paths.
LEMMA NamedPaths ==
    ASSUME NEW f \in [Paths -> Entries], NEW line \in Said
    PROVE  NamedBy(f, line) \subseteq Paths
<1>1. line.kind \in {"directive", "include", "wildcard"} /\ (line.kind # "directive" => line.of \in Paths)
  BY ContentsAssumption
<1>2. CASE line.kind = "directive"
  BY <1>2 DEF NamedBy
<1>3. CASE line.kind = "include"
  BY <1>1, <1>3 DEF NamedBy
<1>4. CASE line.kind = "wildcard"
  <2> DEFINE entry == f[line.of]
  <2>1. entry \in Entries
    BY <1>1, <1>4
  <2> HIDE DEF entry
  <2>2. entry.kind = "dir" => \A i \in DOMAIN entry.body : entry.body[i].of \in Paths
    BY <2>1, DirectoriesHoldPaths
  <2>3. NamedBy(f, line) = {entry.body[i].of : i \in {i \in DOMAIN entry.body :
                              entry.kind = "dir" /\ entry.body[i].of \in line.match}}
    BY <1>4 DEF NamedBy, entry
  <2>4. QED
    BY <2>2, <2>3
<1>5. QED
  BY <1>1, <1>2, <1>3, <1>4

\* What a path brings in is what its lines name, or the files it holds.
LEMMA BroughtIsNamed ==
    ASSUME NEW f \in [Paths -> Entries], NEW q \in Paths
    PROVE  /\ f[q].kind # "dir" =>
                 \A i \in DOMAIN f[q].body : NamedBy(f, f[q].body[i]) \subseteq Brought(f, q)
           /\ f[q].kind = "dir" =>
                 \A i \in DOMAIN f[q].body :
                    f[f[q].body[i].of].kind = "file" => f[q].body[i].of \in Brought(f, q)
<1>1. f[q] \in Entries
  OBVIOUS
<1>2. ASSUME f[q].kind # "dir", NEW i \in DOMAIN f[q].body
      PROVE  NamedBy(f, f[q].body[i]) \subseteq Brought(f, q)
  <2> DEFINE line == f[q].body[i]
             children(d) == {f[d].body[k].of : k \in DOMAIN f[d].body}
             named(l) == CASE l.kind = "directive" -> {}
                           [] l.kind = "include"   -> {l.of}
                           [] l.kind = "wildcard"  ->
                                {r \in children(l.of) \cap l.match : f[l.of].kind = "dir"}
  <2>1. line.kind \in {"directive", "include", "wildcard"}
    <3>1. f[q].body \in Seq(Said)
      BY <1>1, <1>2, FilesHoldLines
    <3>2. line \in Said
      BY <3>1, <1>2
    <3>3. QED
      BY <3>2, ContentsAssumption
  <2>2. NamedBy(f, line) \subseteq named(line)
    <3> HIDE DEF line
    <3>1. CASE line.kind = "directive"
      BY <3>1 DEF NamedBy
    <3>2. CASE line.kind = "include"
      BY <3>2 DEF NamedBy
    <3>3. CASE line.kind = "wildcard"
      BY <3>3 DEF NamedBy
    <3>4. QED
      BY <2>1, <3>1, <3>2, <3>3
  <2>3. Brought(f, q) = UNION {named(f[q].body[k]) : k \in DOMAIN f[q].body}
    BY <1>2 DEF Brought
  <2> HIDE DEF named
  <2>4. QED
    BY <1>2, <2>2, <2>3
<1>3. ASSUME f[q].kind = "dir", NEW i \in DOMAIN f[q].body, f[f[q].body[i].of].kind = "file"
      PROVE  f[q].body[i].of \in Brought(f, q)
  <2>1. f[q].body[i].of \in Paths
    BY <1>1, <1>3, DirectoriesHoldPaths
  <2>2. QED
    BY <1>3, <2>1 DEF Brought
<1>4. QED
  BY <1>2, <1>3

\* A line stands for the same text where all it names does.
LEMMA LineSame ==
    ASSUME NEW f \in [Paths -> Entries], NEW g \in [Paths -> Entries], NEW line \in Said,
           NEW below, NEW below2, NEW chain, NEW chain2,
           line.kind = "wildcard" =>
              f[line.of] = g[line.of] \/ (f[line.of].kind # "dir" /\ g[line.of].kind # "dir"),
           \A q \in NamedBy(f, line) : below[q][chain] = below2[q][chain2]
    PROVE  LineText(f, below, line, chain) = LineText(g, below2, line, chain2)
<1>1. line.kind \in {"directive", "include", "wildcard"} /\ (line.kind # "directive" => line.of \in Paths)
  BY ContentsAssumption
<1>2. CASE line.kind = "directive"
  BY <1>2 DEF LineText
<1>3. CASE line.kind = "include"
  BY <1>3 DEF LineText, NamedBy
<1>4. CASE line.kind = "wildcard"
  <2> DEFINE body == f[line.of].body
  <2>1. CASE f[line.of].kind # "dir" /\ g[line.of].kind # "dir"
    BY <1>4, <2>1 DEF LineText
  <2>2. CASE line.of \in Outside
    BY <1>4, <2>2 DEF LineText
  <2>3. CASE f[line.of] = g[line.of] /\ f[line.of].kind = "dir" /\ line.of \notin Outside
    <3>1. /\ LineText(f, below, line, chain) = FlattenSeq(Parts(below, body, line.match, chain))
          /\ LineText(g, below2, line, chain2) = FlattenSeq(Parts(below2, body, line.match, chain2))
      BY <1>4, <2>3 DEF LineText, Among, Parts
    <3>2. \A i \in DOMAIN body :
             body[i].of \in line.match => below[body[i].of][chain] = below2[body[i].of][chain2]
      BY <1>4, <2>3 DEF NamedBy
    <3> HIDE DEF body
    <3>3. Parts(below, body, line.match, chain) = Parts(below2, body, line.match, chain2)
      BY <3>2 DEF Parts
    <3>4. QED
      BY <3>1, <3>3
  <2>4. QED
    BY <1>4, <2>1, <2>2, <2>3
<1>5. QED
  BY <1>1, <1>2, <1>3, <1>4

\* Where no include is cut off, a file reads the same wherever it stands.
LEMMA TextOfAFile ==
    ASSUME NEW f \in [Paths -> Entries], Whole(f)
    PROVE  \A n, l \in 0..(MaxIncludeDepth + 1), q \in Paths, chain, chain2 \in SUBSET Paths :
              FitsThere(f, n, chain, q) /\ FitsThere(f, l, chain2, q)
                 => Levels(f)[n][q][chain] = Levels(f)[l][q][chain2]
<1> DEFINE N == MaxIncludeDepth + 1
           Good(n) == \A l \in 0..N, q \in Paths, chain, chain2 \in SUBSET Paths :
                         FitsThere(f, n, chain, q) /\ FitsThere(f, l, chain2, q)
                            => Levels(f)[n][q][chain] = Levels(f)[l][q][chain2]
           T == {n \in 0..N : ~Good(n)}
<1>1. SUFFICES ASSUME T # {} PROVE FALSE
  OBVIOUS
<1>2. N \in Nat
  BY PathsAssumption
<1>3. PICK n \in T : \A k \in T : n <= k
  <2>1. T \in SUBSET Nat
    BY <1>2
  <2> HIDE DEF T
  <2>2. QED
    BY <1>1, <2>1, Least
<1>4. n \in 0..N /\ ~Good(n)
  BY <1>3
<1>5. PICK l \in 0..N, q \in Paths, chain \in SUBSET Paths, chain2 \in SUBSET Paths :
         /\ FitsThere(f, n, chain, q) /\ FitsThere(f, l, chain2, q)
         /\ Levels(f)[n][q][chain] # Levels(f)[l][q][chain2]
  BY <1>4
<1>6. /\ n >= 1 /\ l >= 1 /\ q \notin chain /\ q \notin chain2
      /\ \A c \in Brought(f, q) :
            FitsThere(f, n - 1, chain \cup {q}, c) /\ FitsThere(f, l - 1, chain2 \cup {q}, c)
  BY <1>4, <1>5, FitsDown
<1> DEFINE below == Levels(f)[n - 1]
           below2 == Levels(f)[l - 1]
           deeper == chain \cup {q}
           deeper2 == chain2 \cup {q}
<1>7. n \in 1..N /\ l \in 1..N /\ n - 1 \in 0..N /\ l - 1 \in 0..N /\ ~(n <= n - 1)
  BY <1>2, <1>4, <1>5, <1>6
<1>8. Good(n - 1)
  <2>1. n - 1 \notin T
    BY <1>3, <1>7
  <2> HIDE DEF Good
  <2>2. QED
    BY <1>7, <2>1
<1>9. /\ Levels(f)[n][q][chain] = PathText(f, below, q, chain)
      /\ Levels(f)[l][q][chain2] = PathText(f, below2, q, chain2)
  <2> HIDE DEF Good
  <2>1. QED
    BY <1>7, LevelsAreTexts
<1>10. deeper \in SUBSET Paths /\ deeper2 \in SUBSET Paths
  BY <1>5
<1>11. ASSUME NEW c \in Paths \cap Brought(f, q) PROVE below[c][deeper] = below2[c][deeper2]
  <2>1. FitsThere(f, n - 1, deeper, c) /\ FitsThere(f, l - 1, deeper2, c) /\ c \in Paths
    BY <1>6
  <2>2. \A k \in 0..N, r \in Paths, ch, ch2 \in SUBSET Paths :
           FitsThere(f, n - 1, ch, r) /\ FitsThere(f, k, ch2, r) => Levels(f)[n - 1][r][ch] = Levels(f)[k][r][ch2]
    BY <1>8
  <2> HIDE DEF N, deeper, deeper2, Good, T
  <2>3. QED
    BY <1>7, <1>10, <2>1, <2>2
<1> HIDE DEF Good, T, below, below2, deeper, deeper2, N
<1>12. f[q] \in Entries /\ f[q].body \in Seq(Lines)
  BY BodyIsLines
<1> DEFINE body == f[q].body
           plain == {r \in Paths : f[r].kind = "file"}
<1>13. CASE q \in Outside
  BY <1>5, <1>9, <1>13 DEF PathText
<1>14. CASE q \notin Outside /\ f[q].kind = "dir"
  <2>1. /\ PathText(f, below, q, chain) = FlattenSeq(Parts(below, body, plain, deeper))
        /\ PathText(f, below2, q, chain2) = FlattenSeq(Parts(below2, body, plain, deeper2))
    BY <1>6, <1>14 DEF PathText, Among, Parts, deeper, deeper2
  <2>2. \A i \in DOMAIN body : body[i].of \in plain => body[i].of \in Paths \cap Brought(f, q)
    BY <1>14, BroughtIsNamed
  <2>3. Parts(below, body, plain, deeper) = Parts(below2, body, plain, deeper2)
    <3> HIDE DEF body, plain
    <3>1. QED
      BY <1>11, <2>2 DEF Parts
  <2>4. QED
    BY <1>5, <1>9, <2>1, <2>3
<1>15. CASE q \notin Outside /\ f[q].kind # "dir"
  <2>1. /\ PathText(f, below, q, chain) = FlattenSeq(Spelled(f, below, body, deeper))
        /\ PathText(f, below2, q, chain2) = FlattenSeq(Spelled(f, below2, body, deeper2))
    BY <1>6, <1>15 DEF PathText, Spelled, deeper, deeper2
  <2>2. body \in Seq(Said)
    BY <1>12, <1>15, FilesHoldLines
  <2>3. ASSUME NEW i \in DOMAIN body
        PROVE  LineText(f, below, body[i], deeper) = LineText(f, below2, body[i], deeper2)
    <3>1. body[i] \in Said
      BY <2>2
    <3>2. NamedBy(f, body[i]) \subseteq Brought(f, q)
      BY <1>15, BroughtIsNamed
    <3>3. NamedBy(f, body[i]) \subseteq Paths
      BY <3>1, NamedPaths
    <3> HIDE DEF body
    <3>4. QED
      BY <1>11, <3>1, <3>2, <3>3, LineSame
  <2>4. Spelled(f, below, body, deeper) = Spelled(f, below2, body, deeper2)
    <3> HIDE DEF body
    <3>1. QED
      BY <2>3 DEF Spelled
  <2>5. QED
    BY <1>5, <1>9, <2>1, <2>4
<1>16. QED
  BY <1>13, <1>14, <1>15

----------------------------------------------------------------------------
(* The torrc before and after an edit                                      *)

\* f and g are torrcs that differ in what stands in the file p, and no include
\* of either is cut off.
OneEdit(f, g, p) ==
    /\ f \in [Paths -> Entries] /\ g \in [Paths -> Entries] /\ p \in Paths
    /\ Whole(f) /\ Whole(g)
    /\ \A q \in Paths \ {p} : f[q] = g[q]
    /\ f[p].kind # "dir" /\ g[p].kind # "dir"

\* What a line of either names is the same in both, but for what p was.
LEMMA EditedDirectories ==
    ASSUME NEW f, NEW g, NEW p, OneEdit(f, g, p), NEW q \in Paths
    PROVE  /\ f[q] = g[q] \/ (f[q].kind # "dir" /\ g[q].kind # "dir")
           /\ f[p].kind \in {"file", "absent"} /\ g[p].kind \in {"file", "absent"}
BY DEF OneEdit, Entries, File, Dir, Absent

\* What is nested in p reads the same before and after.
LEMMA BelowTheFile ==
    ASSUME NEW f, NEW g, NEW p, OneEdit(f, g, p)
    PROVE  \A n \in 0..(MaxIncludeDepth + 1), q \in Paths, chain \in SUBSET Paths :
              p \in chain => Levels(f)[n][q][chain] = Levels(g)[n][q][chain]
<1> DEFINE N == MaxIncludeDepth + 1
           Good(n) == \A q \in Paths, chain \in SUBSET Paths :
                         p \in chain => Levels(f)[n][q][chain] = Levels(g)[n][q][chain]
           T == {n \in 0..N : ~Good(n)}
<1>1. SUFFICES ASSUME T # {} PROVE FALSE
  OBVIOUS
<1>2. N \in Nat
  BY PathsAssumption
<1>3. PICK n \in T : \A k \in T : n <= k
  <2>1. T \in SUBSET Nat
    BY <1>2
  <2> HIDE DEF T
  <2>2. QED
    BY <1>1, <2>1, Least
<1>4. n \in 0..N /\ ~Good(n)
  BY <1>3
<1>5. PICK q \in Paths, chain \in SUBSET Paths :
         p \in chain /\ Levels(f)[n][q][chain] # Levels(g)[n][q][chain]
  BY <1>4
<1>6. f \in [Paths -> Entries] /\ g \in [Paths -> Entries] /\ p \in Paths
  BY DEF OneEdit
<1> HIDE DEF Good
<1>7. n \in 1..N /\ n - 1 \in 0..N /\ ~(n <= n - 1)
  <2>1. n # 0
    BY <1>5, <1>6, LevelsAreTexts
  <2>2. QED
    BY <1>2, <1>4, <2>1
<1>8. Good(n - 1)
  <2>1. n - 1 \notin T
    BY <1>3, <1>7
  <2>2. QED
    BY <1>7, <2>1
<1> DEFINE below == Levels(f)[n - 1]
           below2 == Levels(g)[n - 1]
           deeper == chain \cup {q}
<1>9. /\ Levels(f)[n][q][chain] = PathText(f, below, q, chain)
      /\ Levels(g)[n][q][chain] = PathText(g, below2, q, chain)
  BY <1>6, <1>7, LevelsAreTexts
<1>10. ASSUME NEW c \in Paths
       PROVE  below[c][deeper] = below2[c][deeper] /\ (c = p => below[c][deeper] = <<>>)
  <2>1. deeper \in SUBSET Paths /\ p \in deeper
    BY <1>5
  <2>2. below[c][deeper] = below2[c][deeper]
    <3> HIDE DEF deeper
    <3>1. QED
      BY <1>8, <2>1 DEF Good
  <2>3. c = p => below[c][deeper] = <<>>
    <3> HIDE DEF deeper
    <3>1. QED
      BY <1>6, <1>7, <2>1, RefusedSaysNothing
  <2>4. QED
    BY <2>2, <2>3
<1> HIDE DEF T, below, below2, deeper, N
<1>11. CASE q \in chain \cup Outside
  BY <1>5, <1>9, <1>11 DEF PathText
<1>12. ASSUME q \notin chain \cup Outside PROVE f[q] = g[q] /\ q # p
  BY <1>5, <1>12 DEF OneEdit
<1> DEFINE body == f[q].body
           plain == {r \in Paths : f[r].kind = "file"}
           plain2 == {r \in Paths : g[r].kind = "file"}
<1>13. CASE q \notin chain \cup Outside /\ f[q].kind = "dir"
  <2>1. /\ PathText(f, below, q, chain) = FlattenSeq(Parts(below, body, plain, deeper))
        /\ PathText(g, below2, q, chain) = FlattenSeq(Parts(below2, body, plain2, deeper))
    BY <1>12, <1>13 DEF PathText, Among, Parts, deeper
  <2>2. f[q] \in Entries /\ \A i \in DOMAIN body : body[i].of \in Paths
    BY <1>6, <1>13, DirectoriesHoldPaths
  <2>3. \A c \in Paths : (IF c \in plain THEN below[c][deeper] ELSE <<>>)
                            = IF c \in plain2 THEN below2[c][deeper] ELSE <<>>
    BY <1>10 DEF OneEdit
  <2>4. Parts(below, body, plain, deeper) = Parts(below2, body, plain2, deeper)
    <3> HIDE DEF body, plain, plain2
    <3>1. QED
      BY <2>2, <2>3 DEF Parts
  <2>5. QED
    BY <1>5, <1>9, <2>1, <2>4
<1>14. CASE q \notin chain \cup Outside /\ f[q].kind # "dir"
  <2>1. /\ PathText(f, below, q, chain) = FlattenSeq(Spelled(f, below, body, deeper))
        /\ PathText(g, below2, q, chain) = FlattenSeq(Spelled(g, below2, body, deeper))
    BY <1>12, <1>14 DEF PathText, Spelled, deeper
  <2>2. body \in Seq(Said)
    BY <1>6, <1>14, FilesHoldLines
  <2>3. ASSUME NEW i \in DOMAIN body
        PROVE  LineText(f, below, body[i], deeper) = LineText(g, below2, body[i], deeper)
    <3> DEFINE line == body[i]
    <3>1. line \in Said
      BY <2>2
    <3> HIDE DEF line, body
    <3>2. line.kind = "wildcard" => line.of \in Paths
      BY <3>1, ContentsAssumption
    <3>3. line.kind = "wildcard" =>
             f[line.of] = g[line.of] \/ (f[line.of].kind # "dir" /\ g[line.of].kind # "dir")
      BY <3>2, EditedDirectories
    <3>4. NamedBy(f, line) \subseteq Paths
      BY <1>6, <3>1, NamedPaths
    <3>5. LineText(f, below, line, deeper) = LineText(g, below2, line, deeper)
      BY <1>6, <1>10, <3>1, <3>3, <3>4, LineSame
    <3>6. QED
      BY <3>5 DEF line
  <2>4. Spelled(f, below, body, deeper) = Spelled(g, below2, body, deeper)
    <3> HIDE DEF body
    <3>1. QED
      BY <2>3 DEF Spelled
  <2>5. QED
    BY <1>5, <1>9, <2>1, <2>4
<1>15. QED
  BY <1>11, <1>13, <1>14

\* A path as it stands there, or would: it fits, or it is not there at all.
Stands(f, n, chain, q) == f[q].kind = "absent" \/ FitsThere(f, n, chain, q)

\* The text of a file wherever it stands.
FileText(f, p) ==
    CHOOSE t : \E n \in 0..(MaxIncludeDepth + 1), chain \in SUBSET Paths :
       Stands(f, n, chain, p) /\ t = Levels(f)[n][p][chain]

\* There is one.
LEMMA FileTextIsItsText ==
    ASSUME NEW f \in [Paths -> Entries], Whole(f), NEW p \in Paths,
           NEW n \in 0..(MaxIncludeDepth + 1), NEW chain \in SUBSET Paths, Stands(f, n, chain, p)
    PROVE  Levels(f)[n][p][chain] = FileText(f, p)
<1> DEFINE N == MaxIncludeDepth + 1
           t == FileText(f, p)
<1>1. PICK l \in 0..N, chain2 \in SUBSET Paths : Stands(f, l, chain2, p) /\ t = Levels(f)[l][p][chain2]
  <2> DEFINE Is(u) == \E k \in 0..N, ch \in SUBSET Paths : Stands(f, k, ch, p) /\ u = Levels(f)[k][p][ch]
  <2>1. Is(Levels(f)[n][p][chain])
    OBVIOUS
  <2>2. t = CHOOSE u : Is(u)
    BY DEF FileText
  <2> HIDE DEF Is, t
  <2>3. Is(t)
    BY <2>1, <2>2, Zenon
  <2>4. QED
    BY <2>3 DEF Is
<1>2. CASE f[p].kind = "absent"
  <2>1. Levels(f)[n][p][chain] = <<>>
    BY <1>2, RefusedSaysNothing
  <2>2. Levels(f)[l][p][chain2] = <<>>
    BY <1>2, RefusedSaysNothing
  <2>3. QED
    BY <1>1, <2>1, <2>2
<1>3. CASE f[p].kind # "absent"
  <2>1. FitsThere(f, n, chain, p) /\ FitsThere(f, l, chain2, p)
    BY <1>1, <1>3 DEF Stands
  <2>2. QED
    BY <1>1, <2>1, TextOfAFile
<1>4. QED
  BY <1>2, <1>3

----------------------------------------------------------------------------
(* Reading while a file is edited                                          *)

\* The levels of includes that are left for an item.
Down(item) == MaxIncludeDepth + 1 - item.depth

\* What an item names stands there, in the torrc f.
OnTrack(f, item) ==
    IF item.line.kind = "visit"
      THEN Down(item) = 0 \/ Stands(f, Down(item), item.chain, item.path)
      ELSE \A q \in NamedBy(f, item.line) : Stands(f, Down(item) - 1, item.chain, q)

\* An item that is part of the file p, or that stands where it would before
\* the edit and after it.
Placed(f, g, p, item) == p \in item.chain \/ (OnTrack(f, item) /\ OnTrack(g, item))

\* What can be read of an item, with p as it is in f or as it is in g each time
\* it comes up: what is part of p is no longer affected.
CanRead(f, g, p, item, t) ==
    IF p \in item.chain THEN t = Meaning(f, item)
    ELSE Blend(Effect(FileText(f, p)), Effect(FileText(g, p)), Meaning(f, item), Meaning(g, item), t)

\* The same of all items of a sequence.
CanReadAll(f, g, p, items, t) ==
    \E ts \in Seq(Seq(Said)) :
       /\ Len(ts) = Len(items)
       /\ \A i \in 1..Len(items) : CanRead(f, g, p, items[i], ts[i])
       /\ t = FlattenSeq(ts)

\* Every text has one of the effects.
LEMMA EffectIsOne == \A t : Effect(t) \in Effects
BY DEF Effect, Effects, LastWords

\* What is part of the file means the same before the edit and after it.
LEMMA PartOfTheFile ==
    ASSUME NEW f, NEW g, NEW p, OneEdit(f, g, p),
           NEW item \in Items, Admitted(item), p \in item.chain
    PROVE  Meaning(f, item) = Meaning(g, item)
<1> DEFINE n == MaxIncludeDepth + 1 - item.depth
           line == item.line
<1>1. f \in [Paths -> Entries] /\ g \in [Paths -> Entries] /\ item.path \in Paths
      /\ item.chain \in SUBSET Paths
  BY DEF OneEdit, Items
<1>2. /\ n \in 0..(MaxIncludeDepth + 1)
      /\ line.kind # "visit" => n # 0 /\ line \in Said
  BY <1>1, MeaningIsText
<1> HIDE DEF n
<1>3. CASE line.kind = "visit"
  <2>1. Levels(f)[n][item.path][item.chain] = Levels(g)[n][item.path][item.chain]
    BY <1>1, <1>2, BelowTheFile
  <2>2. QED
    BY <1>3, <2>1 DEF Meaning, n
<1>4. CASE line.kind # "visit"
  <2> DEFINE below == Levels(f)[n - 1]
             below2 == Levels(g)[n - 1]
  <2>1. n - 1 \in 0..(MaxIncludeDepth + 1)
    BY <1>2, <1>4, PathsAssumption
  <2>2. \A q \in Paths : below[q][item.chain] = below2[q][item.chain]
    BY <1>1, <2>1, BelowTheFile
  <2> HIDE DEF below, below2, line
  <2>3. line.kind = "wildcard" => line.of \in Paths
    BY <1>2, <1>4, ContentsAssumption
  <2>4. line.kind = "wildcard" =>
           f[line.of] = g[line.of] \/ (f[line.of].kind # "dir" /\ g[line.of].kind # "dir")
    BY <2>3, EditedDirectories
  <2>5. NamedBy(f, line) \subseteq Paths
    BY <1>1, <1>2, <1>4, NamedPaths
  <2>6. LineText(f, below, line, item.chain) = LineText(g, below2, line, item.chain)
    BY <1>1, <1>2, <1>4, <2>2, <2>4, <2>5, LineSame
  <2>7. QED
    BY <1>4, <2>6 DEF Meaning, n, below, below2, line
<1>5. QED
  BY <1>3, <1>4

\* Where items mean, before and after, what the item means that they come of,
\* what can be read of them can be read of it.
LEMMA ReadOfItems ==
    ASSUME NEW f, NEW g, NEW p, OneEdit(f, g, p), NEW item,
           NEW new, AllAdmitted(new),
           \A i \in DOMAIN new : p \in new[i].chain <=> p \in item.chain,
           Rest(f, new) = Meaning(f, item), Rest(g, new) = Meaning(g, item),
           NEW t, CanReadAll(f, g, p, new, t)
    PROVE  CanRead(f, g, p, item, t)
<1> DEFINE ss == Meanings(f, new)
           us == Meanings(g, new)
           n == Len(new)
<1>1. f \in [Paths -> Entries] /\ g \in [Paths -> Entries]
  BY DEF OneEdit
<1>2. ss \in Seq(Seq(Said)) /\ us \in Seq(Seq(Said))
  BY <1>1, MeaningsAreTexts
<1>3. n \in Nat /\ DOMAIN new = 1..n
  BY DEF AllAdmitted
<1>4. /\ DOMAIN ss = 1..n /\ \A i \in 1..n : ss[i] = Meaning(f, new[i])
      /\ DOMAIN us = 1..n /\ \A i \in 1..n : us[i] = Meaning(g, new[i])
  BY <1>3 DEF Meanings
<1> HIDE DEF ss, us, n
<1>5. Len(ss) = n /\ Len(us) = n
  BY <1>2, <1>3, <1>4
<1>6. PICK ts \in Seq(Seq(Said)) :
         /\ Len(ts) = n /\ \A i \in 1..n : CanRead(f, g, p, new[i], ts[i])
         /\ t = FlattenSeq(ts)
  BY DEF CanReadAll, n
<1>7. CASE p \in item.chain
  <2>1. \A i \in 1..n : ts[i] = ss[i]
    BY <1>3, <1>4, <1>6, <1>7 DEF CanRead
  <2>2. ts = ss
    BY <1>2, <1>5, <1>6, <2>1, SeqEqual
  <2>3. QED
    BY <1>6, <1>7, <2>2 DEF CanRead, Rest, ss
<1>8. CASE p \notin item.chain
  <2> DEFINE a == Effect(FileText(f, p))
             b == Effect(FileText(g, p))
  <2>1. a \in Effects /\ b \in Effects
    BY EffectIsOne
  <2>2. \A i \in 1..n : Blend(a, b, ss[i], us[i], ts[i])
    BY <1>3, <1>4, <1>6, <1>8 DEF CanRead
  <2> HIDE DEF a, b
  <2>3. Blend(a, b, FlattenSeq(ss), FlattenSeq(us), FlattenSeq(ts))
    BY <1>2, <1>5, <1>6, <2>1, <2>2, BlendOfMany
  <2>4. QED
    BY <1>6, <1>8, <2>3 DEF CanRead, Rest, ss, us, a, b
<1>9. QED
  BY <1>7, <1>8

\* One include deeper, or passed over.
LEMMA DeeperMeans ==
    ASSUME NEW f \in [Paths -> Entries], NEW item, item.chain \in SUBSET Paths,
           item.depth \in 0..MaxIncludeDepth, NEW q \in Paths
    PROVE  /\ Down(item) \in 1..(MaxIncludeDepth + 1)
           /\ Enter(item, q).line.kind = "visit" /\ Enter(item, q).path = q
           /\ Enter(item, q).chain = item.chain /\ Down(Enter(item, q)) = Down(item) - 1
           /\ Meaning(f, Enter(item, q)) = Levels(f)[Down(item) - 1][q][item.chain]
           /\ PassOver(item, q).line.kind = "visit" /\ PassOver(item, q).path = q
           /\ PassOver(item, q).chain = item.chain /\ Down(PassOver(item, q)) = 0
           /\ Meaning(f, PassOver(item, q)) = <<>>
<1>1. MaxIncludeDepth \in Nat
  BY PathsAssumption
<1>2. /\ Enter(item, q).line.kind = "visit" /\ Enter(item, q).path = q
      /\ Enter(item, q).chain = item.chain /\ Enter(item, q).depth = item.depth + 1
      /\ PassOver(item, q).line.kind = "visit" /\ PassOver(item, q).path = q
      /\ PassOver(item, q).chain = item.chain /\ PassOver(item, q).depth = MaxIncludeDepth + 1
  BY DEF Enter, PassOver, Item, VisitLine
<1>3. /\ Down(item) \in 1..(MaxIncludeDepth + 1)
      /\ Down(Enter(item, q)) = Down(item) - 1 /\ Down(PassOver(item, q)) = 0
  BY <1>1, <1>2 DEF Down
<1>4. \A i : i.line.kind = "visit" => Meaning(f, i) = Levels(f)[Down(i)][i.path][i.chain]
  BY DEF Meaning, Down
<1>5. Levels(f)[0][q][item.chain] = <<>>
  BY LevelsAreTexts
<1>6. QED
  BY <1>2, <1>3, <1>4, <1>5

\* A file that is opened means what its lines do, in every torrc that has it.
LEMMA FileMeans ==
    ASSUME NEW f \in [Paths -> Entries], NEW item \in Items, Admitted(item),
           item.line.kind = "visit", ~Refused(item),
           f[item.path] = fs[item.path], f[item.path].kind # "dir"
    PROVE  Rest(f, Resolved(item)) = Meaning(f, item)
<1> DEFINE n == Down(item)
           p == item.path
           body == f[p].body
           below == Levels(f)[n - 1]
           deeper == item.chain \cup {p}
           inside == [item EXCEPT !.chain = @ \cup {item.path}]
           new(i) == Item(body[i], item.path, inside.chain, item.depth)
<1>1. /\ p \in Paths /\ item.chain \in SUBSET Paths /\ p \notin item.chain \cup Outside
      /\ item.depth \in Nat /\ item.depth <= MaxIncludeDepth /\ MaxIncludeDepth \in Nat
  BY PathsAssumption DEF Items, Refused
<1>2. n \in 1..(MaxIncludeDepth + 1)
  BY <1>1 DEF Down
<1>3. Meaning(f, item) = PathText(f, below, p, item.chain)
  <2>1. Meaning(f, item) = Levels(f)[n][p][item.chain]
    BY DEF Meaning, Down
  <2> HIDE DEF n
  <2>2. QED
    BY <1>1, <1>2, <2>1, LevelsAreTexts
<1>4. PathText(f, below, p, item.chain) = FlattenSeq(Spelled(f, below, body, deeper))
  BY <1>1 DEF PathText, Spelled
<1>5. inside.chain = deeper
  BY DEF Items
<1>6. Resolved(item) = [i \in DOMAIN body |-> new(i)]
  BY DEF Resolved
<1>7. body \in Seq(Said)
  BY <1>1, FilesHoldLines
<1>8. ASSUME NEW i \in DOMAIN body
      PROVE  Meaning(f, new(i)) = LineText(f, below, body[i], deeper)
  <2>1. body[i] \in Said
    BY <1>7
  <2>2. body[i].kind # "visit"
    BY <2>1, ContentsAssumption
  <2>3. new(i).line = body[i] /\ new(i).chain = deeper /\ new(i).depth = item.depth
    BY <1>5 DEF Item
  <2> HIDE DEF new, body, deeper, inside
  <2>4. QED
    BY <2>2, <2>3 DEF Meaning, Down
<1>9. Meanings(f, Resolved(item)) = Spelled(f, below, body, deeper)
  <2> HIDE DEF new, body, deeper, inside, below
  <2>1. QED
    BY <1>6, <1>8 DEF Meanings, Spelled
<1>10. QED
  BY <1>3, <1>4, <1>9 DEF Rest

\* The lines of a file that is opened.
LEMMA ResolvedFile ==
    ASSUME NEW item \in Items, ~Refused(item), fs[item.path].kind # "dir"
    PROVE  /\ DOMAIN Resolved(item) = DOMAIN fs[item.path].body
           /\ \A i \in DOMAIN Resolved(item) :
                 /\ Resolved(item)[i].line = fs[item.path].body[i]
                 /\ Resolved(item)[i].chain = item.chain \cup {item.path}
                 /\ Resolved(item)[i].depth = item.depth
<1> DEFINE inside == [item EXCEPT !.chain = @ \cup {item.path}]
           body == fs[item.path].body
<1>1. Resolved(item) = [i \in DOMAIN body |-> Item(body[i], item.path, inside.chain, item.depth)]
  BY DEF Resolved
<1>2. inside.chain = item.chain \cup {item.path}
  BY DEF Items
<1> HIDE DEF inside
<1>3. QED
  BY <1>1, <1>2 DEF Item

\* A file is opened: p itself, as it is now, or one that the edit leaves alone.
LEMMA ReadOfAFile ==
    ASSUME TypeOK, NEW f, NEW g, NEW p, OneEdit(f, g, p), fs \in {f, g},
           NEW item \in Items, Admitted(item), Placed(f, g, p, item), item.line.kind = "visit",
           ~Refused(item), fs[item.path].kind # "dir",
           NEW t, CanReadAll(f, g, p, Resolved(item), t)
    PROVE  CanRead(f, g, p, item, t)
<1> DEFINE new == Resolved(item)
<1>1. /\ f \in [Paths -> Entries] /\ g \in [Paths -> Entries] /\ p \in Paths
      /\ Whole(f) /\ Whole(g) /\ item.path \in Paths /\ item.chain \in SUBSET Paths
  BY DEF OneEdit, Items
<1>2. AllAdmitted(new)
  BY ResolvedIsAdmitted DEF AllAdmitted
<1>3. \A i \in DOMAIN new : new[i].chain = item.chain \cup {item.path}
  BY ResolvedFile
<1> HIDE DEF new
<1>4. CASE item.path # p
  <2>1. f[item.path] = fs[item.path] /\ g[item.path] = fs[item.path]
    BY <1>1, <1>4 DEF OneEdit
  <2>2. Rest(f, new) = Meaning(f, item) /\ Rest(g, new) = Meaning(g, item)
    BY <1>1, <2>1, FileMeans DEF new
  <2>3. \A i \in DOMAIN new : p \in new[i].chain <=> p \in item.chain
    BY <1>3, <1>4
  <2>4. CanReadAll(f, g, p, new, t)
    BY DEF new
  <2>5. QED
    BY <1>2, <2>2, <2>3, <2>4, ReadOfItems
<1>5. CASE item.path = p
  <2>1. p \notin item.chain /\ Down(item) \in 1..(MaxIncludeDepth + 1)
    BY <1>5, PathsAssumption DEF Refused, Items, Down
  <2>2. /\ Stands(f, Down(item), item.chain, p) /\ Stands(g, Down(item), item.chain, p)
    BY <1>5, <2>1 DEF Placed, OnTrack
  <2>3. Meaning(f, item) = FileText(f, p) /\ Meaning(g, item) = FileText(g, p)
    <3>1. \A h : Meaning(h, item) = Levels(h)[Down(item)][p][item.chain]
      BY <1>5 DEF Meaning, Down
    <3>2. Down(item) \in 0..(MaxIncludeDepth + 1)
      BY <2>1
    <3>3. QED
      BY <1>1, <2>2, <3>1, <3>2, FileTextIsItsText
  <2>4. PICK ts \in Seq(Seq(Said)) :
           /\ Len(ts) = Len(new) /\ \A i \in 1..Len(new) : CanRead(f, g, p, new[i], ts[i])
           /\ t = FlattenSeq(ts)
    BY DEF CanReadAll, new
  <2>5. new \in Seq(Items) /\ DOMAIN new = 1..Len(new) /\ Len(new) \in Nat
        /\ \A i \in 1..Len(new) : new[i] \in Items /\ Admitted(new[i])
    BY <1>2 DEF AllAdmitted
  <2>6. ASSUME NEW i \in 1..Len(new) PROVE ts[i] = Meaning(fs, new[i])
    <3>1. p \in new[i].chain
      BY <1>3, <1>5, <2>5
    <3>2. ts[i] = Meaning(f, new[i])
      BY <2>4, <3>1 DEF CanRead
    <3>3. Meaning(f, new[i]) = Meaning(g, new[i])
      BY <2>5, <3>1, PartOfTheFile
    <3>4. QED
      BY <3>2, <3>3
  <2>7. fs \in [Paths -> Entries]
    BY <1>1
  <2>8. t = Rest(fs, new)
    <3> DEFINE ss == Meanings(fs, new)
    <3>1. ss \in Seq(Seq(Said))
      BY <1>2, <2>7, MeaningsAreTexts
    <3>2. DOMAIN ss = 1..Len(new) /\ \A i \in 1..Len(new) : ss[i] = Meaning(fs, new[i])
      BY <2>5 DEF Meanings
    <3> HIDE DEF ss
    <3>3. Len(ss) = Len(new)
      BY <2>5, <3>1, <3>2
    <3>4. ts = ss
      BY <2>4, <2>6, <3>1, <3>2, <3>3, SeqEqual
    <3>5. QED
      BY <2>4, <3>4 DEF Rest, ss
  <2>9. t = Meaning(fs, item)
    BY <2>8, VisitMeans DEF new
  <2>10. t = FileText(f, p) \/ t = FileText(g, p)
    BY <2>3, <2>9
  <2>11. FileText(f, p) \in Seq(Said) /\ FileText(g, p) \in Seq(Said)
    BY <1>1, <2>3, MeaningIsText
  <2>12. Blend(Effect(FileText(f, p)), Effect(FileText(g, p)), FileText(f, p), FileText(g, p), t)
    BY <2>10, <2>11, BlendsOfOne
  <2>13. QED
    BY <2>1, <2>3, <2>12 DEF CanRead
<1>6. QED
  BY <1>4, <1>5

\* What is listed in a directory, which p may or may not be taken from.
LEMMA ReadOfADirectory ==
    ASSUME TypeOK, NEW f, NEW g, NEW p, OneEdit(f, g, p), fs \in {f, g},
           NEW item \in Items, Admitted(item), Placed(f, g, p, item), item.line.kind = "visit",
           ~Refused(item), fs[item.path].kind = "dir",
           NEW t, CanReadAll(f, g, p, Resolved(item), t)
    PROVE  CanRead(f, g, p, item, t)
<1> DEFINE new == Resolved(item)
           inside == [item EXCEPT !.chain = @ \cup {item.path}]
           deeper == item.chain \cup {item.path}
           body == fs[item.path].body
           n == Down(item)
           plain(h) == {q \in Paths : h[q].kind = "file"}
           parts(h) == Parts(Levels(h)[n - 1], body, plain(h), deeper)
<1>1. /\ f \in [Paths -> Entries] /\ g \in [Paths -> Entries] /\ fs \in [Paths -> Entries]
      /\ p \in Paths /\ Whole(f) /\ Whole(g) /\ item.path \in Paths /\ item.chain \in SUBSET Paths
      /\ item.path \notin item.chain \cup Outside /\ item.depth \in 0..MaxIncludeDepth
      /\ MaxIncludeDepth \in Nat
  BY PathsAssumption DEF OneEdit, Items, Refused, TypeOK
<1>2. item.path # p /\ f[item.path] = fs[item.path] /\ g[item.path] = fs[item.path]
  BY <1>1 DEF OneEdit
<1>3. n \in 1..(MaxIncludeDepth + 1) /\ n - 1 \in 0..(MaxIncludeDepth + 1)
  BY <1>1 DEF Down
<1>4. /\ inside.chain = deeper /\ inside.depth = item.depth /\ Down(inside) = n
      /\ deeper \in SUBSET Paths
  BY <1>1 DEF Items, Down
<1>5. /\ new = Children(inside, body, PlainFiles) /\ AllAdmitted(new)
      /\ body \in Seq(Lines) /\ \A i \in DOMAIN body : body[i].of \in Paths
  <2>1. fs[item.path] \in Entries
    BY <1>1
  <2>2. body \in Seq(Lines) /\ \A i \in DOMAIN body : body[i].of \in Paths
    BY <2>1, BodyIsLines, DirectoriesHoldPaths
  <2>3. new = Children(inside, body, PlainFiles)
    BY DEF Resolved
  <2>4. AllAdmitted(new)
    BY ResolvedIsAdmitted DEF AllAdmitted
  <2>5. QED
    BY <2>2, <2>3, <2>4
<1>6. ASSUME NEW h \in {f, g}
      PROVE  /\ parts(h) \in Seq(Seq(Said)) /\ Len(parts(h)) = Len(body)
             /\ Meaning(h, item) = FlattenSeq(parts(h))
  <2>1. Levels(h)[n - 1] \in Belows
    BY <1>1, <1>3, LevelsAreTexts
  <2>2. Meaning(h, item) = Levels(h)[n][item.path][item.chain]
    BY DEF Meaning, Down
  <2>3. Levels(h)[n][item.path][item.chain] = PathText(h, Levels(h)[n - 1], item.path, item.chain)
    <3> HIDE DEF n
    <3>1. QED
      BY <1>1, <1>3, LevelsAreTexts
  <2>4. PathText(h, Levels(h)[n - 1], item.path, item.chain)
        = Among(Levels(h)[n - 1], body, plain(h), deeper)
    <3> HIDE DEF n
    <3>1. QED
      BY <1>1, <1>2 DEF PathText
  <2> DEFINE below == Levels(h)[n - 1]
             taken == plain(h)
  <2> HIDE DEF below, taken, body, deeper, plain, n
  <2>5. /\ Parts(below, body, taken, deeper) \in Seq(Seq(Said))
        /\ Among(below, body, taken, deeper) = FlattenSeq(Parts(below, body, taken, deeper))
    BY <1>4, <1>5, <2>1, AmongIsText DEF below
  <2>6. Len(Parts(below, body, taken, deeper)) = Len(body)
    <3>1. DOMAIN Parts(below, body, taken, deeper) = DOMAIN body
      BY DEF Parts
    <3>2. DOMAIN body = 1..Len(body) /\ Len(body) \in Nat
      BY <1>5
    <3>3. QED
      BY <2>5, <3>1, <3>2
  <2>7. QED
    BY <2>2, <2>3, <2>4, <2>5, <2>6 DEF below, taken
<1>7. ASSUME NEW i \in DOMAIN body, NEW h \in {f, g}
      PROVE  /\ new[i].chain = deeper
             /\ Meaning(h, new[i]) = IF fs[body[i].of].kind = "file"
                                        THEN Levels(h)[n - 1][body[i].of][deeper] ELSE <<>>
             /\ parts(h)[i] = IF h[body[i].of].kind = "file"
                                 THEN Levels(h)[n - 1][body[i].of][deeper] ELSE <<>>
  <2> DEFINE q == body[i].of
  <2>1. q \in Paths /\ h \in [Paths -> Entries]
    BY <1>1, <1>5
  <2>2. new[i] = IF q \in PlainFiles THEN Enter(inside, q) ELSE PassOver(inside, q)
    <3> HIDE DEF new, inside, body
    <3>1. QED
      BY <1>5 DEF Children, q
  <2>3. parts(h)[i] = IF q \in plain(h) THEN Levels(h)[n - 1][q][deeper] ELSE <<>>
    BY DEF Parts
  <2> HIDE DEF new, inside, deeper, body, q, n, parts
  <2>4. /\ Enter(inside, q).chain = deeper
        /\ Meaning(h, Enter(inside, q)) = Levels(h)[n - 1][q][deeper]
        /\ PassOver(inside, q).chain = deeper
        /\ Meaning(h, PassOver(inside, q)) = <<>>
    BY <1>1, <1>4, <2>1, DeeperMeans
  <2>5. q \in PlainFiles <=> fs[q].kind = "file"
    BY <2>1 DEF PlainFiles
  <2>6. q \in plain(h) <=> h[q].kind = "file"
    BY <2>1
  <2>7. QED
    BY <2>2, <2>3, <2>4, <2>5, <2>6 DEF q
<1>8. DOMAIN new = DOMAIN body /\ DOMAIN body = 1..Len(body) /\ Len(body) \in Nat /\ Len(new) = Len(body)
  <2>1. DOMAIN new = DOMAIN body
    BY <1>5 DEF Children
  <2> HIDE DEF new, body
  <2>2. QED
    BY <1>5, <2>1 DEF AllAdmitted
<1> HIDE DEF new, inside, deeper, body, n, plain, parts
<1>9. ASSUME NEW q \in Paths, NEW h \in {f, g}, q # p PROVE h[q] = fs[q]
  BY <1>9 DEF OneEdit
<1>10. CASE p \in item.chain
  <2>1. p \in deeper
    BY <1>10 DEF deeper
  <2>2. ASSUME NEW h \in {f, g} PROVE Rest(h, new) = Meaning(h, item)
    <3>1. ASSUME NEW i \in DOMAIN body PROVE Meaning(h, new[i]) = parts(h)[i]
      <4>1. body[i].of \in Paths
        BY <1>5
      <4>2. CASE body[i].of # p
        BY <1>7, <1>9, <4>1, <4>2
      <4>3. CASE body[i].of = p
        <5>1. Levels(h)[n - 1][p][deeper] = <<>>
          BY <1>1, <1>3, <1>4, <2>1, RefusedSaysNothing
        <5>2. QED
          BY <1>7, <4>3, <5>1
      <4>4. QED
        BY <4>2, <4>3
    <3>2. Meanings(h, new) = parts(h)
      <4> DEFINE ss == Meanings(h, new)
      <4>1. ss \in Seq(Seq(Said))
        BY <1>1, <1>5, MeaningsAreTexts
      <4>2. DOMAIN ss = 1..Len(body) /\ \A i \in 1..Len(body) : ss[i] = Meaning(h, new[i])
        BY <1>8 DEF Meanings
      <4> HIDE DEF ss
      <4>3. Len(ss) = Len(body)
        BY <1>8, <4>1, <4>2
      <4>4. \A i \in 1..Len(body) : ss[i] = parts(h)[i]
        BY <1>8, <3>1, <4>2
      <4>5. parts(h) \in Seq(Seq(Said)) /\ Len(parts(h)) = Len(body)
        BY <1>6
      <4>6. ss = parts(h)
        BY <4>1, <4>3, <4>4, <4>5, SeqEqual
      <4>7. QED
        BY <4>6 DEF ss
    <3>3. QED
      BY <1>6, <3>2 DEF Rest
  <2>3. \A i \in DOMAIN new : p \in new[i].chain <=> p \in item.chain
    BY <1>7, <1>8, <1>10, <2>1
  <2>4. CanReadAll(f, g, p, new, t)
    BY DEF new
  <2>5. QED
    BY <1>5, <2>2, <2>3, <2>4, ReadOfItems
<1>11. CASE p \notin item.chain
  <2> DEFINE a == Effect(FileText(f, p))
             b == Effect(FileText(g, p))
  <2>1. p \notin deeper
    BY <1>2, <1>11 DEF deeper
  <2>2. PICK ts \in Seq(Seq(Said)) :
           /\ Len(ts) = Len(body) /\ \A i \in 1..Len(body) : CanRead(f, g, p, new[i], ts[i])
           /\ t = FlattenSeq(ts)
    BY <1>8 DEF CanReadAll, new
  <2>3. ASSUME NEW i \in DOMAIN body
        PROVE  Blend(a, b, Meaning(f, new[i]), Meaning(g, new[i]), ts[i])
    BY <1>7, <1>8, <2>1, <2>2 DEF CanRead
  <2>4. ASSUME NEW h \in {f, g}, NEW i \in DOMAIN body, body[i].of = p
        PROVE  parts(h)[i] = FileText(h, p) /\ Levels(h)[n - 1][p][deeper] = FileText(h, p)
    <3>1. h[p].kind \in {"file", "absent"}
      BY <1>1, EditedDirectories
    <3>2. OnTrack(h, item)
      BY <1>11 DEF Placed
    <3>3. Stands(h, n, item.chain, item.path)
      BY <1>3, <3>2 DEF OnTrack, n
    <3>4. h[item.path].kind = "dir"
      BY <1>2
    <3>5. FitsThere(h, n, item.chain, item.path)
      BY <3>3, <3>4 DEF Stands
    <3>6. h[p].kind = "file" => p \in Brought(h, item.path)
      BY <1>1, <1>2, <2>4, <3>4, BroughtIsNamed DEF body
    <3>7. \A c \in Brought(h, item.path) : FitsThere(h, n - 1, deeper, c)
      <4>1. n \in 0..(MaxIncludeDepth + 1) /\ Whole(h)
        BY <1>1, <1>3
      <4>2. QED
        BY <3>5, <4>1, FitsDown DEF deeper
    <3>8. Stands(h, n - 1, deeper, p)
      BY <3>1, <3>6, <3>7 DEF Stands
    <3>9. Levels(h)[n - 1][p][deeper] = FileText(h, p)
      BY <1>1, <1>3, <1>4, <3>8, FileTextIsItsText
    <3>10. h[p].kind = "absent" => Levels(h)[n - 1][p][deeper] = <<>>
      <4>1. /\ h \in [Paths -> Entries] /\ p \in Paths /\ deeper \in SUBSET Paths
            /\ n - 1 \in 0..(MaxIncludeDepth + 1)
        BY <1>1, <1>3, <1>4
      <4> HIDE DEF n, deeper
      <4>2. QED
        BY <4>1, RefusedSaysNothing
    <3>11. QED
      BY <1>7, <2>4, <3>1, <3>9, <3>10
  <2>5. ASSUME NEW i \in DOMAIN body PROVE Blend(a, b, parts(f)[i], parts(g)[i], ts[i])
    <3>1. body[i].of \in Paths
      BY <1>5
    <3>2. CASE body[i].of # p
      <4>1. Meaning(f, new[i]) = parts(f)[i] /\ Meaning(g, new[i]) = parts(g)[i]
        BY <1>7, <1>9, <3>1, <3>2
      <4>2. QED
        BY <2>3, <4>1
    <3>3. CASE body[i].of = p /\ fs[p].kind = "file"
      <4>1. Meaning(f, new[i]) = parts(f)[i] /\ Meaning(g, new[i]) = parts(g)[i]
        BY <1>7, <2>4, <3>3
      <4>2. QED
        BY <2>3, <4>1
    <3>4. CASE body[i].of = p /\ fs[p].kind # "file"
      <4>1. Meaning(f, new[i]) = <<>> /\ Meaning(g, new[i]) = <<>>
        BY <1>7, <3>4
      <4>2. ts[i] \in Seq(Said) /\ Effect(ts[i]) = "silent"
        BY <2>3, <4>1, EffectOfNothing DEF Blend, Mixed
      <4>3. parts(fs)[i] = <<>>
        BY <1>7, <3>4
      <4>4. Effect(ts[i]) \in {a, b}
        BY <2>4, <3>4, <4>2, <4>3, EffectOfNothing
      <4>5. /\ parts(f)[i] \in Seq(Said) /\ parts(g)[i] \in Seq(Said)
            /\ Effect(parts(f)[i]) = a /\ Effect(parts(g)[i]) = b
        <5>1. i \in 1..Len(body)
          BY <1>8
        <5>2. parts(f)[i] \in Seq(Said) /\ parts(g)[i] \in Seq(Said)
          BY <1>6, <5>1
        <5>3. QED
          BY <2>4, <3>4, <5>2
      <4>6. QED
        BY <4>2, <4>4, <4>5 DEF Blend, Mixed
    <3>5. QED
      BY <3>2, <3>3, <3>4
  <2>6. a \in Effects /\ b \in Effects
    BY EffectIsOne
  <2> HIDE DEF a, b
  <2>7. Blend(a, b, FlattenSeq(parts(f)), FlattenSeq(parts(g)), FlattenSeq(ts))
    <3>1. /\ parts(f) \in Seq(Seq(Said)) /\ parts(g) \in Seq(Seq(Said))
          /\ Len(parts(f)) = Len(body) /\ Len(parts(g)) = Len(body)
      BY <1>6
    <3> DEFINE ss == parts(f)
               us == parts(g)
    <3> HIDE DEF ss, us
    <3>2. /\ ss \in Seq(Seq(Said)) /\ us \in Seq(Seq(Said))
          /\ Len(us) = Len(ss) /\ Len(ts) = Len(ss) /\ Len(ss) = Len(body)
          /\ \A i \in 1..Len(ss) : Blend(a, b, ss[i], us[i], ts[i])
      BY <1>8, <2>2, <2>5, <3>1 DEF ss, us
    <3>3. Blend(a, b, FlattenSeq(ss), FlattenSeq(us), FlattenSeq(ts))
      BY <2>6, <3>2, BlendOfMany
    <3>4. QED
      BY <3>3 DEF ss, us
  <2>8. QED
    BY <1>6, <1>11, <2>2, <2>7 DEF CanRead, a, b
<1>12. QED
  BY <1>10, <1>11

\* A wildcard means what it matches, in every torrc that has the directory.
LEMMA WildcardMeans ==
    ASSUME NEW f \in [Paths -> Entries], NEW item \in Items, Admitted(item),
           item.line.kind = "wildcard", fs \in [Paths -> Entries],
           \/ f[item.line.of] = fs[item.line.of]
           \/ f[item.line.of].kind # "dir" /\ fs[item.line.of].kind # "dir"
    PROVE  Rest(f, Matches(item)) = Meaning(f, item)
<1> DEFINE n == MaxIncludeDepth + 1 - item.depth
           below == Levels(f)[n - 1]
           of == item.line.of
           entry == f[of]
<1>1. /\ item.chain \in SUBSET Paths /\ item.depth \in Nat /\ MaxIncludeDepth \in Nat
      /\ item.depth <= MaxIncludeDepth /\ of \in Paths
  BY PathsAssumption, LinesNamePaths DEF Items, Admitted
<1>2. Meaning(f, item) = LineText(f, below, item.line, item.chain)
  BY DEF Meaning
<1>3. entry \in Entries /\ entry.body \in Seq(Lines)
  BY <1>1, BodyIsLines
<1>4. CASE of \in Outside \/ entry.kind # "dir"
  <2>1. Matches(item) = <<>> /\ LineText(f, below, item.line, item.chain) = <<>>
    BY <1>4 DEF Matches, LineText
  <2>2. Rest(f, <<>>) = <<>>
    BY RestOfOne
  <2>3. QED
    BY <1>2, <2>1, <2>2
<1>5. CASE of \notin Outside /\ entry.kind = "dir"
  <2>1. Matches(item) = Children(item, entry.body, item.line.match)
    BY <1>5 DEF Matches
  <2>2. LineText(f, below, item.line, item.chain)
        = Among(below, entry.body, item.line.match, item.chain)
    BY <1>5 DEF LineText
  <2>3. item.depth \in 0..MaxIncludeDepth /\ n - 1 = MaxIncludeDepth - item.depth
    BY <1>1
  <2> HIDE DEF entry, n
  <2>4. \A i \in DOMAIN entry.body : entry.body[i].of \in Paths
    BY <1>3, <1>5, DirectoriesHoldPaths
  <2>5. Rest(f, Children(item, entry.body, item.line.match))
        = Among(Levels(f)[MaxIncludeDepth - item.depth], entry.body, item.line.match, item.chain)
    BY <1>1, <1>3, <2>3, <2>4, ChildrenMean
  <2>6. QED
    BY <1>2, <2>1, <2>2, <2>3, <2>5
<1>6. QED
  BY <1>4, <1>5

\* An include means what the path does that it names.
LEMMA IncludeMeans ==
    ASSUME NEW f \in [Paths -> Entries], NEW item \in Items, Admitted(item),
           item.line.kind = "include"
    PROVE  Rest(f, <<Enter(item, item.line.of)>>) = Meaning(f, item)
<1> DEFINE of == item.line.of
           deeper == Enter(item, of)
<1>1. /\ item.chain \in SUBSET Paths /\ item.chain \cap Outside = {}
      /\ item.depth \in Nat /\ item.depth <= MaxIncludeDepth /\ of \in Paths
      /\ item.depth \in 0..MaxIncludeDepth
  BY PathsAssumption, LinesNamePaths DEF Items, Admitted
<1>2. deeper \in Items /\ Admitted(deeper)
  BY <1>1, DeeperIsAdmitted
<1>3. Meaning(f, deeper) = Levels(f)[Down(item) - 1][of][item.chain]
  BY <1>1, DeeperMeans
<1>4. Meaning(f, item) = Levels(f)[Down(item) - 1][of][item.chain]
  BY DEF Meaning, LineText, Down
<1> HIDE DEF deeper
<1>5. Rest(f, <<deeper>>) = Meaning(f, deeper)
  BY <1>2, RestOfOne
<1>6. QED
  BY <1>3, <1>4, <1>5 DEF deeper

\* What comes of a line stands in the same chain.
LEMMA ChildrenStand ==
    ASSUME NEW item, NEW body, NEW taken
    PROVE  \A i \in DOMAIN Children(item, body, taken) :
              /\ Children(item, body, taken)[i].chain = item.chain
              /\ i \in DOMAIN body
              /\ \/ /\ body[i].of \in taken
                    /\ Children(item, body, taken)[i] = Enter(item, body[i].of)
                 \/ Children(item, body, taken)[i] = PassOver(item, body[i].of)
BY DEF Children, Enter, PassOver, Item

\* An include is followed, or a wildcard expanded.
LEMMA ReadOfALine ==
    ASSUME TypeOK, NEW f, NEW g, NEW p, OneEdit(f, g, p), fs \in {f, g},
           NEW item \in Items, Admitted(item), NEW new,
           \/ item.line.kind = "include" /\ new = <<Enter(item, item.line.of)>>
           \/ item.line.kind = "wildcard" /\ new = Matches(item),
           NEW t, CanReadAll(f, g, p, new, t)
    PROVE  CanRead(f, g, p, item, t)
<1>1. f \in [Paths -> Entries] /\ g \in [Paths -> Entries] /\ fs \in [Paths -> Entries]
  BY DEF OneEdit, TypeOK
<1>2. CASE item.line.kind = "include" /\ new = <<Enter(item, item.line.of)>>
  <2> DEFINE deeper == Enter(item, item.line.of)
  <2>1. deeper \in Items /\ Admitted(deeper) /\ deeper.chain = item.chain
    <3>1. /\ item.chain \in SUBSET Paths /\ item.chain \cap Outside = {}
          /\ item.depth \in Nat /\ item.depth <= MaxIncludeDepth /\ item.line.of \in Paths
      BY <1>2, LinesNamePaths DEF Items, Admitted
    <3>2. deeper.chain = item.chain
      BY DEF Enter, Item
    <3>3. QED
      BY <3>1, <3>2, DeeperIsAdmitted
  <2>2. Rest(f, <<deeper>>) = Meaning(f, item) /\ Rest(g, <<deeper>>) = Meaning(g, item)
    BY <1>1, <1>2, IncludeMeans
  <2> HIDE DEF deeper
  <2>3. AllAdmitted(<<deeper>>) /\ \A i \in DOMAIN <<deeper>> : <<deeper>>[i] = deeper
    BY <2>1 DEF AllAdmitted
  <2>4. new = <<deeper>>
    BY <1>2 DEF deeper
  <2>5. QED
    BY <2>1, <2>2, <2>3, <2>4, ReadOfItems
<1>3. CASE item.line.kind = "wildcard" /\ new = Matches(item)
  <2>1. AllAdmitted(new)
    BY <1>3, MatchesAreAdmitted DEF AllAdmitted
  <2>2. item.line.of \in Paths
    BY <1>3, LinesNamePaths DEF Items
  <2>3. ASSUME NEW h \in {f, g}
        PROVE  h[item.line.of] = fs[item.line.of]
               \/ (h[item.line.of].kind # "dir" /\ fs[item.line.of].kind # "dir")
    BY <2>2, EditedDirectories
  <2>4. Rest(f, new) = Meaning(f, item) /\ Rest(g, new) = Meaning(g, item)
    BY <1>1, <1>3, <2>3, WildcardMeans
  <2>5. \A i \in DOMAIN new : new[i].chain = item.chain
    BY <1>3, ChildrenStand DEF Matches
  <2>6. QED
    BY <2>1, <2>4, <2>5, ReadOfItems
<1>4. QED
  BY <1>2, <1>3

\* What replaces an item.
Expanded(item) ==
    CASE item.line.kind = "visit"     -> Resolved(item)
      [] item.line.kind = "include"   -> <<Enter(item, item.line.of)>>
      [] item.line.kind = "wildcard"  -> Matches(item)
      [] item.line.kind = "directive" -> <<>>

\* A path that is refused says nothing.
LEMMA ReadOfRefused ==
    ASSUME TypeOK, NEW f, NEW g, NEW p, OneEdit(f, g, p),
           NEW item \in Items, Admitted(item), item.line.kind = "visit", Refused(item),
           NEW t, CanReadAll(f, g, p, <<>>, t)
    PROVE  CanRead(f, g, p, item, t)
<1> DEFINE n == MaxIncludeDepth + 1 - item.depth
<1>1. /\ f \in [Paths -> Entries] /\ g \in [Paths -> Entries]
      /\ item.path \in Paths /\ item.chain \in SUBSET Paths
      /\ item.depth \in Nat /\ MaxIncludeDepth \in Nat /\ item.depth <= MaxIncludeDepth + 1
  BY PathsAssumption DEF OneEdit, Items, Admitted
<1>2. n \in 0..(MaxIncludeDepth + 1) /\ (item.depth > MaxIncludeDepth => n = 0)
  BY <1>1
<1>3. \A h : Meaning(h, item) = Levels(h)[n][item.path][item.chain]
  BY DEF Meaning
<1> HIDE DEF n
<1>4. ASSUME NEW h \in {f, g} PROVE Rest(h, <<>>) = Meaning(h, item)
  <2>0. h \in [Paths -> Entries]
    BY <1>1
  <2>1. Rest(h, <<>>) = <<>>
    BY <2>0, RestOfOne
  <2>2. CASE item.depth > MaxIncludeDepth
    BY <1>1, <1>2, <1>3, <2>0, <2>1, <2>2, LevelsAreTexts
  <2>3. CASE item.path \in item.chain \cup Outside
    BY <1>1, <1>2, <1>3, <2>0, <2>1, <2>3, RefusedSaysNothing
  <2>4. QED
    BY <2>2, <2>3 DEF Refused
<1>5. AllAdmitted(<<>>)
  BY DEF AllAdmitted
<1>6. QED
  BY <1>4, <1>5, ReadOfItems

\* What can be read of all that replaces an item can be read of it.
LEMMA ReadOfExpanded ==
    ASSUME TypeOK, NEW f, NEW g, NEW p, OneEdit(f, g, p), fs \in {f, g},
           NEW item \in Items, Admitted(item), Placed(f, g, p, item),
           item.line.kind # "directive",
           NEW t, CanReadAll(f, g, p, Expanded(item), t)
    PROVE  CanRead(f, g, p, item, t)
<1> DEFINE new == Expanded(item)
<1>1. item.line.kind \in {"visit", "include", "wildcard"}
  BY ContentsAssumption DEF Items, Lines, VisitLine
<1>2. CASE item.line.kind = "visit"
  <2>1. new = Resolved(item)
    BY <1>2 DEF Expanded
  <2>2. CASE Refused(item)
    <3>1. new = <<>>
      BY <2>1, <2>2 DEF Resolved
    <3>2. QED
      BY <1>2, <2>2, <3>1, ReadOfRefused
  <2>3. CASE ~Refused(item) /\ fs[item.path].kind # "dir"
    BY <1>2, <2>1, <2>3, ReadOfAFile
  <2>4. CASE ~Refused(item) /\ fs[item.path].kind = "dir"
    BY <1>2, <2>1, <2>4, ReadOfADirectory
  <2>5. QED
    BY <2>2, <2>3, <2>4
<1>3. CASE item.line.kind = "include"
  <2>1. new = <<Enter(item, item.line.of)>>
    BY <1>3 DEF Expanded
  <2>2. QED
    BY <1>3, <2>1, ReadOfALine
<1>4. CASE item.line.kind = "wildcard"
  <2>1. new = Matches(item)
    BY <1>4 DEF Expanded
  <2>2. QED
    BY <1>4, <2>1, ReadOfALine
<1>5. QED
  BY <1>1, <1>2, <1>3, <1>4

\* What replaces an item is in the file, or stands where it would in both.
LEMMA ExpandedIsPlaced ==
    ASSUME TypeOK, NEW f, NEW g, NEW p, OneEdit(f, g, p), fs \in {f, g},
           NEW item \in Items, Admitted(item), Placed(f, g, p, item),
           NEW i \in DOMAIN Expanded(item)
    PROVE  Placed(f, g, p, Expanded(item)[i])
<1> DEFINE new == Expanded(item)
           n == Down(item)
           deeper == item.chain \cup {item.path}
           inside == [item EXCEPT !.chain = @ \cup {item.path}]
           body == fs[item.path].body
           of == item.line.of
<1>1. /\ f \in [Paths -> Entries] /\ g \in [Paths -> Entries] /\ fs \in [Paths -> Entries]
      /\ p \in Paths /\ Whole(f) /\ Whole(g) /\ item.path \in Paths /\ item.chain \in SUBSET Paths
      /\ item.depth \in Nat /\ MaxIncludeDepth \in Nat
      /\ (item.line.kind # "visit" => item.depth <= MaxIncludeDepth)
  BY PathsAssumption DEF OneEdit, TypeOK, Items, Admitted
<1>2. item.line.kind \in {"visit", "include", "wildcard"}
  <2>1. item.line.kind = "directive" => DOMAIN new = {}
    BY DEF Expanded
  <2>2. item.line.kind \in {"visit", "include", "wildcard", "directive"}
    BY ContentsAssumption DEF Items, Lines, VisitLine
  <2>3. QED
    BY <2>1, <2>2
<1>3. /\ inside.chain = deeper /\ inside.depth = item.depth /\ deeper \in SUBSET Paths
      /\ Down(inside) = n
  BY <1>1 DEF Items, Down
<1>4. CASE item.line.kind = "visit"
  <2>1. new = Resolved(item)
    BY <1>4 DEF Expanded
  <2>2. ~Refused(item)
    BY <2>1 DEF Resolved
  <2>3. item.depth \in 0..MaxIncludeDepth
    BY <1>1, <2>2 DEF Refused
  <2>4. n \in 1..(MaxIncludeDepth + 1) /\ n - 1 \in 0..(MaxIncludeDepth + 1)
    BY <2>3, <1>1 DEF Down
  <2>5. fs[item.path].kind = "dir" =>
           /\ new = Children(inside, body, PlainFiles)
           /\ i \in DOMAIN body /\ body[i].of \in Paths
           /\ new[i].chain = deeper
           /\ \/ body[i].of \in PlainFiles /\ new[i] = Enter(inside, body[i].of)
              \/ new[i] = PassOver(inside, body[i].of)
    <3> SUFFICES ASSUME fs[item.path].kind = "dir"
                 PROVE  /\ new = Children(inside, body, PlainFiles)
                        /\ i \in DOMAIN body /\ body[i].of \in Paths
                        /\ new[i].chain = deeper
                        /\ \/ body[i].of \in PlainFiles /\ new[i] = Enter(inside, body[i].of)
                           \/ new[i] = PassOver(inside, body[i].of)
      OBVIOUS
    <3>1. new = Children(inside, body, PlainFiles)
      BY <2>1, <2>2 DEF Resolved
    <3> HIDE DEF inside, new
    <3>2. /\ i \in DOMAIN body /\ new[i].chain = deeper
          /\ \/ body[i].of \in PlainFiles /\ new[i] = Enter(inside, body[i].of)
             \/ new[i] = PassOver(inside, body[i].of)
      BY <1>3, <3>1, ChildrenStand DEF new
    <3>3. body[i].of \in Paths
      BY <1>1, <3>2, DirectoriesHoldPaths
    <3>4. QED
      BY <3>1, <3>2, <3>3
  <2>6. fs[item.path].kind # "dir" =>
           /\ i \in DOMAIN body /\ body[i] \in Said /\ body[i].kind # "visit"
           /\ new[i].chain = deeper /\ new[i].line = body[i] /\ Down(new[i]) = n
    <3> SUFFICES ASSUME fs[item.path].kind # "dir"
                 PROVE  /\ i \in DOMAIN body /\ body[i] \in Said /\ body[i].kind # "visit"
                        /\ new[i].chain = deeper /\ new[i].line = body[i] /\ Down(new[i]) = n
      OBVIOUS
    <3>1. /\ i \in DOMAIN body /\ new[i].line = body[i] /\ new[i].chain = deeper
          /\ new[i].depth = item.depth
      BY <2>1, <2>2, ResolvedFile
    <3>2. body \in Seq(Said)
      BY <1>1, FilesHoldLines
    <3> HIDE DEF body, new
    <3>3. body[i] \in Said
      BY <3>1, <3>2
    <3>4. QED
      BY <3>1, <3>3, ContentsAssumption DEF Down
  <2> HIDE DEF new, inside, body
  <2>7. CASE p \in deeper
    BY <2>5, <2>6, <2>7 DEF Placed, new
  <2>8. CASE p \notin deeper
    <3>1. ASSUME NEW h \in {f, g} PROVE OnTrack(h, new[i])
      <4>1. /\ h[item.path] = fs[item.path] /\ h \in [Paths -> Entries] /\ Whole(h)
            /\ item.path # p
        BY <1>1, <2>8 DEF OneEdit
      <4>2. OnTrack(h, item)
        BY <2>8 DEF Placed
      <4>3. Stands(h, n, item.chain, item.path)
        BY <1>4, <2>4, <4>2 DEF OnTrack
      <4>4. CASE fs[item.path].kind = "dir"
        <5>1. /\ FitsThere(h, n, item.chain, item.path) /\ h[item.path].kind = "dir"
          BY <4>1, <4>3, <4>4 DEF Stands
        <5>2. \A c \in Brought(h, item.path) : FitsThere(h, n - 1, deeper, c)
          <6>1. n \in 0..(MaxIncludeDepth + 1)
            BY <1>1, <2>4
          <6>2. QED
            BY <4>1, <5>1, <6>1, FitsDown
        <5> DEFINE c == body[i].of
        <5>3. h[c].kind = "file" => c \in Brought(h, item.path)
          BY <1>1, <2>5, <4>1, <4>4, BroughtIsNamed DEF body
        <5>4. c \in Paths
          BY <2>5, <4>4
        <5>5. CASE c \in PlainFiles /\ new[i] = Enter(inside, c)
          <6>1. h[c].kind \in {"file", "absent"}
            <7>1. CASE c = p
              BY <1>1, <7>1, EditedDirectories
            <7>2. CASE c # p
              <8>1. h[c] = fs[c]
                BY <5>4, <7>2 DEF OneEdit
              <8>2. QED
                BY <5>5, <8>1 DEF PlainFiles
            <7>3. QED
              BY <7>1, <7>2
          <6>2. Stands(h, n - 1, deeper, c)
            BY <5>2, <5>3, <6>1 DEF Stands
          <6>3. /\ new[i].line.kind = "visit" /\ new[i].path = c /\ new[i].chain = deeper
                /\ Down(new[i]) = n - 1
            <7> HIDE DEF c, n, deeper
            <7>1. QED
              BY <1>1, <1>3, <2>3, <5>4, <5>5, DeeperMeans
          <6>4. QED
            BY <6>2, <6>3 DEF OnTrack
        <5>6. CASE new[i] = PassOver(inside, c)
          <6>1. new[i].line.kind = "visit" /\ Down(new[i]) = 0
            <7> HIDE DEF c, n, deeper
            <7>1. QED
              BY <1>1, <1>3, <2>3, <5>4, <5>6, DeeperMeans
          <6>2. QED
            BY <6>1 DEF OnTrack
        <5>7. QED
          BY <2>5, <4>4, <5>5, <5>6
      <4>5. CASE fs[item.path].kind # "dir"
        <5>1. h[item.path].kind # "absent"
          <6>1. SUFFICES ASSUME h[item.path].kind = "absent" PROVE FALSE
            OBVIOUS
          <6>2. h[item.path] = Absent
            BY <1>1, <4>1, <6>1 DEF Entries, File, Dir
          <6>3. QED
            BY <2>6, <4>1, <4>5, <6>2 DEF Absent, body
        <5>2. \A c \in Brought(h, item.path) : FitsThere(h, n - 1, deeper, c)
          <6>1. n \in 0..(MaxIncludeDepth + 1) /\ FitsThere(h, n, item.chain, item.path)
            BY <1>1, <2>4, <4>3, <5>1 DEF Stands
          <6>2. QED
            BY <4>1, <6>1, FitsDown
        <5>3. NamedBy(h, body[i]) \subseteq Brought(h, item.path)
          BY <1>1, <2>6, <4>1, <4>5, BroughtIsNamed DEF body
        <5>4. \A q \in NamedBy(h, body[i]) : Stands(h, n - 1, deeper, q)
          BY <5>2, <5>3 DEF Stands
        <5>5. QED
          BY <2>6, <4>5, <5>4 DEF OnTrack
      <4>6. QED
        BY <4>4, <4>5
    <3>2. QED
      BY <3>1 DEF Placed, new
  <2>9. QED
    BY <2>7, <2>8
<1>5. CASE item.line.kind \in {"include", "wildcard"}
  <2>1. item.depth \in 0..MaxIncludeDepth /\ of \in Paths
    BY <1>1, <1>5, LinesNamePaths DEF Items
  <2>2. PICK c \in Paths :
           /\ new[i] = Enter(item, c) \/ new[i] = PassOver(item, c)
           /\ new[i] = Enter(item, c) =>
                 \/ new[i] = PassOver(item, c)
                 \/ item.line.kind = "include" /\ c = of
                 \/ /\ item.line.kind = "wildcard" /\ fs[of].kind = "dir" /\ c \in item.line.match
                    /\ \E k \in DOMAIN fs[of].body : fs[of].body[k].of = c
    <3>1. CASE item.line.kind = "include"
      BY <2>1, <3>1 DEF Expanded
    <3>2. CASE item.line.kind = "wildcard"
      <4>1. new = Matches(item) /\ new # <<>>
        BY <3>2 DEF Expanded
      <4>2. fs[of].kind = "dir" /\ new = Children(item, fs[of].body, item.line.match)
        BY <4>1 DEF Matches
      <4>3. /\ i \in DOMAIN fs[of].body
            /\ \/ fs[of].body[i].of \in item.line.match /\ new[i] = Enter(item, fs[of].body[i].of)
               \/ new[i] = PassOver(item, fs[of].body[i].of)
        <5> HIDE DEF new
        <5>1. QED
          BY <4>2, ChildrenStand DEF new
      <4>4. fs[of].body[i].of \in Paths
        BY <1>1, <2>1, <4>2, <4>3, DirectoriesHoldPaths
      <4> HIDE DEF new
      <4>5. QED
        BY <3>2, <4>2, <4>3, <4>4
    <3>3. QED
      BY <1>5, <3>1, <3>2
  <2>3. /\ Enter(item, c).line.kind = "visit" /\ Enter(item, c).path = c
        /\ Enter(item, c).chain = item.chain /\ Down(Enter(item, c)) = n - 1
        /\ PassOver(item, c).line.kind = "visit" /\ PassOver(item, c).chain = item.chain
        /\ Down(PassOver(item, c)) = 0
    BY <1>1, <2>1, DeeperMeans
  <2> HIDE DEF new, n
  <2>4. CASE p \in item.chain
    BY <2>2, <2>3, <2>4 DEF Placed, new
  <2>5. CASE p \notin item.chain
    <3>1. ASSUME NEW h \in {f, g} PROVE OnTrack(h, new[i])
      <4>1. CASE new[i] = PassOver(item, c)
        BY <2>3, <4>1 DEF OnTrack
      <4>2. CASE new[i] = Enter(item, c) /\ new[i] # PassOver(item, c)
        <5>1. c \in NamedBy(h, item.line)
          <6>1. CASE item.line.kind = "include" /\ c = of
            BY <6>1 DEF NamedBy
          <6>2. CASE /\ item.line.kind = "wildcard" /\ fs[of].kind = "dir" /\ c \in item.line.match
                     /\ \E k \in DOMAIN fs[of].body : fs[of].body[k].of = c
            <7>1. h[of] = fs[of]
              BY <2>1, <6>2, EditedDirectories
            <7>2. QED
              BY <6>2, <7>1 DEF NamedBy
          <6>3. QED
            BY <2>2, <4>2, <6>1, <6>2
        <5>2. OnTrack(h, item)
          BY <2>5 DEF Placed
        <5>3. Stands(h, n - 1, item.chain, c)
          BY <1>5, <5>1, <5>2 DEF OnTrack, n
        <5>4. QED
          BY <2>3, <4>2, <5>3 DEF OnTrack
      <4>3. QED
        BY <2>2, <4>1, <4>2
    <3>2. QED
      BY <3>1 DEF Placed, new
  <2>6. QED
    BY <2>4, <2>5
<1>6. QED
  BY <1>2, <1>4, <1>5

\* Two sequences, one after the other.
LEMMA Concatenated ==
    ASSUME NEW S, NEW a \in Seq(S), NEW b \in Seq(S)
    PROVE  /\ a \o b \in Seq(S) /\ Len(a \o b) = Len(a) + Len(b)
           /\ \A i \in 1..Len(a) : (a \o b)[i] = a[i]
           /\ \A i \in 1..Len(b) : (a \o b)[Len(a) + i] = b[i]
<1> DEFINE c == a \o b
           n == Len(a)
           k == Len(b)
<1>1. /\ c \in Seq(S) /\ Len(c) = n + k /\ n \in Nat /\ k \in Nat
      /\ \A i \in 1..(n + k) : c[i] = IF i <= n THEN a[i] ELSE b[i - n]
  BY ConcatProperties
<1> HIDE DEF c, n, k
<1>2. \A i \in 1..n : c[i] = a[i]
  BY <1>1
<1>3. ASSUME NEW i \in 1..k PROVE c[n + i] = b[i]
  <2> DEFINE j == n + i
  <2>1. j \in 1..(n + k) /\ ~(j <= n) /\ j - n = i
    BY <1>1
  <2> HIDE DEF j
  <2>2. c[j] = b[i]
    BY <1>1, <2>1
  <2>3. QED
    BY <2>2 DEF j
<1>4. QED
  BY <1>1, <1>2, <1>3 DEF c, n, k

\* One text after another.
Both(t1, t2) == t1 \o t2

\* What can be read of items and more items: a text of each.
LEMMA ReadOfTwo ==
    ASSUME NEW f, NEW g, NEW p, NEW x, NEW y, AllAdmitted(x), AllAdmitted(y),
           NEW t, CanReadAll(f, g, p, x \o y, t)
    PROVE  \E t1, t2 \in Seq(Said) : /\ CanReadAll(f, g, p, x, t1)
                                     /\ CanReadAll(f, g, p, y, t2) /\ t = Both(t1, t2)
<1> DEFINE n == Len(x)
           k == Len(y)
           z == x \o y
<1>1. /\ n \in Nat /\ k \in Nat /\ Len(z) = n + k
      /\ \A i \in 1..n : z[i] = x[i]
      /\ \A i \in 1..k : z[n + i] = y[i]
  <2>1. x \in Seq(Items) /\ y \in Seq(Items)
    BY DEF AllAdmitted
  <2>2. QED
    BY <2>1
<1> HIDE DEF n, k, z
<1>2. PICK ts \in Seq(Seq(Said)) :
         /\ Len(ts) = n + k /\ \A i \in 1..(n + k) : CanRead(f, g, p, z[i], ts[i])
         /\ t = FlattenSeq(ts)
  BY <1>1 DEF CanReadAll, z
<1>3. PICK a, b :
         /\ a \in Seq(Seq(Said)) /\ Len(a) = n /\ b \in Seq(Seq(Said)) /\ Len(b) = k
         /\ \A i \in 1..n : a[i] = ts[i]
         /\ \A i \in 1..k : b[i] = ts[n + i]
  <2>1. \A i \in 1..n : ts[i] \in Seq(Said)
    BY <1>1, <1>2
  <2>2. \A i \in 1..k : ts[n + i] \in Seq(Said)
    BY <1>1, <1>2
  <2> DEFINE u == [i \in 1..n |-> ts[i]]
             v == [i \in 1..k |-> ts[n + i]]
  <2>3. /\ u \in Seq(Seq(Said)) /\ Len(u) = n /\ v \in Seq(Seq(Said)) /\ Len(v) = k
        /\ \A i \in 1..n : u[i] = ts[i]
        /\ \A i \in 1..k : v[i] = ts[n + i]
    BY <1>1, <2>1, <2>2
  <2> HIDE DEF u, v
  <2> WITNESS u, v
  <2>4. QED
    BY <2>3
<1>4. ts = a \o b
  <2> DEFINE c == a \o b
  <2>1. /\ c \in Seq(Seq(Said)) /\ Len(c) = n + k
        /\ \A i \in 1..n : c[i] = a[i]
        /\ \A i \in 1..k : c[n + i] = b[i]
    <3>1. /\ c \in Seq(Seq(Said)) /\ Len(c) = Len(a) + Len(b)
          /\ \A i \in 1..Len(a) : c[i] = a[i]
          /\ \A i \in 1..Len(b) : c[Len(a) + i] = b[i]
      <4>1. a \in Seq(Seq(Said)) /\ b \in Seq(Seq(Said))
        BY <1>3
      <4>2. QED
        BY <4>1, Concatenated
    <3> HIDE DEF c
    <3>2. QED
      BY <1>3, <3>1
  <2> HIDE DEF c
  <2>2. ASSUME NEW i \in 1..(n + k) PROVE ts[i] = c[i]
    <3>1. CASE i \in 1..n
      BY <1>3, <2>1, <3>1
    <3>2. CASE i \notin 1..n
      <4> DEFINE j == i - n
      <4>1. j \in 1..k /\ n + j = i
        BY <1>1, <3>2
      <4> HIDE DEF j
      <4>2. b[j] = ts[n + j] /\ c[n + j] = b[j]
        BY <1>3, <2>1, <4>1
      <4>3. QED
        BY <4>1, <4>2
    <3>3. QED
      BY <3>1, <3>2
  <2>3. ts = c
    BY <1>2, <2>1, <2>2, SeqEqual
  <2>4. QED
    BY <2>3 DEF c
<1>5. /\ t = FlattenSeq(a) \o FlattenSeq(b)
      /\ FlattenSeq(a) \in Seq(Said) /\ FlattenSeq(b) \in Seq(Said)
  BY <1>2, <1>3, <1>4, FlattenConcat, FlattenIsText
<1>6. \A i \in 1..n : CanRead(f, g, p, x[i], a[i])
  BY <1>1, <1>2, <1>3
<1>7. \A i \in 1..k : CanRead(f, g, p, y[i], b[i])
  BY <1>1, <1>2, <1>3
<1>8. CanReadAll(f, g, p, x, FlattenSeq(a)) /\ CanReadAll(f, g, p, y, FlattenSeq(b))
  BY <1>3, <1>6, <1>7 DEF CanReadAll, n, k
<1>9. t = Both(FlattenSeq(a), FlattenSeq(b))
  BY <1>5 DEF Both
<1>10. QED
  BY <1>5, <1>8, <1>9

\* And what can be read of each can be read of both, one after the other.
LEMMA ReadTogether ==
    ASSUME NEW f, NEW g, NEW p, NEW x, NEW y, AllAdmitted(x), AllAdmitted(y),
           NEW t1, NEW t2, CanReadAll(f, g, p, x, t1), CanReadAll(f, g, p, y, t2)
    PROVE  CanReadAll(f, g, p, x \o y, t1 \o t2)
<1> DEFINE n == Len(x)
           k == Len(y)
           z == x \o y
<1>1. /\ n \in Nat /\ k \in Nat /\ Len(z) = n + k
      /\ \A i \in 1..n : z[i] = x[i]
      /\ \A i \in 1..k : z[n + i] = y[i]
  <2>1. x \in Seq(Items) /\ y \in Seq(Items)
    BY DEF AllAdmitted
  <2>2. QED
    BY <2>1
<1> HIDE DEF n, k, z
<1>2. PICK a \in Seq(Seq(Said)) :
         /\ Len(a) = n /\ \A i \in 1..n : CanRead(f, g, p, x[i], a[i])
         /\ t1 = FlattenSeq(a)
  BY DEF CanReadAll, n
<1>3. PICK b \in Seq(Seq(Said)) :
         /\ Len(b) = k /\ \A i \in 1..k : CanRead(f, g, p, y[i], b[i])
         /\ t2 = FlattenSeq(b)
  BY DEF CanReadAll, k
<1> DEFINE c == a \o b
<1>4. /\ c \in Seq(Seq(Said)) /\ Len(c) = n + k
      /\ \A i \in 1..n : c[i] = a[i]
      /\ \A i \in 1..k : c[n + i] = b[i]
  <2>1. /\ c \in Seq(Seq(Said)) /\ Len(c) = Len(a) + Len(b)
        /\ \A i \in 1..Len(a) : c[i] = a[i]
        /\ \A i \in 1..Len(b) : c[Len(a) + i] = b[i]
    <3> DEFINE S == Seq(Said)
    <3>1. a \in Seq(S) /\ b \in Seq(S)
      OBVIOUS
    <3> HIDE DEF S
    <3>2. /\ a \o b \in Seq(S) /\ Len(a \o b) = Len(a) + Len(b)
          /\ \A i \in 1..Len(a) : (a \o b)[i] = a[i]
          /\ \A i \in 1..Len(b) : (a \o b)[Len(a) + i] = b[i]
      BY <3>1, Concatenated
    <3>3. QED
      BY <3>2 DEF S
  <2> HIDE DEF c
  <2>2. QED
    BY <1>2, <1>3, <2>1
<1>5. FlattenSeq(c) = t1 \o t2
  BY <1>2, <1>3, FlattenConcat
<1> HIDE DEF c
<1>6. ASSUME NEW i \in 1..(n + k) PROVE CanRead(f, g, p, z[i], c[i])
  <2>1. CASE i \in 1..n
    BY <1>1, <1>2, <1>4, <2>1
  <2>2. CASE i \notin 1..n
    <3>1. i - n \in 1..k /\ n + (i - n) = i
      BY <1>1, <2>2
    <3>2. QED
      BY <1>1, <1>3, <1>4, <3>1
  <2>3. QED
    BY <2>1, <2>2
<1>7. QED
  BY <1>1, <1>4, <1>5, <1>6 DEF CanReadAll, z

\* Of one item.
LEMMA ReadOfOne ==
    ASSUME NEW f, NEW g, NEW p, NEW item
    PROVE  /\ \A t \in Seq(Said) : CanReadAll(f, g, p, <<item>>, t) <=> CanRead(f, g, p, item, t)
           /\ \A t : CanReadAll(f, g, p, <<item>>, t) => t \in Seq(Said)
<1>1. ASSUME NEW t \in Seq(Said), CanRead(f, g, p, item, t)
      PROVE  CanReadAll(f, g, p, <<item>>, t)
  <2>1. /\ <<t>> \in Seq(Seq(Said)) /\ Len(<<t>>) = 1 /\ <<t>>[1] = t
        /\ Len(<<item>>) = 1 /\ <<item>>[1] = item
    OBVIOUS
  <2>2. FlattenSeq(<<t>>) = t
    BY FlattenFew
  <2> DEFINE ts == <<t>>
             items == <<item>>
  <2> HIDE DEF ts, items
  <2>3. \A i \in 1..1 : CanRead(f, g, p, items[i], ts[i])
    BY <1>1, <2>1 DEF ts, items
  <2>4. ts \in Seq(Seq(Said)) /\ Len(ts) = Len(items) /\ Len(items) = 1 /\ t = FlattenSeq(ts)
    BY <2>1, <2>2 DEF ts, items
  <2>5. CanReadAll(f, g, p, items, t)
    BY <2>3, <2>4 DEF CanReadAll
  <2>6. QED
    BY <2>5 DEF items
<1>2. ASSUME NEW t, CanReadAll(f, g, p, <<item>>, t)
      PROVE  CanRead(f, g, p, item, t) /\ t \in Seq(Said)
  <2> DEFINE items == <<item>>
  <2>1. Len(items) = 1 /\ items[1] = item
    OBVIOUS
  <2> HIDE DEF items
  <2>2. PICK ts \in Seq(Seq(Said)) :
           /\ Len(ts) = 1 /\ \A i \in 1..1 : CanRead(f, g, p, items[i], ts[i])
           /\ t = FlattenSeq(ts)
    BY <1>2, <2>1 DEF CanReadAll, items
  <2>3. ts[1] \in Seq(Said) /\ ts = <<ts[1]>>
    <3>1. ASSUME NEW S, NEW s \in Seq(S), Len(s) = 1 PROVE s[1] \in S /\ s = <<s[1]>>
      <4> DEFINE one == <<s[1]>>
      <4>1. s[1] \in S
        BY <3>1
      <4>2. one \in Seq(S) /\ Len(one) = 1 /\ one[1] = s[1]
        BY <4>1
      <4> HIDE DEF one
      <4>3. s = one
        BY <3>1, <4>2, SeqEqual
      <4>4. QED
        BY <4>1, <4>3 DEF one
    <3>2. QED
      BY <2>2, <3>1
  <2>4. t = ts[1]
    BY <2>2, <2>3, FlattenFew
  <2>5. QED
    BY <2>1, <2>2, <2>3, <2>4
<1>3. QED
  BY <1>1, <1>2

\* Of none.
LEMMA ReadOfNothing ==
    ASSUME NEW f, NEW g, NEW p, NEW t
    PROVE  CanReadAll(f, g, p, <<>>, t) <=> t = <<>>
<1>1. <<>> \in Seq(Seq(Said)) /\ \A ts \in Seq(Seq(Said)) : Len(ts) = 0 <=> ts = <<>>
  OBVIOUS
<1>2. FlattenSeq(<<>>) = <<>> /\ Len(<<>>) = 0
  <2>1. <<>> \in Seq(Said)
    OBVIOUS
  <2>2. FlattenSeq(<<>>) = <<>>
    BY <2>1, FlattenFew
  <2>3. QED
    BY <2>2
<1>3. CanReadAll(f, g, p, <<>>, t) <=>
           \E ts \in Seq(Seq(Said)) : Len(ts) = 0 /\ t = FlattenSeq(ts)
  BY <1>2 DEF CanReadAll
<1>4. QED
  BY <1>1, <1>2, <1>3

\* Whatever more is read, the torrc means what it did before the edit or what
\* it does after it.
OnlyMixes(f, g, p, items, found) ==
    /\ \A i \in DOMAIN items : Placed(f, g, p, items[i])
    /\ \A t : CanReadAll(f, g, p, items, t) =>
          Mixed(Effect(FileText(f, p)), Effect(FileText(g, p)),
                Effect(Readable(f)), Effect(Readable(g)), Effect(found \o t))

\* Where the main torrc is not a directory, it is what is read of it at once.
LEMMA ReadableIsMain ==
    ASSUME NEW f \in [Paths -> Entries], f[Main].kind # "dir"
    PROVE  Readable(f) = Levels(f)[MaxIncludeDepth + 1][Main][{}]
<1>1. Readable(f) = IF f[Main].kind = "file" THEN Levels(f)[MaxIncludeDepth + 1][Main][{}] ELSE <<>>
  BY LevelsAreTexts
<1>2. MaxIncludeDepth + 1 \in 0..(MaxIncludeDepth + 1) /\ Main \in Paths /\ {} \in SUBSET Paths
  BY PathsAssumption
<1>3. f[Main] \in Entries
  BY <1>2
<1>4. f[Main].kind \in {"file", "absent"}
  BY <1>3, BodyIsLines
<1>5. f[Main].kind = "absent" => Levels(f)[MaxIncludeDepth + 1][Main][{}] = <<>>
  BY <1>2, RefusedSaysNothing
<1>6. QED
  BY <1>1, <1>4, <1>5

\* Reading begins so.
LEMMA BeginsToMix ==
    ASSUME Begin, NEW f, NEW g, NEW p, OneEdit(f, g, p), fs \in {f, g}
    PROVE  OnlyMixes(f, g, p, todo', Directives(lines'))
<1> DEFINE item == Item(VisitLine(Main), Main, {}, 0)
           n == MaxIncludeDepth + 1
           a == Effect(FileText(f, p))
           b == Effect(FileText(g, p))
           x == Effect(Readable(f))
           y == Effect(Readable(g))
<1>1. /\ f \in [Paths -> Entries] /\ g \in [Paths -> Entries] /\ p \in Paths
      /\ Whole(f) /\ Whole(g) /\ Main \in Paths /\ MaxIncludeDepth \in Nat
  BY PathsAssumption DEF OneEdit
<1>2. /\ item.line.kind = "visit" /\ item.path = Main /\ item.chain = {} /\ item.depth = 0
  BY DEF Item, VisitLine
<1>3. Down(item) = n /\ \A h : Meaning(h, item) = Levels(h)[n][Main][{}]
  <2>1. Down(item) = n
    BY <1>1, <1>2 DEF Down
  <2> HIDE DEF item, n
  <2>2. \A h : Meaning(h, item) = Levels(h)[Down(item)][Main][{}]
    BY <1>2 DEF Meaning, Down
  <2>3. QED
    BY <2>1, <2>2
<1>4. /\ todo' = IF fs[Main].kind = "file" THEN <<item>> ELSE <<>>
      /\ Directives(lines') = <<>>
  BY DEF Begin, Directives
<1>5. ASSUME NEW h \in {f, g} PROVE FitsThere(h, n, {}, Main)
  BY <1>1, FitsDown
<1> HIDE DEF item
<1>6. \A t \in Seq(Said) : <<>> \o t = t
  BY ConcatEmptySeq
<1>7. CASE fs[Main].kind = "file"
  <2>1. todo' = <<item>>
    BY <1>4, <1>7
  <2>2. Placed(f, g, p, item)
    BY <1>2, <1>3, <1>5 DEF Placed, OnTrack, Stands
  <2>3. ASSUME NEW h \in {f, g} PROVE h[Main].kind # "dir"
    BY <1>1, <1>7, EditedDirectories
  <2>4. Readable(f) = Meaning(f, item) /\ Readable(g) = Meaning(g, item)
    BY <1>1, <1>3, <2>3, ReadableIsMain
  <2>5. ASSUME NEW t, CanReadAll(f, g, p, <<item>>, t) PROVE Mixed(a, b, x, y, Effect(<<>> \o t))
    <3>1. t \in Seq(Said) /\ CanRead(f, g, p, item, t)
      BY <2>5, ReadOfOne
    <3>2. Blend(a, b, Readable(f), Readable(g), t)
      BY <1>2, <2>4, <3>1 DEF CanRead
    <3>3. <<>> \o t = t
      BY <1>6, <3>1
    <3>4. QED
      BY <3>2, <3>3 DEF Blend
  <2>6. \A i \in DOMAIN <<item>> : <<item>>[i] = item
    OBVIOUS
  <2>7. QED
    BY <1>4, <2>1, <2>2, <2>5, <2>6 DEF OnlyMixes
<1>8. CASE fs[Main].kind # "file"
  <2>1. todo' = <<>>
    BY <1>4, <1>8
  <2>2. Readable(fs) = <<>>
    BY <1>1, <1>8, LevelsAreTexts
  <2>3. Effect(<<>>) \in {x, y}
    BY <2>2
  <2>4. x = y \/ (x = a /\ y = b)
    <3>1. CASE p = Main
      <4>1. ASSUME NEW h \in {f, g} PROVE Effect(Readable(h)) = Effect(FileText(h, p))
        <5>1. h \in [Paths -> Entries] /\ Whole(h) /\ h[Main].kind # "dir"
          BY <1>1, <3>1, EditedDirectories
        <5>2. Readable(h) = Levels(h)[n][Main][{}]
          BY <5>1, ReadableIsMain
        <5>3. Levels(h)[n][Main][{}] = FileText(h, Main)
          <6>1. Stands(h, n, {}, Main) /\ n \in 0..(MaxIncludeDepth + 1) /\ {} \in SUBSET Paths
            BY <1>1, <1>5 DEF Stands
          <6>2. QED
            BY <1>1, <5>1, <6>1, FileTextIsItsText
        <5>4. QED
          BY <3>1, <5>2, <5>3
      <4>2. QED
        BY <4>1
    <3>2. CASE p # Main
      <4>1. f[Main] = g[Main]
        BY <1>1, <3>2 DEF OneEdit
      <4>2. Readable(f) = <<>> /\ Readable(g) = <<>>
        BY <1>1, <1>8, <4>1, LevelsAreTexts
      <4>3. QED
        BY <4>2
    <3>3. QED
      BY <3>1, <3>2
  <2>5. Mixed(a, b, x, y, Effect(<<>>))
    BY <2>3, <2>4 DEF Mixed
  <2>6. \A t : CanReadAll(f, g, p, <<>>, t) => t = <<>>
    BY ReadOfNothing
  <2>7. <<>> \o <<>> = <<>>
    OBVIOUS
  <2> HIDE DEF a, b, x, y
  <2>8. \A t : CanReadAll(f, g, p, todo', t) => Mixed(a, b, x, y, Effect(Directives(lines') \o t))
    BY <1>4, <2>1, <2>5, <2>6, <2>7
  <2>9. DOMAIN todo' = {}
    BY <2>1
  <2>10. QED
    BY <2>8, <2>9 DEF OnlyMixes, a, b, x, y
<1>9. QED
  BY <1>7, <1>8

\* And goes on so, with the file as it is before the edit or after it.
LEMMA ReadOnlyMixes ==
    ASSUME IInv, Read, NEW f, NEW g, NEW p, OneEdit(f, g, p), fs \in {f, g},
           OnlyMixes(f, g, p, todo, Directives(lines))
    PROVE  OnlyMixes(f, g, p, todo', Directives(lines'))
<1> DEFINE item == Head(todo)
           tail == Tail(todo)
           found == Directives(lines)
           more == Directives(lines')
           new == Expanded(item)
           good(z) == Mixed(Effect(FileText(f, p)), Effect(FileText(g, p)),
                            Effect(Readable(f)), Effect(Readable(g)), Effect(z))
<1>1. todo # <<>>
  BY DEF Read, Visit, FollowInclude, ExpandWildcard, Keep, Next1
<1>2. TypeOK /\ AllAdmitted(todo) /\ todo \in Seq(Items)
  BY DEF IInv, TypeOK, AllAdmitted
<1>3. item = todo[1] /\ 1 \in DOMAIN todo /\ tail \in Seq(Items)
      /\ \A i \in DOMAIN tail : i + 1 \in DOMAIN todo /\ tail[i] = todo[i + 1]
  BY <1>1, <1>2
<1>4. item \in Items /\ Admitted(item) /\ AllAdmitted(tail)
  BY <1>2, <1>3 DEF AllAdmitted
<1>5. todo = <<item>> \o tail
  BY <1>1, <1>2
<1>6. Placed(f, g, p, item) /\ \A i \in DOMAIN tail : Placed(f, g, p, tail[i])
  BY <1>3 DEF OnlyMixes
<1>7. AllAdmitted(<<item>>)
  <2> HIDE DEF item
  <2>1. QED
    BY <1>4 DEF AllAdmitted
<1>8. ASSUME NEW t1 \in Seq(Said), NEW t2, CanRead(f, g, p, item, t1), CanReadAll(f, g, p, tail, t2)
      PROVE  good(found \o (t1 \o t2))
  <2> HIDE DEF item, tail
  <2>1. CanReadAll(f, g, p, <<item>>, t1)
    BY <1>8, ReadOfOne
  <2>2. CanReadAll(f, g, p, todo, t1 \o t2)
    BY <1>4, <1>5, <1>7, <1>8, <2>1, ReadTogether
  <2>3. QED
    BY <2>2 DEF OnlyMixes
<1>9. CASE Keep
  <2> DEFINE line == item.line
             entry == [said |-> item.line, in |-> item.path]
  <2>1. todo' = tail /\ lines' = Append(lines, entry) /\ line.kind = "directive"
    BY <1>3, <1>9 DEF Keep, Next1
  <2>2. \A h : Meaning(h, item) = <<line>>
    BY <2>1 DEF Meaning, LineText
  <2>3. line \in Lines /\ item.path \in Paths /\ line \in Said
    <3> HIDE DEF item
    <3>1. QED
      BY <1>4, <2>1 DEF Items, Lines, VisitLine
  <2>4. CanRead(f, g, p, item, <<line>>)
    <3>1. <<line>> \in Seq(Said)
      BY <2>3
    <3> HIDE DEF line, item
    <3>2. QED
      BY <2>2, <3>1, BlendsOfOne DEF CanRead
  <2>5. lines \in Seq([said : Lines, in : Paths]) /\ entry \in [said : Lines, in : Paths]
    BY <1>2, <2>3 DEF TypeOK
  <2>6. found \in Seq(Lines) /\ more = found \o <<line>>
    <3>1. found \in Seq(Lines) /\ DOMAIN found = DOMAIN lines /\ Len(found) = Len(lines)
          /\ \A i \in DOMAIN lines : found[i] = lines[i].said
      BY <2>5, DirectivesAreLines
    <3>2. lines' \in Seq([said : Lines, in : Paths])
      BY <2>1, <2>5
    <3>3. more \in Seq(Lines) /\ DOMAIN more = DOMAIN lines' /\ Len(more) = Len(lines')
          /\ \A i \in DOMAIN lines' : more[i] = lines'[i].said
      BY <3>2, DirectivesAreLines
    <3>4. entry.said = line
      OBVIOUS
    <3>5. /\ Len(lines') = Len(lines) + 1 /\ lines'[Len(lines) + 1] = entry
          /\ \A i \in 1..Len(lines) : lines'[i] = lines[i]
          /\ Len(lines) \in Nat /\ DOMAIN lines = 1..Len(lines)
      <4> HIDE DEF entry
      <4>1. QED
        BY <2>1, <2>5
    <3> HIDE DEF entry, line, found, more
    <3> DEFINE u == found \o <<line>>
    <3>6. /\ u \in Seq(Lines) /\ Len(u) = Len(lines) + 1 /\ u[Len(lines) + 1] = line
          /\ \A i \in 1..Len(lines) : u[i] = found[i]
      <4>1. found \in Seq(Lines) /\ <<line>> \in Seq(Lines)
        BY <2>3, <3>1
      <4>2. Len(<<line>>) = 1 /\ <<line>>[1] = line /\ 1 \in 1..Len(<<line>>)
        OBVIOUS
      <4> DEFINE last == <<line>>
      <4> HIDE DEF last
      <4>3. /\ found \o last \in Seq(Lines) /\ Len(found \o last) = Len(found) + Len(last)
            /\ \A i \in 1..Len(found) : (found \o last)[i] = found[i]
            /\ \A i \in 1..Len(last) : (found \o last)[Len(found) + i] = last[i]
        BY <4>1, Concatenated DEF last
      <4>4. Len(found) = Len(lines) /\ Len(last) = 1 /\ last[1] = line /\ 1 \in 1..Len(last)
        BY <3>1, <4>2 DEF last
      <4>5. /\ found \o last \in Seq(Lines) /\ Len(found \o last) = Len(lines) + 1
            /\ (found \o last)[Len(lines) + 1] = line
            /\ \A i \in 1..Len(lines) : (found \o last)[i] = found[i]
        BY <4>3, <4>4
      <4>6. QED
        BY <4>5 DEF last
    <3> HIDE DEF u
    <3>7. ASSUME NEW i \in 1..Len(more) PROVE more[i] = u[i]
      <4>1. i \in DOMAIN lines' /\ (i \in 1..Len(lines) \/ i = Len(lines) + 1)
        BY <3>2, <3>3, <3>5
      <4>2. QED
        BY <3>1, <3>3, <3>4, <3>5, <3>6, <4>1
    <3>8. more = u
      BY <3>3, <3>5, <3>6, <3>7, SeqEqual
    <3>9. QED
      BY <3>1, <3>8 DEF u
  <2>7. ASSUME NEW t, CanReadAll(f, g, p, todo', t) PROVE good(more \o t)
    <3> HIDE DEF item, tail, found, more, line
    <3>1. CanReadAll(f, g, p, tail, t)
      BY <2>1, <2>7
    <3>2. t \in Seq(Said)
      BY <3>1, FlattenIsText DEF CanReadAll
    <3>3. good(found \o (<<line>> \o t))
      <4>1. <<line>> \in Seq(Said)
        BY <2>3
      <4>2. QED
        BY <1>8, <2>4, <3>1, <4>1
    <3>4. (found \o <<line>>) \o t = found \o (<<line>> \o t)
      <4>1. t \in Seq(Lines)
        BY <3>2, SeqMonotonic DEF Lines
      <4>2. <<line>> \in Seq(Lines)
        BY <2>3
      <4>3. QED
        BY <2>6, <4>1, <4>2, ConcatAssociative
    <3>5. QED
      BY <2>6, <3>3, <3>4
  <2>8. \A i \in DOMAIN todo' : Placed(f, g, p, todo'[i])
    BY <1>6, <2>1
  <2>9. QED
    BY <2>7, <2>8 DEF OnlyMixes
<1>10. CASE Visit \/ FollowInclude \/ ExpandWildcard
  <2>1. todo' = new \o tail /\ lines' = lines /\ item.line.kind # "directive"
    BY <1>10 DEF Visit, FollowInclude, ExpandWildcard, Next1, Expanded
  <2>2. AllAdmitted(new)
    <3>1. CASE item.line.kind = "visit"
      <4> HIDE DEF item
      <4>1. QED
        BY <1>2, <1>4, <3>1, ResolvedIsAdmitted DEF AllAdmitted, Expanded
    <3>2. CASE item.line.kind = "wildcard"
      <4> HIDE DEF item
      <4>1. QED
        BY <1>2, <1>4, <3>2, MatchesAreAdmitted DEF AllAdmitted, Expanded
    <3>3. CASE item.line.kind = "include"
      <4> HIDE DEF item
      <4> DEFINE deeper == Enter(item, item.line.of)
      <4>1. /\ item.chain \in SUBSET Paths /\ item.chain \cap Outside = {}
            /\ item.depth \in Nat /\ item.depth <= MaxIncludeDepth /\ item.line.of \in Paths
        BY <1>4, <3>3, LinesNamePaths DEF Items, Admitted
      <4>2. deeper \in Items /\ Admitted(deeper)
        BY <4>1, DeeperIsAdmitted
      <4>3. new = <<deeper>>
        BY <3>3 DEF Expanded
      <4> HIDE DEF deeper, new
      <4>4. QED
        BY <4>2, <4>3 DEF AllAdmitted
    <3>4. QED
      BY <1>10, <3>1, <3>2, <3>3 DEF Visit, FollowInclude, ExpandWildcard, Next1
  <2>3. \A i \in DOMAIN new : Placed(f, g, p, new[i])
    <3> HIDE DEF item
    <3>1. QED
      BY <1>2, <1>4, <1>6, ExpandedIsPlaced
  <2> HIDE DEF new, item, tail
  <2>4. ASSUME NEW t, CanReadAll(f, g, p, todo', t) PROVE good(more \o t)
    <3> HIDE DEF found
    <3>1. PICK t1, t2 \in Seq(Said) : /\ CanReadAll(f, g, p, new, t1)
                                      /\ CanReadAll(f, g, p, tail, t2) /\ t = Both(t1, t2)
      <4>1. CanReadAll(f, g, p, new \o tail, t)
        BY <2>1, <2>4
      <4>2. QED
        BY <1>4, <2>2, <4>1, ReadOfTwo
    <3>2. CanRead(f, g, p, item, t1)
      BY <1>2, <1>4, <1>6, <2>1, <3>1, ReadOfExpanded DEF new
    <3>3. good(found \o t)
      <4>1. t = t1 \o t2
        BY <3>1 DEF Both
      <4>2. good(found \o (t1 \o t2))
        BY <1>8, <3>1, <3>2
      <4>3. QED
        BY <4>1, <4>2
    <3>4. more = found
      BY <2>1 DEF found
    <3> HIDE DEF more
    <3>5. QED
      BY <3>3, <3>4
  <2>5. \A i \in DOMAIN todo' : Placed(f, g, p, todo'[i])
    <3>1. new \in Seq(Items) /\ tail \in Seq(Items)
      BY <1>4, <2>2 DEF AllAdmitted
    <3>2. \A i \in DOMAIN (new \o tail) :
             \/ i \in DOMAIN new /\ (new \o tail)[i] = new[i]
             \/ i - Len(new) \in DOMAIN tail /\ (new \o tail)[i] = tail[i - Len(new)]
      BY <3>1
    <3>3. QED
      BY <1>6, <2>1, <2>3, <3>2
  <2>6. QED
    BY <2>4, <2>5 DEF OnlyMixes
<1>11. QED
  BY <1>9, <1>10 DEF Read

\* In the end the option is as it was before the edit or as it is after it.
LEMMA ReadsOneOfTwo ==
    ASSUME NEW f, NEW g, NEW p, OneEdit(f, g, p), NEW found \in Seq(Lines),
           OnlyMixes(f, g, p, <<>>, found)
    PROVE  \E h \in {f, g} : MultiValue(found, "SocksPort") = MultiValue(Readable(h), "SocksPort")
<1>1. f \in [Paths -> Entries] /\ g \in [Paths -> Entries]
  BY DEF OneEdit
<1>2. CanReadAll(f, g, p, <<>>, <<>>)
  BY ReadOfNothing
<1>3. found \o <<>> = found
  BY ConcatEmptySeq
<1>4. Effect(found) \in {Effect(Readable(f)), Effect(Readable(g))}
  BY <1>2, <1>3 DEF OnlyMixes, Mixed
<1>5. ASSUME NEW h \in {f, g} PROVE Readable(h) \in Seq(Said)
  <2>1. h \in [Paths -> Entries]
    BY <1>1
  <2>2. MaxIncludeDepth + 1 \in 0..(MaxIncludeDepth + 1) /\ Main \in Paths /\ {} \in SUBSET Paths
    BY PathsAssumption
  <2>3. Levels(h)[MaxIncludeDepth + 1] \in Belows
    BY <2>1, <2>2, LevelsAreTexts
  <2>4. Levels(h)[MaxIncludeDepth + 1][Main][{}] \in Seq(Said)
    BY <2>2, <2>3 DEF Belows
  <2>5. Readable(h) \in {Levels(h)[MaxIncludeDepth + 1][Main][{}], <<>>}
    BY <2>1, LevelsAreTexts
  <2>6. <<>> \in Seq(Said)
    OBVIOUS
  <2>7. QED
    BY <2>4, <2>5, <2>6
<1>6. PICK h \in {f, g} : Effect(found) = Effect(Readable(h))
  BY <1>4
<1>7. MultiValue(found, "SocksPort") = MultiValue(Readable(h), "SocksPort")
  BY <1>5, <1>6, EffectDecides
<1>8. QED
  BY <1>7

----------------------------------------------------------------------------
(* Reading a torrc that is edited, in a command                            *)

\* While the torrc is read and one file is edited, what has been found and
\* what is still to be read only mix the old and the new text.
Mixes ==
    cmd.reading =>
       /\ cmd.name # None
       /\ \A f, g, p : OneEdit(f, g, p) /\ (\A w \in during : w.fs \in {f, g})
             => OnlyMixes(f, g, p, todo, Directives(lines))

\* Whatever a command does, or happens to the machine, this stays so.
LEMMA StepKeepsMixes ==
    ASSUME IInv, Undisturbed, Mixes, [Next]_veilVars
    PROVE  Mixes'
<1>1. ASSUME UNCHANGED <<cmd.reading, cmd.name, todo, lines>>, during \subseteq during' PROVE Mixes'
  <2> SUFFICES ASSUME cmd'.reading, NEW f, NEW g, NEW p, OneEdit(f, g, p),
                      \A w \in during' : w.fs \in {f, g}
               PROVE  OnlyMixes(f, g, p, todo', Directives(lines'))
    BY <1>1 DEF Mixes
  <2>1. cmd.reading /\ \A w \in during : w.fs \in {f, g}
    BY <1>1
  <2>2. OnlyMixes(f, g, p, todo, Directives(lines))
    BY <2>1 DEF Mixes
  <2>3. Directives(lines') = Directives(lines)
    BY <1>1 DEF Directives
  <2>4. QED
    BY <1>1, <2>2, <2>3
<1>2. ASSUME NEW c \in Commands, Start(c) PROVE Mixes'
  BY <1>2 DEF Start, Idle, Mixes
<1>3. ASSUME Ask \/ TimeOut PROVE Mixes'
  <2>1. UNCHANGED <<todo, lines, during>> /\ cmd'.reading = cmd.reading
        /\ cmd'.name = cmd.name
    BY <1>3 DEF Ask, TimeOut, readVars, Undisturbed
  <2>2. QED
    BY <1>1, <2>1
<1>4. ASSUME cmd.name # None, UNCHANGED during,
             NEW f, NEW g, NEW p, \A w \in during' : w.fs \in {f, g}
      PROVE  fs \in {f, g}
  BY <1>4 DEF Undisturbed, World
<1>5. CASE BeginRead
  <2>1. Begin /\ UNCHANGED during /\ cmd.name # None
    BY <1>5 DEF BeginRead, Running
  <2>2. cmd'.name = cmd.name
    BY <1>5 DEF BeginRead, Undisturbed
  <2>3. QED
    BY <1>4, <2>1, <2>2, BeginsToMix DEF Mixes
<1>6. CASE ReadOn
  <2>1. Read /\ UNCHANGED <<cmd, during>> /\ cmd.reading
    BY <1>6 DEF ReadOn
  <2>0. cmd.name # None
    BY <2>1 DEF Mixes
  <2> SUFFICES ASSUME NEW f, NEW g, NEW p, OneEdit(f, g, p), \A w \in during' : w.fs \in {f, g}
               PROVE  OnlyMixes(f, g, p, todo', Directives(lines'))
    BY <2>0, <2>1 DEF Mixes
  <2>2. OnlyMixes(f, g, p, todo, Directives(lines))
    BY <2>1 DEF Mixes
  <2>3. QED
    BY <1>4, <2>0, <2>1, <2>2, ReadOnlyMixes
<1>7. CASE EndRead
  BY <1>7 DEF EndRead, Undisturbed, Mixes
<1>8. CASE PutAway
  BY <1>8 DEF PutAway, Idle, Mixes
<1>9. CASE Others
  <2>1. UNCHANGED <<cmd, todo, lines>> /\ during \subseteq during'
    BY <1>9, OthersDisturb
  <2>2. QED
    BY <1>1, <2>1
<1>10. CASE UNCHANGED veilVars
  BY <1>1, <1>10 DEF veilVars
<1>11. QED
  BY <1>2, <1>3, <1>5, <1>6, <1>7, <1>8, <1>9, <1>10 DEF Next, Step

----------------------------------------------------------------------------
(* The replies of a machine                                                *)

\* probe e is among those of sequence s.
Holds(s, e) == \E i \in DOMAIN s : s[i] = e

\* A probe of one part is a probe of the whole.
LEMMA ConcatHolds ==
    ASSUME NEW S, NEW s \in Seq(S), NEW t \in Seq(S), NEW e
    PROVE  s \o t \in Seq(S) /\ (Holds(s, e) \/ Holds(t, e) => Holds(s \o t, e))
<1>1. /\ s \o t \in Seq(S) /\ Len(s \o t) = Len(s) + Len(t)
      /\ \A i \in 1..(Len(s) + Len(t)) : (s \o t)[i] = IF i <= Len(s) THEN s[i] ELSE t[i - Len(s)]
  BY ConcatProperties
<1>2. /\ Len(s) \in Nat /\ Len(t) \in Nat /\ DOMAIN s = 1..Len(s) /\ DOMAIN t = 1..Len(t)
      /\ DOMAIN (s \o t) = 1..(Len(s) + Len(t))
  BY <1>1, LenProperties
<1>3. ASSUME Holds(s, e) PROVE Holds(s \o t, e)
  BY <1>1, <1>2, <1>3 DEF Holds
<1>4. ASSUME Holds(t, e) PROVE Holds(s \o t, e)
  <2>1. PICK i \in DOMAIN t : t[i] = e
    BY <1>4 DEF Holds
  <2>2. Len(s) + i \in 1..(Len(s) + Len(t)) /\ ~(Len(s) + i <= Len(s)) /\ (Len(s) + i) - Len(s) = i
    BY <1>2, <2>1
  <2>3. QED
    BY <1>1, <1>2, <2>1, <2>2 DEF Holds
<1>5. QED
  BY <1>1, <1>3, <1>4

\* What the plan looks at, and what the capability report looks at again.
Looked == {"tor", "torPackage", "torsocks", "master", "unit", "unitActive", "torrc", "listener",
           "kvm", "kvmModule", "qemu", "libvirt", "kvmAccess",
           "gateway", "workstation", "torPackage2", "launcher"}
LookedAgain == {"kvm2", "kvmModule2", "qemu2", "libvirt2", "kvmAccess2"}

\* The plan looks at each of them.
LEMMA PlanAsks ==
    ASSUME NEW e \in Looked
    PROVE  Holds(Order["plan"], e)
<1> DEFINE last == <<"gateway", "workstation", "torPackage2", "launcher">>
<1>1. TorProbes \in Seq(Looked)
  BY DEF TorProbes, Looked
<1>2. VmProbes \in Seq(Looked)
  BY DEF VmProbes, Looked
<1>3. last \in Seq(Looked)
  BY DEF Looked
<1>4. Order["plan"] = (TorProbes \o VmProbes) \o last
  BY DEF Order
<1>5. Holds(TorProbes, e) \/ Holds(VmProbes, e) \/ Holds(last, e)
  BY DEF TorProbes, VmProbes, Looked, Holds
<1> HIDE DEF last
<1>6. /\ TorProbes \o VmProbes \in Seq(Looked)
      /\ Holds(TorProbes, e) \/ Holds(VmProbes, e) => Holds(TorProbes \o VmProbes, e)
  BY <1>1, <1>2, ConcatHolds
<1>7. QED
  BY <1>3, <1>4, <1>5, <1>6, ConcatHolds

\* The commands probe in sequences, the report what it goes by too.
LEMMA PlanIsSequence == Order["plan"] \in Seq(Looked)
<1> DEFINE last == <<"gateway", "workstation", "torPackage2", "launcher">>
<1>1. TorProbes \in Seq(Looked) /\ VmProbes \in Seq(Looked)
  BY DEF TorProbes, VmProbes, Looked
<1>2. last \in Seq(Looked)
  BY DEF Looked
<1>3. Order["plan"] = (TorProbes \o VmProbes) \o last
  BY DEF Order
<1> HIDE DEF last
<1>4. TorProbes \o VmProbes \in Seq(Looked)
  BY <1>1, ConcatHolds
<1>5. QED
  BY <1>2, <1>3, <1>4, ConcatHolds

Reported == (Looked \ {"torPackage2"}) \cup LookedAgain

\* The capability report looks at each of these, and at nothing else.
LEMMA ReportAsks ==
    /\ Order["capabilities"] \in Seq(Reported)
    /\ \A e \in Reported : Holds(Order["capabilities"], e)
<1> DEFINE s1 == TorProbes \o <<"launcher">>
           s2 == s1 \o VmProbes
           s3 == s2 \o <<"gateway", "workstation">>
<1>1. TorProbes \in Seq(Reported) /\ <<"launcher">> \in Seq(Reported)
  BY DEF TorProbes, Reported, Looked
<1>2. VmProbes \in Seq(Reported) /\ <<"gateway", "workstation">> \in Seq(Reported)
  BY DEF VmProbes, Reported, Looked
<1>3. VmAgain \in Seq(Reported)
  BY DEF VmAgain, Reported, LookedAgain
<1>4. Order["capabilities"] = s3 \o VmAgain
  BY DEF Order
<1>5. \A e \in Reported : \/ Holds(TorProbes, e) \/ Holds(<<"launcher">>, e) \/ Holds(VmProbes, e)
                          \/ Holds(<<"gateway", "workstation">>, e) \/ Holds(VmAgain, e)
  <2>1. \A e \in {"tor", "torPackage", "torsocks", "master", "unit", "unitActive", "torrc",
                  "listener"} : Holds(TorProbes, e)
    BY DEF TorProbes, Holds
  <2>2. \A e \in {"kvm", "kvmModule", "qemu", "libvirt", "kvmAccess"} : Holds(VmProbes, e)
    BY DEF VmProbes, Holds
  <2>3. \A e \in LookedAgain : Holds(VmAgain, e)
    BY DEF VmAgain, LookedAgain, Holds
  <2>4. /\ Holds(<<"launcher">>, "launcher")
        /\ \A e \in {"gateway", "workstation"} : Holds(<<"gateway", "workstation">>, e)
    BY DEF Holds
  <2>5. QED
    BY <2>1, <2>2, <2>3, <2>4 DEF Reported, Looked
<1>6. /\ s1 \in Seq(Reported)
      /\ \A e : Holds(TorProbes, e) \/ Holds(<<"launcher">>, e) => Holds(s1, e)
  BY <1>1, ConcatHolds
<1> HIDE DEF s1
<1>7. /\ s2 \in Seq(Reported) /\ \A e : Holds(s1, e) \/ Holds(VmProbes, e) => Holds(s2, e)
  BY <1>2, <1>6, ConcatHolds
<1> HIDE DEF s2
<1>8. /\ s3 \in Seq(Reported)
      /\ \A e : Holds(s2, e) \/ Holds(<<"gateway", "workstation">>, e) => Holds(s3, e)
  BY <1>2, <1>7, ConcatHolds
<1> HIDE DEF s3
<1>9. /\ s3 \o VmAgain \in Seq(Reported)
      /\ \A e : Holds(s3, e) \/ Holds(VmAgain, e) => Holds(s3 \o VmAgain, e)
  BY <1>3, <1>8, ConcatHolds
<1>10. QED
  BY <1>4, <1>5, <1>6, <1>7, <1>8, <1>9

\* A report made while nothing changes has the reply of one world to each.
LEMMA Replies ==
    ASSUME NEW w, NEW e \in Looked \cup LookedAgain
    PROVE  At(w)[e] = Reply(w, e)
<1>1. \E c \in Commands : Holds(Order[c], e)
  BY PlanAsks, ReportAsks DEF Commands, Reported
<1>2. e \in AllProbes
  BY <1>1 DEF AllProbes, Holds
<1>3. QED
  BY <1>2 DEF At

\* What such replies have in common.
Yes == {"tor", "torPackage", "torsocks", "unitActive", "listener", "kvm", "kvmModule", "qemu",
        "libvirt", "gateway", "workstation", "launcher"}

OneMoment(s) ==
    /\ \A e \in Yes : s[e] \in BOOLEAN
    /\ \A e \in {"unit", "master", "kvmAccess"} : s[e] \in BOOLEAN \cup {Unknown}
    /\ s["unitActive"] => s["unit"]
    /\ s["master"] = TRUE => s["unit"] = TRUE
    /\ s["kvm2"] = s["kvm"] /\ s["kvmModule2"] = s["kvmModule"] /\ s["qemu2"] = s["qemu"]
    /\ s["libvirt2"] = s["libvirt"] /\ s["kvmAccess2"] = s["kvmAccess"]
    /\ s["torPackage2"] = s["torPackage"]

\* The replies of a world that does not change have all of that.
LEMMA RepliesAreOfOneMoment == ASSUME NEW w, w.m \in Machines PROVE OneMoment(At(w))
<1>1. \A e \in Looked \cup LookedAgain : At(w)[e] = Reply(w, e)
  BY Replies
<1>2. \A e \in Yes \ {"unitActive", "listener"} : Reply(w, e) \in BOOLEAN
  <2> SUFFICES ASSUME NEW e \in Yes \ {"unitActive", "listener"} PROVE Reply(w, e) \in BOOLEAN
    OBVIOUS
  <2>1. Reply(w, e) = Has(w.m, e)
    BY DEF Yes, Reply, Once
  <2>2. Has(w.m, e) = (e \in w.m.has)
    BY DEF Yes, Has
  <2>3. (e \in w.m.has) \in BOOLEAN
    OBVIOUS
  <2>4. QED
    BY <2>1, <2>2, <2>3
<1>3. Reply(w, "unitActive") \in BOOLEAN /\ Reply(w, "listener") \in BOOLEAN
  <2>1. w.m.foreign \in BOOLEAN
    BY DEF Machines
  <2>2. QED
    BY <2>1 DEF Reply
<1>4. \A e \in {"unit", "master"} : Reply(w, e) \in BOOLEAN \cup {Unknown}
  BY DEF Reply, Unit
<1>5. Reply(w, "kvmAccess") \in BOOLEAN \cup {Unknown}
  BY DEF Reply, Has, Once
<1>6. /\ Reply(w, "unitActive") => Reply(w, "unit")
      /\ Reply(w, "master") = TRUE => Reply(w, "unit") = TRUE
  BY DEF Reply, Unit
<1>7. \A e \in DOMAIN Once : Reply(w, e) = Reply(w, Once[e])
  BY DEF Reply, Has, Once
<1>8. QED
  BY <1>1, <1>2, <1>3, <1>4, <1>5, <1>6, <1>7 DEF OneMoment, Yes, Looked, LookedAgain, Once

----------------------------------------------------------------------------
(* What is said of them                                                    *)

\* VeilReportsAgree on the Tor client, and on the VM backend and the images.
TorAgrees(s) ==
    LET plan == VeilPlan(s)
        caps == VeilCapabilities(s)
        usable == TorUsable(s) = TRUE
    IN
    /\ plan.tor_package.status = "NOOP" <=> caps.tor_client.installed
    /\ usable <=> plan.workspace_private_profile.status = "APPLY"
    /\ usable <=> DoctorWorkspace(s) = "WARN" /\ PrivacyLevel(s) = "tor_application"
    /\ usable => DoctorTorService(s) = "PASS" /\ DoctorTorSocks(s) = "PASS"
    /\ DoctorTorSocks(s) = "WARN" => TorUsable(s) = FALSE

\* Plan, report and doctor decide alike whether Tor is installed and usable.
LEMMA TorIsOne == ASSUME NEW s, OneMoment(s) PROVE TorAgrees(s)
<1> DEFINE usable == TorUsable(s) = TRUE
<1>0. /\ VeilPlan(s).tor_package = TorPackage(s)
      /\ VeilPlan(s).workspace_private_profile = PrivateProfile(s)
      /\ VeilCapabilities(s).tor_client.installed = TorInstalled(s)
  BY DEF VeilPlan, VeilCapabilities, Usable
<1>1. TorPackage(s).status = "NOOP" <=> TorInstalled(s)
  BY DEF TorPackage, TorInstalled, Do, OneMoment, Yes
<1>2. usable <=> PrivateProfile(s).status = "APPLY"
  BY DEF PrivateProfile, Do
<1>3. usable <=> DoctorWorkspace(s) = "WARN" /\ PrivacyLevel(s) = "tor_application"
  BY DEF DoctorWorkspace, PrivacyLevel
<1>4. usable => s["unit"] = TRUE /\ s["unitActive"] /\ s["torrc"] # FALSE /\ TorInstalled(s)
  BY UnknownAssumption DEF TorUsable, OneMoment
<1>5. usable => DoctorTorService(s) = "PASS" /\ DoctorTorSocks(s) = "PASS"
  BY <1>4, UnknownAssumption DEF DoctorTorService, DoctorTorSocks, UnitActive, OneMoment, Yes
<1>6. DoctorTorSocks(s) = "WARN" => TorUsable(s) = FALSE
  BY UnknownAssumption DEF DoctorTorSocks, UnitActive, TorUsable, OneMoment, Yes
<1>7. QED
  BY <1>0, <1>1, <1>2, <1>3, <1>5, <1>6 DEF TorAgrees

VmAgrees(s) ==
    LET plan == VeilPlan(s)
        caps == VeilCapabilities(s)
    IN
    /\ plan.whonix_vm_prerequisites = VmPrerequisites(s) /\ DoctorWhonixBackend(s) = DoctorVm(s)
    /\ caps.vm_privacy_boundary.usable <=> plan.whonix_vm_prerequisites.status = "NOOP"
    /\ {plan.whonix_gateway_artifact.status, plan.whonix_workstation_artifact.status} = {"NOOP"}
         <=> caps.vm_privacy_boundary.usable /\ caps.whonix_vm.installed
    /\ caps.whonix_vm.installed => DoctorWhonixImages(s) = "PASS"
    /\ caps.whonix_vm.installed <=> Lifecycle(s) = "present_unverified"
    /\ caps.whonix_vm.usable # TRUE /\ plan.whonix_network_topology.status = "BLOCKED"

\* They decide alike whether a VM can run, and what is missing for Whonix.
LEMMA VmIsOne == ASSUME NEW s, OneMoment(s) PROVE VmAgrees(s)
<1> DEFINE ready == VmReadiness(s) = "ready"
<1>0. /\ VeilPlan(s).whonix_vm_prerequisites = WhonixVm(s)
      /\ VeilPlan(s).whonix_gateway_artifact = Artifact(s, "gateway")
      /\ VeilPlan(s).whonix_workstation_artifact = Artifact(s, "workstation")
      /\ VeilPlan(s).whonix_network_topology = Topology(s)
      /\ VeilCapabilities(s).whonix_vm.installed = BothImages(s)
      /\ VeilCapabilities(s).whonix_vm.usable = WhonixUsable(s)
      /\ VeilCapabilities(s).vm_privacy_boundary.usable = (VmReadiness(Again(s)) = "ready")
  BY DEF VeilPlan, VeilCapabilities, Usable
<1>1. VmReadiness(Again(s)) = VmReadiness(s)
  BY DEF VmReadiness, Again, OneMoment
<1>2. WhonixVm(s) = VmPrerequisites(s)
  BY DEF WhonixVm, VmPrerequisites, VmReadiness, VM_BLOCKED
<1>3. DoctorWhonixBackend(s) = DoctorVm(s)
  BY DEF DoctorWhonixBackend, DoctorVm
<1>4. ready <=> WhonixVm(s).status = "NOOP"
  BY DEF WhonixVm, Do, VM_BLOCKED
<1>5. {Artifact(s, "gateway").status, Artifact(s, "workstation").status} = {"NOOP"}
        <=> ready /\ BothImages(s)
  <2>1. \A image \in {"gateway", "workstation"} :
           Artifact(s, image).status = "NOOP" <=> ready /\ s[image]
    BY DEF Artifact, InstallTool, Do
  <2>2. \A a, b : {a, b} = {"NOOP"} <=> a = "NOOP" /\ b = "NOOP"
    OBVIOUS
  <2>3. QED
    BY <2>1, <2>2 DEF BothImages
<1>6. BothImages(s) => DoctorWhonixImages(s) = "PASS"
  BY DEF BothImages, DoctorWhonixImages, OneMoment, Yes
<1>7. BothImages(s) <=> Lifecycle(s) = "present_unverified"
  <2>1. \A image \in {"gateway", "workstation"} : Stage(s, image) = IF s[image] THEN 2 ELSE 1
    BY UnknownAssumption DEF Stage, Verified
  <2>2. QED
    BY <2>1 DEF Lifecycle, Stages, BothImages
<1>8. WhonixUsable(s) # TRUE
  BY UnknownAssumption DEF WhonixUsable
<1>9. Topology(s).status = "BLOCKED"
  BY UnknownAssumption DEF Topology, Verified, Do
<1>10. QED
  BY <1>0, <1>1, <1>2, <1>3, <1>4, <1>5, <1>6, <1>7, <1>8, <1>9 DEF VmAgrees

\* A usable Tor alone never makes the private focus available.
LEMMA PrivateIsLimited ==
    ASSUME NEW s, OneMoment(s), TorUsable(s) = TRUE
    PROVE  F!Readiness("private", PrivateFacts(s)) = "limited"
<1>1. /\ VeilCapabilities(s).tor_client.usable = TRUE
      /\ \A c \in {"tor_browser", "private_workspace", "whonix_vm"} :
            VeilCapabilities(s)[c].usable # TRUE
  <2> DEFINE caps == VeilCapabilities(s)
  <2>1. /\ caps.tor_client.usable = TorUsable(s)
        /\ caps["tor_browser"].usable = Unknown
        /\ caps["private_workspace"].usable = WorkspaceUsable(s)
        /\ caps["whonix_vm"].usable = WhonixUsable(s)
    BY DEF VeilCapabilities, Usable
  <2>2. Unknown # TRUE /\ WorkspaceUsable(s) # TRUE /\ WhonixUsable(s) # TRUE
    BY UnknownAssumption DEF WorkspaceUsable, WhonixUsable
  <2>3. QED
    BY <2>1, <2>2
<1>2. "torUsable" \in PrivateFacts(s) /\ "boundaryUsable" \notin PrivateFacts(s)
  BY <1>1 DEF PrivateFacts
<1>3. QED
  BY <1>2 DEF F!Readiness, F!PrivateReadiness

----------------------------------------------------------------------------
(* The plan carried out                                                    *)

\* What somebody who follows the plan for replies s installs.
Ids == {"tor_package", "tor_torsocks", "browser_tor_browser", "workspace_private_profile",
        "workspace_routing", "workspace_kill_switch_policy", "whonix_vm_prerequisites",
        "whonix_gateway_artifact", "whonix_gateway_verification", "whonix_workstation_artifact",
        "whonix_workstation_verification", "whonix_network_topology"}

ToApply(s) == {id \in DOMAIN VeilPlan(s) : VeilPlan(s)[id].status = "APPLY"}

Installed(s) == UNION {VeilPlan(s)[id].tools : id \in ToApply(s)}

\* build_plan's actions, one by one.
LEMMA PlanParts ==
    ASSUME NEW s
    PROVE  /\ DOMAIN VeilPlan(s) = Ids
           /\ VeilPlan(s)["tor_package"] = TorPackage(s)
           /\ VeilPlan(s)["tor_torsocks"] = InstallTool(s, "torsocks")
           /\ VeilPlan(s)["browser_tor_browser"] = InstallTool(s, "launcher")
           /\ VeilPlan(s)["workspace_private_profile"] = PrivateProfile(s)
           /\ VeilPlan(s)["workspace_routing"] = Do("NOOP", {})
           /\ VeilPlan(s)["workspace_kill_switch_policy"] = Do("NOOP", {})
           /\ VeilPlan(s)["whonix_vm_prerequisites"] = WhonixVm(s)
           /\ VeilPlan(s)["whonix_gateway_artifact"] = Artifact(s, "gateway")
           /\ VeilPlan(s)["whonix_gateway_verification"] = Verification(s, "gateway")
           /\ VeilPlan(s)["whonix_workstation_artifact"] = Artifact(s, "workstation")
           /\ VeilPlan(s)["whonix_workstation_verification"] = Verification(s, "workstation")
           /\ VeilPlan(s)["whonix_network_topology"] = Topology(s)
BY DEF VeilPlan, Ids

Packages == {"tor", "torPackage", "torsocks", "launcher", "qemu", "libvirt", "gateway", "workstation"}

\* A tool that is not there is proposed, and only that tool.
LEMMA InstallsIt ==
    ASSUME NEW s, NEW t
    PROVE  /\ InstallTool(s, t).tools \subseteq {t}
           /\ ~s[t] => InstallTool(s, t).status = "APPLY" /\ t \in InstallTool(s, t).tools
<1>1. CASE s[t]
  BY <1>1 DEF InstallTool, Do
<1>2. CASE ~s[t]
  BY <1>2 DEF InstallTool, Do
<1>3. QED
  BY <1>1, <1>2

\* What is proposed is a package of the list, and is there afterwards.
LEMMA InstalledByPlan ==
    ASSUME NEW s
    PROVE  /\ Installed(s) \subseteq Packages
           /\ TorPackage(s).status = "APPLY" => {"tor", "torPackage"} \subseteq Installed(s)
           /\ ~s["torsocks"] => "torsocks" \in Installed(s)
           /\ ~s["launcher"] => "launcher" \in Installed(s)
           /\ VmReadiness(s) \in {"needs_qemu", "needs_libvirt"} => {"qemu", "libvirt"} \subseteq Installed(s)
           /\ VmReadiness(s) = "ready" => \A image \in {"gateway", "workstation"} :
                                           ~s[image] => image \in Installed(s)
           /\ TorPackage(s).status # "APPLY" => "torPackage" \notin Installed(s)
<1>1. /\ TorPackage(s) \in {Do("NOOP", {}), Do("APPLY", {"tor", "torPackage"})}
      /\ PrivateProfile(s) \in {Do("APPLY", {}), Do("BLOCKED", {})}
      /\ WhonixVm(s) = IF VmReadiness(s) \in VM_BLOCKED THEN Do("BLOCKED", {})
                       ELSE IF VmReadiness(s) = "ready" THEN Do("NOOP", {})
                       ELSE Do("APPLY", {"qemu", "libvirt"})
      /\ \A image : Artifact(s, image) = IF VmReadiness(s) # "ready" THEN Do("BLOCKED", {})
                                         ELSE InstallTool(s, image)
      /\ \A image : Verification(s, image).status # "APPLY"
      /\ Topology(s).status # "APPLY"
  BY UnknownAssumption DEF TorPackage, InstallTool, PrivateProfile, WhonixVm, Artifact, Verification,
     Topology, Verified, Do
<1>2. \A status, tools : Do(status, tools).status = status /\ Do(status, tools).tools = tools
  BY DEF Do
<1>3. \A id \in Ids : VeilPlan(s)[id].status = "APPLY" =>
         /\ VeilPlan(s)[id].tools \subseteq Packages
         /\ TorPackage(s).status # "APPLY" => "torPackage" \notin VeilPlan(s)[id].tools
  <2> DEFINE Fits(a) == a.status = "APPLY" =>
                          /\ a.tools \subseteq Packages
                          /\ TorPackage(s).status # "APPLY" => "torPackage" \notin a.tools
  <2>1. Fits(TorPackage(s))
    BY <1>1, <1>2 DEF Packages
  <2>2. \A t \in {"torsocks", "launcher", "gateway", "workstation"} : Fits(InstallTool(s, t))
    BY InstallsIt DEF Packages
  <2>3. Fits(PrivateProfile(s)) /\ Fits(Do("NOOP", {})) /\ Fits(Topology(s))
    BY <1>1, <1>2
  <2>4. Fits(WhonixVm(s))
    BY <1>1, <1>2 DEF Packages
  <2>5. \A image \in {"gateway", "workstation"} :
           Fits(Artifact(s, image)) /\ Fits(Verification(s, image))
    BY <1>1, <1>2, <2>2
  <2> HIDE DEF Fits
  <2>6. \A id \in Ids : Fits(VeilPlan(s)[id])
    BY <2>1, <2>2, <2>3, <2>4, <2>5, PlanParts DEF Ids
  <2>7. QED
    BY <2>6 DEF Fits
<1>4. \A id \in Ids : VeilPlan(s)[id].status = "APPLY" => VeilPlan(s)[id].tools \subseteq Installed(s)
  BY PlanParts DEF Installed, ToApply
<1>5. Installed(s) \subseteq Packages /\ (TorPackage(s).status # "APPLY" => "torPackage" \notin Installed(s))
  BY <1>3, PlanParts DEF Installed, ToApply
<1>6. /\ TorPackage(s).status = "APPLY" => {"tor", "torPackage"} \subseteq Installed(s)
      /\ ~s["torsocks"] => "torsocks" \in Installed(s)
      /\ ~s["launcher"] => "launcher" \in Installed(s)
  <2>1. /\ TorPackage(s).status = "APPLY" => TorPackage(s).tools \subseteq Installed(s)
        /\ InstallTool(s, "torsocks").status = "APPLY"
             => InstallTool(s, "torsocks").tools \subseteq Installed(s)
        /\ InstallTool(s, "launcher").status = "APPLY"
             => InstallTool(s, "launcher").tools \subseteq Installed(s)
    BY <1>4, PlanParts DEF Ids
  <2>2. QED
    BY <1>1, <1>2, <2>1, InstallsIt
<1>7. VmReadiness(s) \in {"needs_qemu", "needs_libvirt"} => {"qemu", "libvirt"} \subseteq Installed(s)
  BY <1>1, <1>2, <1>4, PlanParts DEF Ids, VM_BLOCKED
<1>8. VmReadiness(s) = "ready" => \A image \in {"gateway", "workstation"} :
                                           ~s[image] => image \in Installed(s)
  <2>1. \A image \in {"gateway", "workstation"} :
           Artifact(s, image).status = "APPLY" => Artifact(s, image).tools \subseteq Installed(s)
    BY <1>4, PlanParts DEF Ids
  <2>2. QED
    BY <1>1, <1>2, <2>1, InstallsIt
<1>9. QED
  BY <1>5, <1>6, <1>7, <1>8

\* Following the plan adds what it installs; the daemon is only touched where
\* the package is new.
LEMMA FollowedAdds ==
    ASSUME NEW w \in [m : Machines, fs : [Paths -> Entries]]
    PROVE  /\ Followed(w) \in [m : Machines, fs : [Paths -> Entries]]
           /\ Followed(w).m.has = w.m.has \cup Installed(At(w))
           /\ Followed(w).m.foreign = w.m.foreign
           /\ Followed(w).fs = w.fs
           /\ "torPackage" \in w.m.has => Followed(w).m.daemon = w.m.daemon
<1> DEFINE has == w.m.has \cup Installed(At(w))
           daemon == IF "torPackage" \in has \ w.m.has THEN Loaded(w.m, w.fs) ELSE w.m.daemon
<1>1. Followed(w) = [w EXCEPT !.m.has = has, !.m.daemon = daemon]
  BY DEF Followed, Installed, ToApply
<1>2. has \in SUBSET Things
  BY InstalledByPlan DEF Machines, Things, Packages
<1>3. daemon \in {"stopped", "silent", "serving"}
  BY DEF Loaded, Machines
<1>4. w = [m |-> w.m, fs |-> w.fs] /\ w.m = [has |-> w.m.has, daemon |-> w.m.daemon, foreign |-> w.m.foreign]
      /\ w.m.foreign \in BOOLEAN
  BY DEF Machines
<1> HIDE DEF has, daemon
<1>5. Followed(w) = [m |-> [has |-> has, daemon |-> daemon, foreign |-> w.m.foreign], fs |-> w.fs]
  BY <1>1, <1>4
<1>6. "torPackage" \in w.m.has => daemon = w.m.daemon
  BY DEF daemon
<1>7. has = w.m.has \cup Installed(At(w))
  BY DEF has
<1>8. QED
  BY <1>2, <1>3, <1>4, <1>5, <1>6, <1>7 DEF Machines

\* What a machine has, its replies say.
LEMMA SaysWhatItHas ==
    ASSUME NEW w, w.m \in Machines, NEW e \in Yes \ {"unitActive", "listener"}
    PROVE  At(w)[e] <=> e \in w.m.has
<1>1. At(w)[e] = Reply(w, e)
  BY Replies DEF Looked, Yes
<1>2. Reply(w, e) = Has(w.m, e)
  BY DEF Yes, Reply, Once
<1>3. Has(w.m, e) = (e \in w.m.has)
  BY DEF Yes, Has
<1>4. QED
  BY <1>1, <1>2, <1>3

Accelerated(x) == {"kvm", "kvmModule", "kvmAccess"} \subseteq x.has /\ "kvmUnreadable" \notin x.has

\* What VM readiness says of a world that does not change.
LEMMA Backend ==
    ASSUME NEW w, w.m \in Machines
    PROVE  /\ VmReadiness(At(w)) \in VM_BLOCKED <=> ~Accelerated(w.m)
           /\ VmReadiness(At(w)) = "ready" <=> Accelerated(w.m) /\ {"qemu", "libvirt"} \subseteq w.m.has
           /\ VmReadiness(At(w)) \in VM_BLOCKED \cup {"needs_qemu", "needs_libvirt", "ready"}
<1> DEFINE s == At(w)
<1>1. /\ s["kvm"] <=> "kvm" \in w.m.has
      /\ s["kvmModule"] <=> "kvmModule" \in w.m.has
      /\ s["qemu"] <=> "qemu" \in w.m.has
      /\ s["libvirt"] <=> "libvirt" \in w.m.has
  BY SaysWhatItHas DEF Yes
<1>2. s["kvmAccess"] = Has(w.m, "kvmAccess")
  BY Replies DEF Looked, Reply, Once
<1>3. s["kvmAccess"] = Unknown <=> "kvmUnreadable" \in w.m.has
  BY <1>2, UnknownAssumption DEF Has
<1>4. s["kvmAccess"] = FALSE <=> "kvmUnreadable" \notin w.m.has /\ ~({"kvm", "kvmAccess"} \subseteq w.m.has)
  BY <1>2, UnknownAssumption DEF Has
<1> HIDE DEF s
<1>5. /\ VmReadiness(s) \in VM_BLOCKED <=> ~Accelerated(w.m)
      /\ VmReadiness(s) = "ready" <=> Accelerated(w.m) /\ {"qemu", "libvirt"} \subseteq w.m.has
      /\ VmReadiness(s) \in VM_BLOCKED \cup {"needs_qemu", "needs_libvirt", "ready"}
  BY <1>1, <1>3, <1>4 DEF VmReadiness, VM_BLOCKED, Accelerated
<1>6. QED
  BY <1>5 DEF s

TypedWorlds == [m : Machines, fs : [Paths -> Entries]]

\* Once the plan is followed Tor, torsocks and the browser are there, and the
\* packages of a backend the machine can run; where those were there before,
\* so are the images.
LEMMA FollowedBrings ==
    ASSUME NEW w \in TypedWorlds
    PROVE  LET x == Followed(w) IN
           /\ x \in TypedWorlds /\ w.m.has \subseteq x.m.has
           /\ "tor" \in x.m.has \/ "torPackage" \in x.m.has
           /\ {"torsocks", "launcher"} \subseteq x.m.has
           /\ Accelerated(x.m) <=> Accelerated(w.m)
           /\ Accelerated(w.m) => {"qemu", "libvirt"} \subseteq x.m.has
           /\ Accelerated(w.m) /\ {"qemu", "libvirt"} \subseteq w.m.has
                => {"gateway", "workstation"} \subseteq x.m.has
<1> DEFINE x == Followed(w)
           s == At(w)
<1>0. w.m \in Machines
  BY DEF TypedWorlds
<1>1. /\ x \in TypedWorlds
      /\ x.m.has = w.m.has \cup Installed(s)
  BY FollowedAdds DEF TypedWorlds
<1>2. /\ Installed(s) \subseteq Packages
      /\ TorPackage(s).status = "APPLY" => {"tor", "torPackage"} \subseteq Installed(s)
      /\ ~s["torsocks"] => "torsocks" \in Installed(s)
      /\ ~s["launcher"] => "launcher" \in Installed(s)
      /\ VmReadiness(s) \in {"needs_qemu", "needs_libvirt"} => {"qemu", "libvirt"} \subseteq Installed(s)
      /\ VmReadiness(s) = "ready" => \A image \in {"gateway", "workstation"} :
                                      ~s[image] => image \in Installed(s)
  BY InstalledByPlan
<1>3. \A e \in Yes \ {"unitActive", "listener"} : s[e] <=> e \in w.m.has
  BY <1>0, SaysWhatItHas
<1>4. TorPackage(s).status # "APPLY" => "tor" \in w.m.has \/ "torPackage" \in w.m.has
  <2>1. s["torPackage2"] = s["torPackage"]
    BY <1>0, RepliesAreOfOneMoment DEF OneMoment
  <2>2. TorPackage(s).status # "APPLY" => s["tor"] \/ s["torPackage"]
    BY <2>1 DEF TorPackage, TorInstalled, Do
  <2>3. QED
    BY <1>3, <2>2 DEF Yes
<1>5. /\ VmReadiness(s) \in VM_BLOCKED <=> ~Accelerated(w.m)
      /\ VmReadiness(s) = "ready" <=> Accelerated(w.m) /\ {"qemu", "libvirt"} \subseteq w.m.has
      /\ VmReadiness(s) \in VM_BLOCKED \cup {"needs_qemu", "needs_libvirt", "ready"}
  BY <1>0, Backend
<1> HIDE DEF x, s
<1>6. "tor" \in x.m.has \/ "torPackage" \in x.m.has
  BY <1>1, <1>2, <1>4
<1>7. {"torsocks", "launcher"} \subseteq x.m.has
  BY <1>1, <1>2, <1>3 DEF Yes
<1>8. Accelerated(x.m) <=> Accelerated(w.m)
  BY <1>1, <1>2 DEF Accelerated, Packages
<1>9. Accelerated(w.m) => {"qemu", "libvirt"} \subseteq x.m.has
  BY <1>1, <1>2, <1>5
<1>10. Accelerated(w.m) /\ {"qemu", "libvirt"} \subseteq w.m.has
          => {"gateway", "workstation"} \subseteq x.m.has
  BY <1>1, <1>2, <1>3, <1>5 DEF Yes
<1>11. QED
  BY <1>1, <1>6, <1>7, <1>8, <1>9, <1>10 DEF x

\* A machine with all of that is left alone.
LEMMA Settled ==
    ASSUME NEW w \in TypedWorlds,
           "tor" \in w.m.has \/ "torPackage" \in w.m.has,
           {"torsocks", "launcher"} \subseteq w.m.has,
           Accelerated(w.m) => {"qemu", "libvirt", "gateway", "workstation"} \subseteq w.m.has
    PROVE  ToApply(At(w)) \subseteq {"workspace_private_profile"}
<1> DEFINE s == At(w)
<1>0. w.m \in Machines
  BY DEF TypedWorlds
<1>1. \A e \in Yes \ {"unitActive", "listener"} : s[e] <=> e \in w.m.has
  BY <1>0, SaysWhatItHas
<1>2. /\ VmReadiness(s) \in VM_BLOCKED <=> ~Accelerated(w.m)
      /\ VmReadiness(s) = "ready" <=> Accelerated(w.m) /\ {"qemu", "libvirt"} \subseteq w.m.has
      /\ VmReadiness(s) \in VM_BLOCKED \cup {"needs_qemu", "needs_libvirt", "ready"}
  BY <1>0, Backend
<1> HIDE DEF s
<1>3. TorPackage(s).status # "APPLY"
  BY <1>1 DEF TorPackage, TorInstalled, Do, Yes
<1>4. InstallTool(s, "torsocks").status # "APPLY" /\ InstallTool(s, "launcher").status # "APPLY"
  BY <1>1 DEF InstallTool, Do, Yes
<1>5. WhonixVm(s).status # "APPLY"
  BY <1>2 DEF WhonixVm, Do
<1>6. Artifact(s, "gateway").status # "APPLY" /\ Artifact(s, "workstation").status # "APPLY"
  BY <1>1, <1>2 DEF Artifact, InstallTool, Do, Yes
<1>7. /\ Verification(s, "gateway").status # "APPLY" /\ Verification(s, "workstation").status # "APPLY"
      /\ Topology(s).status # "APPLY" /\ Do("NOOP", {}).status # "APPLY"
  BY UnknownAssumption DEF Verification, Topology, Verified, Do
<1>8. \A id \in Ids \ {"workspace_private_profile"} : VeilPlan(s)[id].status # "APPLY"
  BY <1>3, <1>4, <1>5, <1>6, <1>7, PlanParts DEF Ids
<1>9. QED
  BY <1>8, PlanParts DEF ToApply, s

\* A machine on which Tor is usable keeps it.
LEMMA TorStays ==
    ASSUME NEW w \in TypedWorlds, TorUsable(At(w)) = TRUE
    PROVE  TorUsable(At(Followed(w))) = TRUE
<1> DEFINE x == Followed(w)
<1>0. w.m \in Machines /\ x.m \in Machines
  BY FollowedAdds DEF TypedWorlds
<1>1. /\ At(w)["unit"] = TRUE /\ At(w)["unitActive"] /\ At(w)["torrc"] # FALSE
      /\ At(w)["listener"]
  BY UnknownAssumption DEF TorUsable
<1>2. Unit(w.m) /\ w.m.daemon # "stopped" /\ (w.m.daemon = "serving" \/ w.m.foreign)
  <2>1. Reply(w, "unit") = TRUE /\ Reply(w, "unitActive") /\ Reply(w, "listener")
    BY <1>1, Replies DEF Looked
  <2>2. QED
    BY <2>1, UnknownAssumption DEF Reply, Unit
<1>3. /\ x.m.daemon = w.m.daemon /\ x.m.foreign = w.m.foreign /\ x.fs = w.fs /\ Unit(x.m)
      /\ "torPackage" \in x.m.has /\ "systemd" \in x.m.has
  BY <1>2, FollowedAdds DEF Unit, TypedWorlds
<1> HIDE DEF x
<1>4. /\ Reply(x, "unit") = TRUE /\ Reply(x, "unitActive") /\ Reply(x, "listener")
      /\ Reply(x, "torrc") = Reply(w, "torrc")
  BY <1>2, <1>3 DEF Reply, Unit
<1>5. /\ At(x)["unit"] = TRUE /\ At(x)["unitActive"] /\ At(x)["torrc"] # FALSE
      /\ At(x)["listener"]
  BY <1>1, <1>4, Replies DEF Looked
<1>6. At(x)["torPackage"]
  BY <1>0, <1>3, SaysWhatItHas DEF Yes
<1>7. QED
  BY <1>5, <1>6 DEF TorUsable, TorInstalled, x

----------------------------------------------------------------------------
(* The commands                                                            *)

Typed == m \in Machines /\ fs \in [Paths -> Entries]

\* Whatever happens to the machine, it stays one.
LEMMA OthersKeepTyped == ASSUME Typed, Others PROVE Typed'
<1>1. World = [m |-> m, fs |-> fs] /\ m = [has |-> m.has, daemon |-> m.daemon, foreign |-> m.foreign]
  BY DEF World, Typed, Machines
<1>2. m.has \in SUBSET Things /\ m.daemon \in {"stopped", "silent", "serving"} /\ m.foreign \in BOOLEAN
  BY DEF Typed, Machines
<1>3. CASE EditTorrc
  <2>1. PICK e \in Edits : Change([World EXCEPT !.fs[e.path] = e.entry])
    BY <1>3 DEF EditTorrc
  <2>2. m' = m /\ fs' = [fs EXCEPT ![e.path] = e.entry]
    BY <1>1, <2>1 DEF Change
  <2>3. QED
    BY <2>2, VeilAssumption DEF Typed
<1>4. CASE RunTor
  <2>1. PICK d \in {Loaded(m, fs), "stopped"} : Change([World EXCEPT !.m.daemon = d])
    BY <1>4 DEF RunTor
  <2>2. m' = [has |-> m.has, daemon |-> d, foreign |-> m.foreign] /\ fs' = fs
    BY <1>1, <2>1 DEF Change
  <2>3. d \in {"stopped", "silent", "serving"}
    BY <2>1 DEF Loaded
  <2>4. QED
    BY <1>2, <2>2, <2>3 DEF Typed, Machines
<1>5. CASE TakePort
  <2>1. Change([World EXCEPT !.m.foreign = ~m.foreign])
    BY <1>1, <1>5 DEF TakePort
  <2>2. m' = [has |-> m.has, daemon |-> m.daemon, foreign |-> ~m.foreign] /\ fs' = fs
    BY <1>1, <2>1 DEF Change
  <2>3. QED
    BY <1>2, <2>2 DEF Typed, Machines
<1>6. CASE \E things \in Toggles : Toggle(things)
  <2>1. PICK things \in Toggles : Toggle(things)
    BY <1>6
  <2>2. PICK has \in {m.has \cup things, m.has \ things} : Change([World EXCEPT !.m.has = has])
    BY <1>1, <2>1 DEF Toggle
  <2>3. m' = [has |-> has, daemon |-> m.daemon, foreign |-> m.foreign] /\ fs' = fs
    BY <1>1, <2>2 DEF Change
  <2>4. has \in SUBSET Things
    BY <1>2, <2>2, VeilAssumption
  <2>5. QED
    BY <1>2, <2>3, <2>4 DEF Typed, Machines
<1>7. QED
  BY <1>3, <1>4, <1>5, <1>6 DEF Others

\* Only others change the machine.
THEOREM MachineIsTyped == Spec => []Typed
<1>1. Init => Typed
  BY VeilAssumption DEF Init, Typed
<1>2. ASSUME Typed, [Next]_veilVars PROVE Typed'
  <2>1. CASE Others
    BY <1>2, <2>1, OthersKeepTyped
  <2>2. CASE UNCHANGED <<m, fs>>
    BY <1>2, <2>2 DEF Typed
  <2>3. ASSUME (\E c \in Commands : Start(c)) \/ PutAway \/ UNCHANGED veilVars PROVE UNCHANGED <<m, fs>>
    BY <2>3 DEF Start, PutAway, veilVars, readVars
  <2>4. ASSUME Ask \/ TimeOut \/ EndRead PROVE UNCHANGED <<m, fs>>
    BY <2>4 DEF Ask, TimeOut, EndRead, readVars
  <2>5. ASSUME BeginRead \/ ReadOn PROVE UNCHANGED <<m, fs>>
    BY <2>5 DEF BeginRead, Begin, ReadOn, Read, Visit, FollowInclude, ExpandWildcard, Keep, Next1
  <2>6. QED
    BY <1>2, <2>1, <2>2, <2>3, <2>4, <2>5 DEF Next, Step
<1>3. QED
  BY <1>1, <1>2, PTL DEF Spec

\* Planner, capability report, doctor, cyber planner and private focus say the
\* same of every machine, in every state of its daemon, backend and torrc.
THEOREM ReportsTellOneStory == Spec => []VeilReportsAgree
<1>1. Typed => VeilReportsAgree
  <2> SUFFICES ASSUME Typed PROVE VeilReportsAgree
    OBVIOUS
  <2> DEFINE s == At(World)
  <2>1. OneMoment(s)
    BY RepliesAreOfOneMoment DEF Typed, World
  <2> HIDE DEF s
  <2>2. VeilCapabilities(s).tor_client.usable = TorUsable(s)
    BY DEF VeilCapabilities, Usable
  <2>3. TorAgrees(s) /\ VmAgrees(s)
    BY <2>1, TorIsOne, VmIsOne
  <2>4. TorUsable(s) = TRUE => F!Readiness("private", PrivateFacts(s)) = "limited"
    BY <2>1, PrivateIsLimited
  <2>5. QED
    BY <2>2, <2>3, <2>4 DEF VeilReportsAgree, TorAgrees, VmAgrees, s
<1>2. QED
  BY <1>1, MachineIsTyped, PTL

\* On every machine the plan carried out twice has only the private profile
\* left to propose, and carried out once never takes Tor away.
THEOREM PlanSettles == Spec => []VeilPlansSettle
<1>1. Typed => VeilPlansSettle
  <2> SUFFICES ASSUME Typed PROVE VeilPlansSettle
    OBVIOUS
  <2> DEFINE once == Followed(World)
             twice == Followed(once)
  <2>1. World \in TypedWorlds
    BY DEF Typed, World, TypedWorlds
  <2>2. once \in TypedWorlds
    BY <2>1, FollowedBrings
  <2>3. twice \in TypedWorlds
    BY <2>2, FollowedBrings
  <2>4. ToApply(At(twice)) \subseteq {"workspace_private_profile"}
    <3>1. /\ Accelerated(once.m) => Accelerated(World.m)
          /\ Accelerated(World.m) => {"qemu", "libvirt"} \subseteq once.m.has
      BY <2>1, FollowedBrings
    <3>2. /\ "tor" \in twice.m.has \/ "torPackage" \in twice.m.has
          /\ {"torsocks", "launcher"} \subseteq twice.m.has
          /\ Accelerated(twice.m) => Accelerated(once.m)
          /\ once.m.has \subseteq twice.m.has
          /\ Accelerated(once.m) /\ {"qemu", "libvirt"} \subseteq once.m.has
               => {"gateway", "workstation"} \subseteq twice.m.has
      BY <2>2, FollowedBrings
    <3> HIDE DEF once, twice
    <3>3. Accelerated(twice.m) => {"qemu", "libvirt", "gateway", "workstation"} \subseteq twice.m.has
      BY <3>1, <3>2
    <3>4. QED
      BY <2>3, <3>2, <3>3, Settled
  <2>5. TorUsable(At(World)) = TRUE => TorUsable(At(once)) = TRUE
    BY <2>1, TorStays
  <2>6. QED
    BY <2>4, <2>5 DEF VeilPlansSettle, ToApply
<1>2. QED
  BY <1>1, MachineIsTyped, PTL

----------------------------------------------------------------------------
(* What is asked while something changes                                   *)

\* What came is Tor with its package, or one thing.
OneThing(has, more) ==
    \/ has \subseteq more /\ more \ has \subseteq {"tor", "torPackage"}
    \/ has \subseteq more /\ \E thing \in Things \ {"systemd"} : more \ has \subseteq {thing}

\* Two worlds with one change of the machine between them.
Near(v, w) ==
    \/ v.m = w.m
    \/ v.m.has = w.m.has /\ v.m.foreign = w.m.foreign
    \/ v.m.has = w.m.has /\ v.m.daemon = w.m.daemon
    \/ /\ v.m.daemon = w.m.daemon /\ v.m.foreign = w.m.foreign
       /\ OneThing(v.m.has, w.m.has) \/ OneThing(w.m.has, v.m.has)

\* And with one file edited between them, if the machine is the same.
NearFiles(v, w) ==
    v.fs = w.fs \/ (v.m = w.m /\ \E p \in Paths : \A q \in Paths \ {p} : v.fs[q] = w.fs[q])

\* Whatever happens on the machine is one change.
LEMMA OthersAreNear == ASSUME Typed, Others PROVE Near(World, World')
<1>1. World = [m |-> m, fs |-> fs] /\ m = [has |-> m.has, daemon |-> m.daemon, foreign |-> m.foreign]
  BY DEF World, Typed, Machines
<1>2. World' = [m |-> m', fs |-> fs']
  BY DEF World
<1>3. CASE EditTorrc
  <2>1. PICK e \in Edits : Change([World EXCEPT !.fs[e.path] = e.entry])
    BY <1>3 DEF EditTorrc
  <2>2. m' = m
    BY <1>1, <2>1 DEF Change
  <2>3. QED
    BY <1>1, <1>2, <2>2 DEF Near
<1>4. CASE RunTor
  <2>1. PICK d \in {Loaded(m, fs), "stopped"} : Change([World EXCEPT !.m.daemon = d])
    BY <1>4 DEF RunTor
  <2>2. m' = [has |-> m.has, daemon |-> d, foreign |-> m.foreign]
    BY <1>1, <2>1 DEF Change
  <2>3. QED
    BY <1>1, <1>2, <2>2 DEF Near
<1>5. CASE TakePort
  <2>1. Change([World EXCEPT !.m.foreign = ~m.foreign])
    BY <1>1, <1>5 DEF TakePort
  <2>2. m' = [has |-> m.has, daemon |-> m.daemon, foreign |-> ~m.foreign]
    BY <1>1, <2>1 DEF Change
  <2>3. QED
    BY <1>1, <1>2, <2>2 DEF Near
<1>6. CASE \E things \in Toggles : Toggle(things)
  <2>1. PICK things \in Toggles : Toggle(things)
    BY <1>6
  <2>2. PICK has \in {m.has \cup things, m.has \ things} : Change([World EXCEPT !.m.has = has])
    BY <1>1, <2>1 DEF Toggle
  <2>3. m' = [has |-> has, daemon |-> m.daemon, foreign |-> m.foreign]
    BY <1>1, <2>2 DEF Change
  <2>4. /\ things = {"tor", "torPackage"} \/ \E thing \in Things : things = {thing}
        /\ "systemd" \notin things
    BY TogglesAssumption
  <2>5. OneThing(m.has, has) \/ OneThing(has, m.has)
    <3>1. \A a, b : a \subseteq b /\ b \ a \subseteq things => OneThing(a, b)
      BY <2>4 DEF OneThing
    <3>2. CASE has = m.has \cup things
      BY <3>1, <3>2
    <3>3. CASE has = m.has \ things
      BY <3>1, <3>3
    <3>4. QED
      BY <2>2, <3>2, <3>3
  <2>6. World.m = m /\ World'.m = m'
    BY <1>1, <1>2
  <2>7. World.m.has = m.has /\ World'.m.has = has /\ World'.m.daemon = World.m.daemon
        /\ World'.m.foreign = World.m.foreign
    BY <2>3, <2>6
  <2>8. QED
    BY <2>5, <2>7 DEF Near
<1>7. QED
  BY <1>3, <1>4, <1>5, <1>6 DEF Others

\* And one of a file is one of nothing else.
LEMMA OthersChangeOneFile == ASSUME Typed, Others PROVE NearFiles(World, World')
<1>1. World = [m |-> m, fs |-> fs] /\ World' = [m |-> m', fs |-> fs']
  BY DEF World
<1>2. CASE EditTorrc
  <2>1. PICK e \in Edits : Change([World EXCEPT !.fs[e.path] = e.entry])
    BY <1>2 DEF EditTorrc
  <2>2. m' = m /\ fs' = [fs EXCEPT ![e.path] = e.entry]
    BY <1>1, <2>1 DEF Change
  <2>3. fs \in [Paths -> Entries] /\ e.path \in Paths
    BY VeilAssumption DEF Typed
  <2>4. \A q \in Paths \ {e.path} : fs'[q] = fs[q]
    BY <2>2, <2>3
  <2>5. QED
    BY <1>1, <2>2, <2>3, <2>4 DEF NearFiles
<1>3. CASE RunTor \/ TakePort \/ \E things \in Toggles : Toggle(things)
  <2>1. fs' = fs
    BY <1>1, <1>3 DEF RunTor, TakePort, Toggle, Change
  <2>2. QED
    BY <1>1, <2>1 DEF NearFiles
<1>4. QED
  BY <1>2, <1>3 DEF Others

\* Which of the two came first makes no difference.
LEMMA NearIsSymmetric ==
    ASSUME NEW v, NEW w
    PROVE  (Near(v, w) => Near(w, v)) /\ (NearFiles(v, w) => NearFiles(w, v))
BY DEF Near, NearFiles

\* No file changes while the command runs, or one is edited.
FewFiles ==
    \/ FilesStay
    \/ \E f, g, p : OneEdit(f, g, p) /\ \A w \in during : w.fs \in {f, g}

\* Then it finds what the torrc means at one moment.
LEMMA FindsOneMoment ==
    ASSUME IInv, Undisturbed, Mixes, cmd.reading, todo = <<>>, FewFiles
    PROVE  \E w \in during : MultiValue(Directives(lines), "SocksPort") = Reply(w, "torrc")
<1> DEFINE value == MultiValue(Directives(lines), "SocksPort")
<1>1. World \in during /\ World.fs = fs
  BY DEF Mixes, Undisturbed, World
<1>2. \A w : Reply(w, "torrc") = MultiValue(Readable(w.fs), "SocksPort")
  BY DEF Reply
<1>3. CASE FilesStay
  <2>1. Directives(lines) = Readable(fs)
    BY <1>3, FoundAll
  <2>2. QED
    BY <1>1, <1>2, <2>1
<1>4. CASE ~FilesStay
  <2>1. PICK f, g, p : OneEdit(f, g, p) /\ \A w \in during : w.fs \in {f, g}
    BY <1>4 DEF FewFiles
  <2>2. OnlyMixes(f, g, p, <<>>, Directives(lines))
    BY <2>1 DEF Mixes
  <2>3. Directives(lines) \in Seq(Lines)
    BY DirectivesAreLines DEF IInv, TypeOK
  <2>4. PICK h \in {f, g} : value = MultiValue(Readable(h), "SocksPort")
    BY <2>1, <2>2, <2>3, ReadsOneOfTwo
  <2>5. PICK v \in during : v.fs # fs
    BY <1>4 DEF FilesStay
  <2>6. \E w \in during : w.fs = h
    BY <1>1, <2>1, <2>4, <2>5
  <2>7. QED
    BY <1>2, <2>4, <2>6
<1>5. QED
  BY <1>3, <1>4

\* Every probe before the one that is asked has been answered: as one of the
\* worlds of the command would, or not in time, or from a torrc of which more
\* changed than one file, or one that is cut off.
Answered(p) ==
    \/ p \in cmd.late /\ seen[p] = NoReply(p)
    \/ p = "torrc" /\ ~FewFiles
    \/ \E w \in during : seen[p] = Reply(w, p)

Tied ==
    /\ cmd.name \in Commands \cup {None} /\ cmd.at \in Nat
    /\ cmd.name # None => \A i \in DOMAIN Order[cmd.name] :
                             i < cmd.at => Order[cmd.name][i] \in DOMAIN seen
    /\ cmd.reading => cmd.name # None /\ Asked = "torrc"
    /\ \A p \in DOMAIN seen : Answered(p)
    /\ \A w \in during : w.m \in Machines /\ w.fs \in [Paths -> Entries]
    /\ \A v, w : during = {v, w} => Near(v, w) /\ NearFiles(v, w)

\* An answer to the probe that is asked keeps it so.
LEMMA AnswerKeepsTied ==
    ASSUME Tied, cmd.name # None, NEW reply, Answer(reply),
           UNCHANGED <<fs, during>>, cmd'.name = cmd.name, cmd'.at = cmd.at + 1,
           cmd'.reading => FALSE, cmd.late \subseteq cmd'.late,
           \/ Asked \in cmd'.late /\ reply = NoReply(Asked)
           \/ Asked = "torrc" /\ ~FewFiles
           \/ \E w \in during : reply = Reply(w, Asked)
    PROVE  Tied'
<1> DEFINE asked == Asked
<1>1. /\ DOMAIN seen' = DOMAIN seen \cup {asked}
      /\ \A p \in DOMAIN seen' : seen'[p] = IF p = asked THEN reply ELSE seen[p]
  BY DEF Answer
<1>2. \A i \in DOMAIN Order[cmd.name] : i < cmd.at + 1 => Order[cmd.name][i] \in DOMAIN seen'
  <2>1. Order[cmd.name] \in Seq(Looked \cup Reported)
    <3>1. cmd.name \in {"plan", "capabilities"}
      BY DEF Tied, Commands
    <3>2. Seq(Looked) \subseteq Seq(Looked \cup Reported)
          /\ Seq(Reported) \subseteq Seq(Looked \cup Reported)
      OBVIOUS
    <3>3. QED
      BY <3>1, <3>2, PlanIsSequence, ReportAsks
  <2>2. \A i \in DOMAIN Order[cmd.name] : i < cmd.at + 1 => i < cmd.at \/ i = cmd.at
    BY <2>1 DEF Tied
  <2>3. QED
    BY <1>1, <2>2 DEF Tied, Asked
<1>3. FewFiles' <=> FewFiles
  BY DEF FewFiles, FilesStay
<1>4. \A p \in DOMAIN seen' : Answered(p)'
  <2> SUFFICES ASSUME NEW p \in DOMAIN seen' PROVE Answered(p)'
    OBVIOUS
  <2>1. Answered(p)' <=> \/ p \in cmd'.late /\ seen'[p] = NoReply(p)
                         \/ p = "torrc" /\ ~FewFiles
                         \/ \E w \in during : seen'[p] = Reply(w, p)
    BY <1>3 DEF Answered
  <2>2. CASE p = asked
    BY <1>1, <2>1, <2>2
  <2>3. CASE p # asked
    <3>1. p \in DOMAIN seen /\ seen'[p] = seen[p]
      BY <1>1, <2>3
    <3>2. Answered(p)
      BY <3>1 DEF Tied
    <3>3. QED
      BY <2>1, <3>1, <3>2 DEF Answered
  <2>4. QED
    BY <2>2, <2>3
<1>5. QED
  BY <1>2, <1>4 DEF Tied

\* Whatever a command does, or happens to the machine, the answers are of its worlds.
LEMMA StepKeepsTied ==
    ASSUME IInv, Typed, Undisturbed, Mixes, Tied, [Next]_veilVars
    PROVE  Tied'
<1>0. /\ World.m = m /\ World.fs = fs
      /\ cmd = [name |-> cmd.name, at |-> cmd.at, reading |-> cmd.reading, late |-> cmd.late]
      /\ cmd.name # None => World \in during
  BY DEF World, Undisturbed
<1>1. ASSUME UNCHANGED <<m, fs, seen, during>>, UNCHANGED <<cmd.name, cmd.at, cmd.late>>,
             cmd'.reading => cmd.name # None /\ Asked = "torrc"
      PROVE  Tied'
  BY <1>1 DEF Tied, Answered, FewFiles, FilesStay, Asked
<1>2. ASSUME NEW name \in Commands \cup {None}, NEW at \in {0, 1}, at = 0 => name = None,
             cmd' = [name |-> name, at |-> at, reading |-> FALSE, late |-> {}],
             seen' = <<>>, during' \subseteq {World}
      PROVE  Tied'
  <2>1. /\ cmd'.name = name /\ cmd'.at = at /\ cmd'.at \in Nat /\ cmd'.reading = FALSE
        /\ DOMAIN seen' = {}
    BY <1>2
  <2>2. name # None => \A i \in DOMAIN Order[name] : ~(i < at)
    <3>1. Order["plan"] \in Seq(Looked) /\ Order["capabilities"] \in Seq(Reported)
      BY PlanIsSequence, ReportAsks
    <3>2. \A i \in DOMAIN Order["plan"] \cup DOMAIN Order["capabilities"] : ~(i < 1)
      BY <3>1
    <3>3. name # None => at = 1 /\ name \in {"plan", "capabilities"}
      BY <1>2 DEF Commands
    <3>4. QED
      BY <3>2, <3>3
  <2>3. \A v, w : during' = {v, w} => Near(v, w) /\ NearFiles(v, w)
    <3>1. \A v, w : during' = {v, w} => v = w
      BY <1>2
    <3>2. QED
      BY <3>1 DEF Near, NearFiles
  <2>4. \A w \in during' : w.m \in Machines /\ w.fs \in [Paths -> Entries]
    BY <1>0, <1>2 DEF Typed
  <2>5. QED
    BY <1>2, <2>1, <2>2, <2>3, <2>4 DEF Tied
<1>3. ASSUME NEW c \in Commands, Start(c) PROVE Tied'
  <2>1. cmd' = [name |-> c, at |-> 1, reading |-> FALSE, late |-> {}]
    BY <1>3 DEF Start, Idle
  <2>2. seen' = <<>> /\ during' \subseteq {World}
    BY <1>3 DEF Start
  <2>3. c \in Commands \cup {None} /\ 1 \in {0, 1} /\ 1 # 0
    OBVIOUS
  <2>4. QED
    BY <1>2, <2>1, <2>2, <2>3, Zenon
<1>4. CASE PutAway
  <2>1. cmd' = [name |-> None, at |-> 0, reading |-> FALSE, late |-> {}]
    BY <1>4 DEF PutAway, Idle
  <2>2. seen' = <<>> /\ during' \subseteq {World}
    BY <1>4 DEF PutAway
  <2>3. None \in Commands \cup {None} /\ 0 \in {0, 1}
    OBVIOUS
  <2>4. QED
    BY <1>2, <2>1, <2>2, <2>3, Zenon
<1>5. CASE Ask
  <2>1. /\ cmd.name # None /\ Asked # "torrc" /\ Answer(Reply(World, Asked))
        /\ cmd' = [cmd EXCEPT !.at = @ + 1] /\ UNCHANGED <<fs, during>>
    BY <1>5 DEF Ask, Running, readVars
  <2>2. cmd'.name = cmd.name /\ cmd'.at = cmd.at + 1 /\ cmd'.reading = cmd.reading
        /\ cmd'.late = cmd.late
    BY <1>0, <2>1
  <2>3. ~cmd.reading /\ World \in during
    BY <1>0, <2>1 DEF Tied
  <2>4. QED
    BY <2>1, <2>2, <2>3, AnswerKeepsTied
<1>6. CASE TimeOut
  <2>1. /\ cmd.name # None /\ Asked \in Commanded /\ Answer(NoReply(Asked))
        /\ cmd' = [cmd EXCEPT !.at = @ + 1, !.late = @ \cup {Asked}] /\ UNCHANGED <<fs, during>>
    BY <1>6 DEF TimeOut, Running, readVars
  <2>2. cmd'.name = cmd.name /\ cmd'.at = cmd.at + 1 /\ cmd'.reading = cmd.reading
        /\ cmd'.late = cmd.late \cup {Asked}
    BY <1>0, <2>1
  <2>3. ~cmd.reading
    BY <2>1 DEF Tied, Commanded
  <2>4. QED
    BY <2>1, <2>2, <2>3, AnswerKeepsTied
<1>7. CASE BeginRead
  <2>1. /\ cmd' = [cmd EXCEPT !.reading = TRUE] /\ UNCHANGED <<m, fs, seen, during>>
        /\ cmd.name # None /\ Asked = "torrc"
    BY <1>7 DEF BeginRead, Begin, Running
  <2>2. UNCHANGED <<cmd.name, cmd.at, cmd.late>>
    BY <1>0, <2>1
  <2>3. QED
    BY <1>1, <2>1, <2>2
<1>8. CASE ReadOn
  <2>1. UNCHANGED <<m, fs, cmd, seen, during>>
    BY <1>8 DEF ReadOn, Read, Visit, FollowInclude, ExpandWildcard, Keep, Next1
  <2>2. QED
    BY <1>1, <2>1 DEF Tied
<1>9. CASE EndRead
  <2>1. /\ cmd.reading /\ todo = <<>> /\ UNCHANGED <<fs, during>>
        /\ Answer(MultiValue(Directives(lines), "SocksPort"))
        /\ cmd' = [cmd EXCEPT !.reading = FALSE, !.at = @ + 1]
    BY <1>9 DEF EndRead, readVars
  <2>2. cmd'.name = cmd.name /\ cmd'.at = cmd.at + 1 /\ cmd'.reading = FALSE
        /\ cmd'.late = cmd.late
    BY <1>0, <2>1
  <2>3. cmd.name # None /\ Asked = "torrc" /\ World \in during
    BY <1>0, <2>1 DEF Tied
  <2>4. FewFiles => \E w \in during : MultiValue(Directives(lines), "SocksPort") = Reply(w, Asked)
    BY <2>1, <2>3, FindsOneMoment
  <2>5. QED
    BY <2>1, <2>2, <2>3, <2>4, AnswerKeepsTied
<1>10. CASE Others
  <2>1. /\ cmd.name # None /\ UNCHANGED <<cmd, todo, lines, seen>>
        /\ World' # World /\ during' = during \cup {World'} /\ World \in during
    BY <1>0, <1>10, OthersDisturb
  <2>2. /\ Near(World, World') /\ NearFiles(World, World')
        /\ Typed' /\ World'.m = m' /\ World'.fs = fs'
    BY <1>10, OthersAreNear, OthersChangeOneFile, OthersKeepTyped DEF World
  <2>3. \A v, w : during' = {v, w} => Near(v, w) /\ NearFiles(v, w)
    BY <2>1, <2>2, NearIsSymmetric
  <2>4. FewFiles' => FewFiles
    <3>1. FilesStay' => fs' = fs
      BY <1>0, <2>1 DEF FilesStay
    <3>2. FilesStay' => FilesStay
      BY <2>1, <3>1 DEF FilesStay
    <3>3. QED
      BY <2>1, <3>2 DEF FewFiles
  <2>5. \A p \in DOMAIN seen : Answered(p) => Answered(p)'
    BY <2>1, <2>4 DEF Answered
  <2>6. \A w \in during' : w.m \in Machines /\ w.fs \in [Paths -> Entries]
    BY <2>1, <2>2 DEF Tied, Typed
  <2>7. QED
    BY <2>1, <2>3, <2>5, <2>6 DEF Tied, Asked
<1>11. CASE UNCHANGED veilVars
  BY <1>1, <1>11 DEF veilVars, Tied
<1>12. QED
  BY <1>3, <1>4, <1>5, <1>6, <1>7, <1>8, <1>9, <1>10, <1>11 DEF Next, Step

----------------------------------------------------------------------------
(* Answers of two worlds                                                   *)

\* Two moments of a command with one change between them and the same files.
Pair(v, w) ==
    v.m \in Machines /\ w.m \in Machines /\ Near(v, w) /\ v.fs = w.fs

OfEither(s, p, v, w) == s[p] = Reply(v, p) \/ s[p] = Reply(w, p)

\* Where one thing differs, answers of both are those of one of them.
LEMMA OneDiffers ==
    ASSUME NEW Q, NEW a, NEW b, NEW good,
           \E t : \A q \in Q \ {t} : q \in a <=> q \in b,
           \A q \in Q : (q \in good <=> q \in a) \/ (q \in good <=> q \in b)
    PROVE  \/ \A q \in Q : q \in good <=> q \in a
           \/ \A q \in Q : q \in good <=> q \in b
OBVIOUS

\* Apart from the two names of Tor, one thing differs at the most.
LEMMA NearDiffers ==
    ASSUME NEW v, NEW w, Near(v, w), NEW Q, "tor" \notin Q, "torPackage" \notin Q
    PROVE  \E t : \A q \in Q \ {t} : q \in v.m.has <=> q \in w.m.has
<1>1. ASSUME NEW a, NEW b, OneThing(a, b) PROVE \E t : \A q \in Q \ {t} : q \in a <=> q \in b
  <2>1. PICK t : a \subseteq b /\ b \ a \subseteq {"tor", "torPackage", t}
    BY <1>1 DEF OneThing
  <2>2. \A q \in Q \ {t} : q \in a <=> q \in b
    BY <2>1
  <2>3. QED
    BY <2>2
<1>2. CASE v.m.has = w.m.has
  BY <1>2
<1>3. CASE OneThing(v.m.has, w.m.has)
  BY <1>1, <1>3
<1>4. CASE OneThing(w.m.has, v.m.has)
  <2>1. PICK t : \A q \in Q \ {t} : q \in w.m.has <=> q \in v.m.has
    BY <1>1, <1>4
  <2>2. QED
    BY <2>1
<1>5. QED
  BY <1>2, <1>3, <1>4 DEF Near

\* systemd stays, and one of the two worlds has no more than the other.
LEMMA NearTor ==
    ASSUME NEW v, NEW w, Near(v, w)
    PROVE  /\ "systemd" \in v.m.has <=> "systemd" \in w.m.has
           /\ v.m.has \subseteq w.m.has \/ w.m.has \subseteq v.m.has
BY DEF Near, OneThing

\* What the replies say of the things there are.
Access(x) == {"kvm", "kvmAccess"} \subseteq x.m.has /\ "kvmUnreadable" \notin x.m.has

\* The probes that find what the machine has.
LEMMA RepliesOfThings ==
    ASSUME NEW x
    PROVE  /\ \A e \in Yes \ {"unitActive", "listener"} : Reply(x, e) = (e \in x.m.has)
           /\ \A e \in {"torPackage2", "kvm2", "kvmModule2", "qemu2", "libvirt2"} :
                 Reply(x, e) = (Once[e] \in x.m.has)
           /\ \A e \in {"kvmAccess", "kvmAccess2"} : Reply(x, e) = TRUE => Access(x)
<1>1. ASSUME NEW e \in Yes \ {"unitActive", "listener"} PROVE Reply(x, e) = (e \in x.m.has)
  <2>1. Reply(x, e) = Has(x.m, e)
    BY <1>1 DEF Yes, Reply, Once
  <2>2. QED
    BY <1>1, <2>1 DEF Yes, Has
<1>2. ASSUME NEW e \in {"torPackage2", "kvm2", "kvmModule2", "qemu2", "libvirt2"}
      PROVE  Reply(x, e) = (Once[e] \in x.m.has)
  <2>1. Reply(x, e) = Has(x.m, Once[e]) /\ Once[e] # "kvmAccess"
    BY <1>2 DEF Reply, Once
  <2>2. QED
    BY <2>1 DEF Has
<1>3. ASSUME NEW e \in {"kvmAccess", "kvmAccess2"}, Reply(x, e) = TRUE PROVE Access(x)
  <2>1. Reply(x, e) = Has(x.m, "kvmAccess")
    BY <1>3 DEF Reply, Once
  <2>2. QED
    BY <1>3, <2>1, UnknownAssumption DEF Has, Access
<1>4. QED
  BY <1>1, <1>2, <1>3

\* A daemon that runs for the unit, a port that is taken and a torrc that does
\* not disable it are a usable Tor.
LEMMA UsableThere ==
    ASSUME NEW x, x.m \in Machines, Unit(x.m), x.m.daemon # "stopped",
           x.m.daemon = "serving" \/ x.m.foreign, Reply(x, "torrc") # FALSE
    PROVE  TorUsable(At(x)) = TRUE
<1>1. Reply(x, "unit") = TRUE /\ Reply(x, "unitActive") /\ Reply(x, "listener")
  BY DEF Reply, Unit
<1>2. Reply(x, "torPackage")
  BY RepliesOfThings DEF Unit, Yes
<1>3. /\ At(x)["unit"] = TRUE /\ At(x)["unitActive"] /\ At(x)["torrc"] # FALSE
      /\ At(x)["listener"] /\ At(x)["torPackage"]
  BY <1>1, <1>2, Replies DEF Looked
<1>4. QED
  BY <1>3 DEF TorUsable, TorInstalled

\* Tor is called usable only if it was.
LEMMA TorWasUsable ==
    ASSUME NEW v, NEW w, Pair(v, w), NEW s, TorUsable(s) = TRUE,
           \A e \in {"unit", "unitActive", "torrc", "listener"} :
              OfEither(s, e, v, w) \/ s[e] = NoReply(e)
    PROVE  \E x \in {v, w} : TorUsable(At(x)) = TRUE
<1>1. s["unit"] = TRUE /\ s["unitActive"] /\ s["torrc"] # FALSE /\ s["listener"]
  BY UnknownAssumption DEF TorUsable
<1>2. \A e \in {"unitActive", "torrc", "listener"} : NoReply(e) = FALSE
  BY DEF NoReply
<1>3. PICK y \in {v, w} : Reply(y, "unitActive")
  BY <1>1, <1>2 DEF OfEither
<1>4. PICK u \in {v, w} : Reply(u, "listener")
  BY <1>1, <1>2 DEF OfEither
<1>5. PICK z \in {v, w} : Reply(z, "torrc") # FALSE
  BY <1>1, <1>2 DEF OfEither
<1>6. \A x \in {v, w} : Reply(x, "torrc") # FALSE
  BY <1>5 DEF Pair, Reply
<1>7. Unit(y.m) /\ y.m.daemon # "stopped"
  BY <1>3 DEF Reply
<1>8. u.m.daemon = "serving" \/ u.m.foreign
  BY <1>4 DEF Reply
<1>9. \E x \in {v, w} : /\ Unit(x.m) /\ x.m.daemon # "stopped"
                        /\ x.m.daemon = "serving" \/ x.m.foreign
  BY <1>7, <1>8 DEF Pair, Near, Unit
<1>10. QED
  BY <1>6, <1>9, UsableThere DEF Pair

\* What is not usable there: no Tor, a unit that is missing or not active, or a
\* torrc that disables the port.
LEMMA NotUsableThere ==
    ASSUME NEW x, x.m \in Machines,
           \/ ~("tor" \in x.m.has \/ "torPackage" \in x.m.has)
           \/ /\ "systemd" \in x.m.has
              /\ ~Unit(x.m) \/ ~Reply(x, "unitActive") \/ Reply(x, "torrc") = FALSE
    PROVE  TorUsable(At(x)) = FALSE
<1>1. /\ At(x)["tor"] = ("tor" \in x.m.has) /\ At(x)["torPackage"] = ("torPackage" \in x.m.has)
      /\ At(x)["unit"] = Reply(x, "unit") /\ At(x)["unitActive"] = Reply(x, "unitActive")
      /\ At(x)["torrc"] = Reply(x, "torrc")
  <2>1. \A e \in {"tor", "torPackage", "unit", "unitActive", "torrc"} : At(x)[e] = Reply(x, e)
    BY Replies DEF Looked
  <2>2. \A e \in {"tor", "torPackage"} : Reply(x, e) = (e \in x.m.has)
    BY RepliesOfThings DEF Yes
  <2>3. QED
    BY <2>1, <2>2
<1>2. "systemd" \in x.m.has => Reply(x, "unit") = Unit(x.m)
  BY DEF Reply
<1>3. Unit(x.m) \in BOOLEAN
  BY DEF Unit
<1>4. QED
  BY <1>1, <1>2, <1>3 DEF TorUsable, TorInstalled

\* And not usable only if it was not.
LEMMA TorWasNotUsable ==
    ASSUME NEW v, NEW w, Pair(v, w), NEW s, TorUsable(s) = FALSE,
           \A e \in {"tor", "torPackage", "unit", "unitActive", "torrc"} : OfEither(s, e, v, w)
    PROVE  \E x \in {v, w} : TorUsable(At(x)) = FALSE
<1>1. \A x \in {v, w} : x.m \in Machines
  BY DEF Pair
<1>2. CASE ~TorInstalled(s)
  <2>1. ~s["tor"] /\ ~s["torPackage"]
    BY <1>2 DEF TorInstalled
  <2>2. \A x : Reply(x, "tor") = ("tor" \in x.m.has) /\ Reply(x, "torPackage") = ("torPackage" \in x.m.has)
    BY RepliesOfThings DEF Yes
  <2>3. (\E x \in {v, w} : "tor" \notin x.m.has) /\ (\E x \in {v, w} : "torPackage" \notin x.m.has)
    BY <2>1, <2>2 DEF OfEither
  <2>4. \E x \in {v, w} : "tor" \notin x.m.has /\ "torPackage" \notin x.m.has
    BY <2>3, NearTor DEF Pair
  <2>5. QED
    BY <1>1, <2>4, NotUsableThere
<1>3. CASE TorInstalled(s) /\ s["unit"] # TRUE
  <2>1. s["unit"] = FALSE
    BY <1>3 DEF TorUsable
  <2>2. PICK x \in {v, w} : Reply(x, "unit") = FALSE
    BY <2>1 DEF OfEither
  <2>3. "systemd" \in x.m.has /\ ~Unit(x.m)
    BY <2>2, UnknownAssumption DEF Reply
  <2>4. QED
    BY <1>1, <2>3, NotUsableThere
<1>4. CASE TorInstalled(s) /\ s["unit"] = TRUE
  <2>1. PICK y \in {v, w} : Reply(y, "unit") = TRUE
    BY <1>4 DEF OfEither
  <2>2. "systemd" \in y.m.has
    BY <2>1, UnknownAssumption DEF Reply
  <2>3. \A x \in {v, w} : "systemd" \in x.m.has
    BY <2>2, NearTor DEF Pair
  <2>4. ~s["unitActive"] \/ s["torrc"] = FALSE
    BY <1>4, UnknownAssumption DEF TorUsable
  <2>5. \E x \in {v, w} : ~Reply(x, "unitActive") \/ Reply(x, "torrc") = FALSE
    BY <2>4 DEF OfEither
  <2>6. QED
    BY <1>1, <2>3, <2>5, NotUsableThere
<1>5. QED
  BY <1>2, <1>3, <1>4

\* An accelerated machine with some of the programs and images and without
\* others: if the one or the other world shows each of that, one shows it all.
Programs == {"qemu", "libvirt", "gateway", "workstation"}

Between(v, w, there, missing) ==
    /\ there \subseteq Programs /\ missing \subseteq Programs /\ there \cap missing = {}
    /\ \A e \in there : e \in v.m.has \/ e \in w.m.has
    /\ \A e \in missing : e \notin v.m.has \/ e \notin w.m.has
    /\ "kvmModule" \in v.m.has \/ "kvmModule" \in w.m.has
    /\ Access(v) \/ Access(w)

Shows(x, there, missing) ==
    Accelerated(x.m) /\ there \subseteq x.m.has /\ \A e \in missing : e \notin x.m.has

\* As the two differ in one thing, what is shown between them one of them shows.
LEMMA AcceleratedWith ==
    ASSUME NEW v, NEW w, Pair(v, w), NEW there, NEW missing, Between(v, w, there, missing)
    PROVE  \E x \in {v, w} : Shows(x, there, missing)
<1>0. /\ there \subseteq Programs /\ missing \subseteq Programs /\ there \cap missing = {}
      /\ \A e \in there : e \in v.m.has \/ e \in w.m.has
      /\ \A e \in missing : e \notin v.m.has \/ e \notin w.m.has
      /\ "kvmModule" \in v.m.has \/ "kvmModule" \in w.m.has
      /\ Access(v) \/ Access(w)
  BY DEF Between
<1> DEFINE good == there \cup {"kvm", "kvmModule", "kvmAccess"}
           Q == good \cup missing \cup {"kvmUnreadable"}
<1>1. \E t : \A q \in Q \ {t} : q \in v.m.has <=> q \in w.m.has
  <2>1. "tor" \notin Q /\ "torPackage" \notin Q
    BY <1>0 DEF Programs
  <2> HIDE DEF Q
  <2>2. QED
    BY <2>1, NearDiffers DEF Pair
<1>2. \A q \in Q : (q \in good <=> q \in v.m.has) \/ (q \in good <=> q \in w.m.has)
  <2>1. \A q \in good : q \in v.m.has \/ q \in w.m.has
    BY <1>0 DEF Access
  <2>2. \A q \in Q \ good : q \notin v.m.has \/ q \notin w.m.has
    BY <1>0 DEF Access
  <2>3. QED
    BY <2>1, <2>2
<1>3. \/ \A q \in Q : q \in good <=> q \in v.m.has
      \/ \A q \in Q : q \in good <=> q \in w.m.has
  <2> HIDE DEF Q, good
  <2>1. QED
    BY <1>1, <1>2, OneDiffers
<1>4. \A x : (\A q \in Q : q \in good <=> q \in x.m.has) => Shows(x, there, missing)
  <2>1. \A e \in missing : e \in Q /\ e \notin good
    BY <1>0 DEF Programs
  <2>2. "kvmUnreadable" \in Q /\ "kvmUnreadable" \notin good
    BY <1>0 DEF Programs
  <2>3. good \subseteq Q /\ there \subseteq good /\ {"kvm", "kvmModule", "kvmAccess"} \subseteq good
    OBVIOUS
  <2> HIDE DEF Q, good
  <2>4. QED
    BY <2>1, <2>2, <2>3 DEF Accelerated, Shows
<1>5. QED
  BY <1>3, <1>4

\* Asked once or again, a backend is ready only where it all is there.
LEMMA ReadyReplies ==
    ASSUME NEW s
    PROVE  /\ VmReadiness(s) \notin VM_BLOCKED => s["kvmModule"] /\ s["kvmAccess"] \notin {FALSE, Unknown}
           /\ VmReadiness(s) = "ready" <=> VmReadiness(s) \notin VM_BLOCKED /\ s["qemu"] /\ s["libvirt"]
           /\ VmReadiness(s) \in VM_BLOCKED \cup {"needs_qemu", "needs_libvirt", "ready"}
BY DEF VmReadiness, VM_BLOCKED

\* A machine whose backend is ready answers so.
LEMMA ReadyThere ==
    ASSUME NEW x, x.m \in Machines
    PROVE  /\ VmReadiness(Again(At(x))) = VmReadiness(At(x))
           /\ VmReadiness(At(x)) = "ready" =>
                 /\ \A e \in {"kvm", "kvmModule", "qemu", "libvirt", "kvm2", "kvmModule2", "qemu2",
                              "libvirt2"} : Reply(x, e) = TRUE
                 /\ \A e \in {"kvmAccess", "kvmAccess2"} : Reply(x, e) = TRUE
<1>1. VmReadiness(Again(At(x))) = VmReadiness(At(x))
  BY RepliesAreOfOneMoment DEF VmReadiness, Again, OneMoment
<1>2. ASSUME VmReadiness(At(x)) = "ready"
      PROVE  /\ \A e \in {"kvm", "kvmModule", "qemu", "libvirt", "kvm2", "kvmModule2", "qemu2",
                          "libvirt2"} : Reply(x, e) = TRUE
             /\ \A e \in {"kvmAccess", "kvmAccess2"} : Reply(x, e) = TRUE
  <2>1. Accelerated(x.m) /\ {"qemu", "libvirt"} \subseteq x.m.has
    BY <1>2, Backend
  <2>2. \A e \in {"kvm", "kvmModule", "qemu", "libvirt"} : Reply(x, e) = TRUE
    BY <2>1, RepliesOfThings DEF Accelerated, Yes
  <2>3. \A e \in {"kvm2", "kvmModule2", "qemu2", "libvirt2"} : Reply(x, e) = TRUE
    BY <2>1, RepliesOfThings DEF Accelerated, Once
  <2>4. \A e \in {"kvmAccess", "kvmAccess2"} : Reply(x, e) = Has(x.m, "kvmAccess")
    BY DEF Reply, Once
  <2>5. Has(x.m, "kvmAccess") = TRUE
    BY <2>1 DEF Has, Accelerated
  <2>6. QED
    BY <2>2, <2>3, <2>4, <2>5
<1>3. QED
  BY <1>1, <1>2

\* A backend, asked again, is found ready or not as it was in one of two worlds.
LEMMA BackendHadAMoment ==
    ASSUME NEW v, NEW w, Pair(v, w), NEW s, \A e \in LookedAgain : OfEither(s, e, v, w)
    PROVE  \E x \in {v, w} : VmReadiness(Again(At(x))) = "ready" <=> VmReadiness(Again(s)) = "ready"
<1>1. \A x \in {v, w} : x.m \in Machines
  BY DEF Pair
<1>2. /\ Again(s)["kvm"] = s["kvm2"] /\ Again(s)["kvmModule"] = s["kvmModule2"]
      /\ Again(s)["kvmAccess"] = s["kvmAccess2"]
      /\ Again(s)["qemu"] = s["qemu2"] /\ Again(s)["libvirt"] = s["libvirt2"]
  BY DEF Again
<1>3. \A e \in LookedAgain : s[e] = Reply(v, e) \/ s[e] = Reply(w, e)
  BY DEF OfEither
<1>4. CASE VmReadiness(Again(s)) = "ready"
  <2>1. s["kvmModule2"] /\ s["kvmAccess2"] \notin {FALSE, Unknown} /\ s["qemu2"] /\ s["libvirt2"]
    BY <1>2, <1>4, ReadyReplies
  <2>2. \A x : /\ Reply(x, "kvmModule2") = ("kvmModule" \in x.m.has)
               /\ Reply(x, "qemu2") = ("qemu" \in x.m.has)
               /\ Reply(x, "libvirt2") = ("libvirt" \in x.m.has)
               /\ Reply(x, "kvmAccess2") \notin {FALSE, Unknown} => Access(x)
    <3>1. \A x : Reply(x, "kvmAccess2") \notin {FALSE, Unknown} => Access(x)
      BY DEF Reply, Has, Once, Access
    <3>2. QED
      BY <3>1, RepliesOfThings DEF Once
  <2>3. /\ \A e \in {"qemu", "libvirt"} : e \in v.m.has \/ e \in w.m.has
        /\ "kvmModule" \in v.m.has \/ "kvmModule" \in w.m.has
        /\ Access(v) \/ Access(w)
    BY <1>3, <2>1, <2>2 DEF LookedAgain
  <2>4. \E x \in {v, w} : Accelerated(x.m) /\ {"qemu", "libvirt"} \subseteq x.m.has
    <3>1. Between(v, w, {"qemu", "libvirt"}, {})
      BY <2>3 DEF Between, Programs
    <3>2. QED
      BY <3>1, AcceleratedWith DEF Shows
  <2>5. QED
    BY <1>1, <1>4, <2>4, Backend, ReadyThere
<1>5. CASE VmReadiness(Again(s)) # "ready"
  <2>1. SUFFICES ASSUME \A x \in {v, w} : VmReadiness(At(x)) = "ready" PROVE FALSE
    BY <1>1, <1>5, ReadyThere
  <2>2. \A e \in LookedAgain : s[e] = TRUE
    BY <1>1, <1>3, <2>1, ReadyThere DEF LookedAgain
  <2>3. VmReadiness(Again(s)) = "ready"
    BY <1>2, <2>2, UnknownAssumption DEF VmReadiness, LookedAgain
  <2>4. QED
    BY <1>5, <2>3
<1>6. QED
  BY <1>4, <1>5

\* Whonix is found unusable only if it was.
LEMMA WhonixHadAMoment ==
    ASSUME NEW v, NEW w, Pair(v, w), NEW s, WhonixUsable(s) = FALSE,
           \A e \in {"kvm", "kvmModule", "qemu", "libvirt", "kvmAccess", "gateway", "workstation"} :
              OfEither(s, e, v, w)
    PROVE  \E x \in {v, w} : WhonixUsable(At(x)) = FALSE
<1>1. \A x \in {v, w} : x.m \in Machines
  BY DEF Pair
<1>2. SUFFICES ASSUME \A x \in {v, w} : VmReadiness(At(x)) = "ready" /\ BothImages(At(x)) PROVE FALSE
  BY DEF WhonixUsable
<1>3. \A e \in {"kvm", "kvmModule", "qemu", "libvirt", "kvmAccess"} : s[e] = TRUE
  BY <1>1, <1>2, ReadyThere DEF OfEither
<1>4. \A x \in {v, w}, e \in {"gateway", "workstation"} : Reply(x, e)
  BY <1>2, Replies DEF BothImages, Looked
<1>5. s["gateway"] /\ s["workstation"]
  BY <1>4 DEF OfEither
<1>6. VmReadiness(s) = "ready"
  BY <1>3, UnknownAssumption DEF VmReadiness
<1>7. QED
  BY <1>5, <1>6, UnknownAssumption DEF WhonixUsable, BothImages

\* Whoever has a part of what the private focus goes by is not blocked there.
PrivateParts(s) == TorInstalled(s) \/ s.launcher \/ BothImages(s)

\* The private focus is limited with such a part and blocked without one.
LEMMA PrivateFocusParts ==
    ASSUME NEW s
    PROVE  F!Readiness("private", PrivateFacts(s)) = IF PrivateParts(s) THEN "limited" ELSE "blocked"
<1> DEFINE caps == VeilCapabilities(s)
           E == PrivateFacts(s)
<1>1. /\ caps["tor_client"].installed = TorInstalled(s) /\ caps["tor_client"].usable = TorUsable(s)
      /\ caps["tor_browser"].installed = s.launcher /\ caps["tor_browser"].usable = Unknown
      /\ caps["private_workspace"].installed = FALSE
      /\ caps["private_workspace"].usable = WorkspaceUsable(s)
      /\ caps["whonix_vm"].installed = BothImages(s) /\ caps["whonix_vm"].usable = WhonixUsable(s)
  BY DEF VeilCapabilities, Usable
<1>2. Unknown # TRUE /\ WorkspaceUsable(s) # TRUE /\ WhonixUsable(s) # TRUE
  BY UnknownAssumption DEF WorkspaceUsable, WhonixUsable
<1>3. TorUsable(s) = TRUE => TorInstalled(s)
  BY DEF TorUsable
<1>4. /\ "boundaryUsable" \notin E
      /\ "torInstalled" \in E <=> TorInstalled(s)
      /\ "torUsable" \in E => TorInstalled(s)
      /\ "boundaryInstalled" \in E <=> s.launcher \/ BothImages(s)
  BY <1>1, <1>2, <1>3 DEF PrivateFacts
<1> HIDE DEF E
<1>5. "boundaryUsable" \notin E
      /\ ({"torUsable", "torInstalled", "boundaryInstalled"} \cap E # {} <=> PrivateParts(s))
  BY <1>4 DEF PrivateParts
<1>6. F!Readiness("private", E) = IF PrivateParts(s) THEN "limited" ELSE "blocked"
  BY <1>5 DEF F!Readiness, F!PrivateReadiness
<1>7. QED
  BY <1>6 DEF E

\* And is not found there without it.
LEMMA FocusHadAMoment ==
    ASSUME NEW v, NEW w, Pair(v, w), NEW s, \A e \in Reported : OfEither(s, e, v, w)
    PROVE  \E x \in {v, w} : F!Rank[F!Readiness("private", PrivateFacts(s))]
                               <= F!Rank[F!Readiness("private", PrivateFacts(At(x)))]
<1>1. F!Rank["limited"] = 1 /\ F!Rank["blocked"] = 0
  BY DEF F!Rank
<1>2. SUFFICES ASSUME PrivateParts(s) PROVE \E x \in {v, w} : PrivateParts(At(x))
  BY <1>1, PrivateFocusParts
<1> DEFINE P == {"tor", "torPackage", "launcher", "gateway", "workstation"}
<1>4. \A x : \A e \in P : Reply(x, e) = (e \in x.m.has) /\ At(x)[e] = (e \in x.m.has)
  <2> SUFFICES ASSUME NEW x, NEW e \in P
               PROVE  Reply(x, e) = (e \in x.m.has) /\ At(x)[e] = (e \in x.m.has)
    OBVIOUS
  <2>1. e \in Yes \ {"unitActive", "listener"} /\ e \in Looked
    BY DEF Yes, Looked
  <2>2. Reply(x, e) = (e \in x.m.has)
    BY <2>1, RepliesOfThings
  <2>3. At(x)[e] = Reply(x, e)
    BY <2>1, Replies
  <2>4. QED
    BY <2>2, <2>3, Zenon
<1>5. \A e \in P : s[e] => e \in v.m.has \/ e \in w.m.has
  <2> SUFFICES ASSUME NEW e \in P, s[e] PROVE e \in v.m.has \/ e \in w.m.has
    OBVIOUS
  <2>1. s[e] = Reply(v, e) \/ s[e] = Reply(w, e)
    BY DEF OfEither, Reported, Looked
  <2>2. Reply(v, e) = (e \in v.m.has) /\ Reply(w, e) = (e \in w.m.has)
    BY <1>4
  <2>3. QED
    BY <2>1, <2>2, Zenon
<1>6. CASE s["tor"] \/ s["torPackage"] \/ s["launcher"]
  <2>1. PICK e \in {"tor", "torPackage", "launcher"} : s[e]
    BY <1>6
  <2>2. PICK x \in {v, w} : e \in x.m.has
    BY <1>5, <2>1
  <2>3. At(x)[e]
    BY <1>4, <2>1, <2>2
  <2>4. At(x)["tor"] \/ At(x)["torPackage"] \/ At(x)["launcher"]
    BY <2>1, <2>3
  <2>5. QED
    BY <2>4 DEF PrivateParts, TorInstalled
<1>7. CASE s["gateway"] /\ s["workstation"]
  <2>1. v.m.has \subseteq w.m.has \/ w.m.has \subseteq v.m.has
    BY NearTor DEF Pair
  <2>2. /\ "gateway" \in v.m.has \/ "gateway" \in w.m.has
        /\ "workstation" \in v.m.has \/ "workstation" \in w.m.has
    BY <1>5, <1>7
  <2>3. PICK x \in {v, w} : "gateway" \in x.m.has /\ "workstation" \in x.m.has
    BY <2>1, <2>2
  <2>4. At(x)["gateway"] /\ At(x)["workstation"]
    BY <1>4, <2>3
  <2>5. QED
    BY <2>4 DEF PrivateParts, BothImages
<1>8. QED
  BY <1>2, <1>6, <1>7 DEF PrivateParts, TorInstalled, BothImages

\* It is TRUE, FALSE or not known.
LEMMA TorIsTold ==
    ASSUME NEW v, NEW w, NEW s, TorUsable(s) # Unknown, OfEither(s, "unit", v, w)
    PROVE  TorUsable(s) \in BOOLEAN
<1>1. s["unit"] \in BOOLEAN \cup {Unknown}
  BY DEF OfEither, Reply, Unit
<1>2. QED
  BY <1>1 DEF TorUsable

\* Each definite verdict of the report was that of one of two worlds.
LEMMA ReportHadAMoment ==
    ASSUME NEW v, NEW w, Pair(v, w), NEW s, \A e \in Reported : OfEither(s, e, v, w),
           NEW c \in DOMAIN VeilCapabilities(s), VeilCapabilities(s)[c].usable # Unknown
    PROVE  \E x \in {v, w} : VeilCapabilities(At(x))[c].usable = VeilCapabilities(s)[c].usable
<1> DEFINE usable(r) == VeilCapabilities(r)[c].usable
<1>1. CASE c = "tor_client"
  <2>1. \A r : usable(r) = TorUsable(r)
    BY <1>1 DEF VeilCapabilities, Usable
  <2>2. TorUsable(s) \in BOOLEAN
    BY <2>1, TorIsTold DEF Reported, Looked
  <2>3. CASE TorUsable(s) = TRUE
    <3>1. \E x \in {v, w} : TorUsable(At(x)) = TRUE
      BY <2>3, TorWasUsable DEF Reported, Looked
    <3>2. QED
      BY <2>1, <2>3, <3>1
  <2>4. CASE TorUsable(s) = FALSE
    <3>1. \E x \in {v, w} : TorUsable(At(x)) = FALSE
      BY <2>4, TorWasNotUsable DEF Reported, Looked
    <3>2. QED
      BY <2>1, <2>4, <3>1
  <2>5. QED
    BY <2>2, <2>3, <2>4
<1>2. CASE c = "private_workspace"
  <2>1. \A r : usable(r) = WorkspaceUsable(r)
    BY <1>2 DEF VeilCapabilities, Usable
  <2>2. TorUsable(s) = FALSE /\ usable(s) = FALSE
    BY <2>1 DEF WorkspaceUsable
  <2>3. \E x \in {v, w} : TorUsable(At(x)) = FALSE
    BY <2>2, TorWasNotUsable DEF Reported, Looked
  <2>4. QED
    BY <2>1, <2>2, <2>3 DEF WorkspaceUsable
<1>3. CASE c = "whonix_vm"
  <2>1. \A r : usable(r) = WhonixUsable(r)
    BY <1>3 DEF VeilCapabilities, Usable
  <2>2. WhonixUsable(s) = FALSE
    BY <2>1 DEF WhonixUsable
  <2>3. \E x \in {v, w} : WhonixUsable(At(x)) = FALSE
    BY <2>2, WhonixHadAMoment DEF Reported, Looked
  <2>4. QED
    BY <2>1, <2>2, <2>3
<1>4. CASE c = "vm_privacy_boundary"
  <2>1. \A r : usable(r) = (VmReadiness(Again(r)) = "ready")
    BY <1>4 DEF VeilCapabilities, Usable
  <2>2. \E x \in {v, w} : VmReadiness(Again(At(x))) = "ready" <=> VmReadiness(Again(s)) = "ready"
    BY BackendHadAMoment DEF Reported
  <2>3. QED
    BY <2>1, <2>2
<1>5. CASE c \in {"tor_socks", "tor_browser", "private_browser_profile", "dns_isolation",
                  "tor_only_routing", "kill_switch"}
  <2>1. usable(s) = Unknown
    BY <1>5 DEF VeilCapabilities, Usable
  <2>2. QED
    BY <2>1
<1>6. QED
  BY <1>1, <1>2, <1>3, <1>4, <1>5 DEF VeilCapabilities

\* What is installed with a package manager is proposed where it is missing.
LEMMA ToolHadAMoment ==
    ASSUME NEW v, NEW w, NEW s, NEW tool \in {"torsocks", "launcher"}, OfEither(s, tool, v, w),
           InstallTool(s, tool).status = "APPLY"
    PROVE  \E x \in {v, w} : InstallTool(At(x), tool) = InstallTool(s, tool)
<1>1. ~s[tool]
  BY DEF InstallTool, Do
<1>2. PICK x \in {v, w} : ~Reply(x, tool)
  BY <1>1 DEF OfEither
<1>3. At(x)[tool] = Reply(x, tool)
  BY Replies DEF Looked
<1>4. QED
  BY <1>1, <1>2, <1>3 DEF InstallTool

\* The Tor package is proposed where neither it nor the program is there.
LEMMA PackageHadAMoment ==
    ASSUME NEW v, NEW w, Pair(v, w), NEW s, TorPackage(s).status = "APPLY",
           OfEither(s, "tor", v, w), OfEither(s, "torPackage", v, w)
    PROVE  \E x \in {v, w} : TorPackage(At(x)) = TorPackage(s)
<1>1. ~s["tor"] /\ ~s["torPackage"] /\ TorPackage(s) = Do("APPLY", {"tor", "torPackage"})
  BY DEF TorPackage, TorInstalled, Do
<1>2. \A x : Reply(x, "tor") = ("tor" \in x.m.has) /\ Reply(x, "torPackage") = ("torPackage" \in x.m.has)
  BY RepliesOfThings DEF Yes
<1>3. (\E x \in {v, w} : "tor" \notin x.m.has) /\ (\E x \in {v, w} : "torPackage" \notin x.m.has)
  BY <1>1, <1>2 DEF OfEither
<1>4. PICK x \in {v, w} : "tor" \notin x.m.has /\ "torPackage" \notin x.m.has
  BY <1>3, NearTor DEF Pair
<1>5. At(x)["tor"] = Reply(x, "tor") /\ At(x)["torPackage"] = Reply(x, "torPackage")
  BY Replies DEF Looked
<1>6. At(x)["torPackage2"] = At(x)["torPackage"]
  BY RepliesAreOfOneMoment DEF OneMoment, Pair
<1>7. QED
  BY <1>1, <1>2, <1>4, <1>5, <1>6 DEF TorPackage, TorInstalled

\* What the first questions about a backend show.
LEMMA BackendShows ==
    ASSUME NEW v, NEW w, NEW s,
           \A e \in {"kvmModule", "kvmAccess"} \cup Programs : OfEither(s, e, v, w)
    PROVE  /\ VmReadiness(s) \notin VM_BLOCKED
                => ("kvmModule" \in v.m.has \/ "kvmModule" \in w.m.has) /\ (Access(v) \/ Access(w))
           /\ \A e \in Programs : IF s[e] THEN e \in v.m.has \/ e \in w.m.has
                                          ELSE e \notin v.m.has \/ e \notin w.m.has
<1>1. \A x : Reply(x, "kvmAccess") \notin {FALSE, Unknown} => Access(x)
  BY DEF Reply, Has, Once, Access
<1>2. \A x : \A e \in {"kvmModule"} \cup Programs : Reply(x, e) = (e \in x.m.has)
  BY RepliesOfThings DEF Yes, Programs
<1>3. VmReadiness(s) \notin VM_BLOCKED => s["kvmModule"] /\ s["kvmAccess"] \notin {FALSE, Unknown}
  BY ReadyReplies
<1>4. ASSUME NEW e \in Programs
      PROVE  IF s[e] THEN e \in v.m.has \/ e \in w.m.has ELSE e \notin v.m.has \/ e \notin w.m.has
  <2>1. s[e] = Reply(v, e) \/ s[e] = Reply(w, e)
    BY DEF OfEither
  <2>2. Reply(v, e) = (e \in v.m.has) /\ Reply(w, e) = (e \in w.m.has)
    BY <1>2
  <2>3. QED
    BY <2>1, <2>2, Zenon
<1>5. s["kvmModule"] => "kvmModule" \in v.m.has \/ "kvmModule" \in w.m.has
  BY <1>2 DEF OfEither
<1>6. s["kvmAccess"] \notin {FALSE, Unknown} => Access(v) \/ Access(w)
  BY <1>1 DEF OfEither
<1>7. QED
  BY <1>3, <1>4, <1>5, <1>6

\* The programs of a backend are proposed where the machine can run one and
\* has not both of them, an image where one is ready.
LEMMA WhonixPlanHadAMoment ==
    ASSUME NEW v, NEW w, Pair(v, w), NEW s,
           \A e \in {"kvmModule", "kvmAccess"} \cup Programs : OfEither(s, e, v, w)
    PROVE  /\ WhonixVm(s).status = "APPLY" => \E x \in {v, w} : WhonixVm(At(x)) = WhonixVm(s)
           /\ \A image \in {"gateway", "workstation"} :
                 Artifact(s, image).status = "APPLY"
                    => \E x \in {v, w} : Artifact(At(x), image) = Artifact(s, image)
<1>0. \A x \in {v, w} : x.m \in Machines
  BY DEF Pair
<1>1. /\ VmReadiness(s) \notin VM_BLOCKED
            => ("kvmModule" \in v.m.has \/ "kvmModule" \in w.m.has) /\ (Access(v) \/ Access(w))
      /\ \A e \in Programs : IF s[e] THEN e \in v.m.has \/ e \in w.m.has
                                     ELSE e \notin v.m.has \/ e \notin w.m.has
  BY BackendShows
<1>2. ASSUME WhonixVm(s).status = "APPLY" PROVE \E x \in {v, w} : WhonixVm(At(x)) = WhonixVm(s)
  <2>1. /\ VmReadiness(s) \notin VM_BLOCKED /\ VmReadiness(s) # "ready"
        /\ WhonixVm(s) = Do("APPLY", {"qemu", "libvirt"})
    BY <1>2 DEF WhonixVm, Do
  <2>2. PICK q \in {"qemu", "libvirt"} : ~s[q]
    BY <2>1, ReadyReplies
  <2>3. Between(v, w, {}, {q})
    BY <1>1, <2>1, <2>2 DEF Between, Programs
  <2>4. PICK x \in {v, w} : Shows(x, {}, {q})
    BY <2>3, AcceleratedWith
  <2>5. Accelerated(x.m) /\ q \notin x.m.has
    BY <2>4 DEF Shows
  <2>6. VmReadiness(At(x)) \notin VM_BLOCKED /\ VmReadiness(At(x)) # "ready"
    BY <1>0, <2>2, <2>5, Backend
  <2>7. WhonixVm(At(x)) = Do("APPLY", {"qemu", "libvirt"})
    BY <2>6 DEF WhonixVm
  <2>8. QED
    BY <2>1, <2>7
<1>3. ASSUME NEW image \in {"gateway", "workstation"}, Artifact(s, image).status = "APPLY"
      PROVE  \E x \in {v, w} : Artifact(At(x), image) = Artifact(s, image)
  <2>1. /\ VmReadiness(s) = "ready" /\ ~s[image] /\ Artifact(s, image) = Do("APPLY", {image})
        /\ VmReadiness(s) \notin VM_BLOCKED /\ s["qemu"] /\ s["libvirt"]
    BY <1>3, ReadyReplies DEF Artifact, InstallTool, Do
  <2>2. Between(v, w, {"qemu", "libvirt"}, {image})
    BY <1>1, <2>1 DEF Between, Programs
  <2>3. PICK x \in {v, w} : Shows(x, {"qemu", "libvirt"}, {image})
    BY <2>2, AcceleratedWith
  <2>4. VmReadiness(At(x)) = "ready" /\ image \notin x.m.has
    BY <1>0, <2>3, Backend DEF Shows
  <2>5. ~At(x)[image]
    BY <1>0, <2>4, SaysWhatItHas DEF Yes
  <2>6. Artifact(At(x), image) = Do("APPLY", {image})
    BY <2>4, <2>5 DEF Artifact, InstallTool
  <2>7. QED
    BY <2>1, <2>6
<1>4. QED
  BY <1>2, <1>3

\* Whatever the plan would have somebody do, it would have said so in one of
\* two worlds.
LEMMA PlanHadAMoment ==
    ASSUME NEW v, NEW w, Pair(v, w), NEW s, \A e \in Looked : OfEither(s, e, v, w),
           NEW id \in DOMAIN VeilPlan(s), VeilPlan(s)[id].status = "APPLY"
    PROVE  \E x \in {v, w} : VeilPlan(At(x))[id] = VeilPlan(s)[id]
<1>1. id \in Ids
  BY PlanParts
<1>2. CASE id = "tor_package"
  <2>1. \A r : VeilPlan(r)[id] = TorPackage(r)
    BY <1>2, PlanParts
  <2>2. \E x \in {v, w} : TorPackage(At(x)) = TorPackage(s)
    BY <2>1, PackageHadAMoment DEF Looked
  <2>3. QED
    BY <2>1, <2>2
<1>3. ASSUME NEW tool \in {"torsocks", "launcher"}, \A r : VeilPlan(r)[id] = InstallTool(r, tool)
      PROVE  \E x \in {v, w} : VeilPlan(At(x))[id] = VeilPlan(s)[id]
  <2>1. \E x \in {v, w} : InstallTool(At(x), tool) = InstallTool(s, tool)
    BY <1>3, ToolHadAMoment DEF Looked
  <2>2. QED
    BY <1>3, <2>1
<1>4. CASE id \in {"tor_torsocks", "browser_tor_browser"}
  BY <1>3, <1>4, PlanParts
<1>5. CASE id = "workspace_private_profile"
  <2>1. \A r : VeilPlan(r)[id] = PrivateProfile(r)
    BY <1>5, PlanParts
  <2>2. TorUsable(s) = TRUE
    <3>1. PrivateProfile(s).status = "APPLY"
      BY <2>1, Zenon
    <3>2. QED
      BY <3>1 DEF PrivateProfile, Do
  <2>3. \E x \in {v, w} : TorUsable(At(x)) = TRUE
    BY <2>2, TorWasUsable DEF Looked
  <2>4. QED
    BY <2>1, <2>2, <2>3 DEF PrivateProfile
<1>6. \A e \in {"kvmModule", "kvmAccess"} \cup Programs : OfEither(s, e, v, w)
  BY DEF Looked, Programs
<1>7. CASE id = "whonix_vm_prerequisites"
  <2>1. \A r : VeilPlan(r)[id] = WhonixVm(r)
    BY <1>7, PlanParts
  <2>2. QED
    BY <1>6, <2>1, WhonixPlanHadAMoment
<1>8. ASSUME NEW image \in {"gateway", "workstation"}, \A r : VeilPlan(r)[id] = Artifact(r, image)
      PROVE  \E x \in {v, w} : VeilPlan(At(x))[id] = VeilPlan(s)[id]
  <2>1. \E x \in {v, w} : Artifact(At(x), image) = Artifact(s, image)
    BY <1>6, <1>8, WhonixPlanHadAMoment
  <2>2. QED
    BY <1>8, <2>1
<1>9. CASE id \in {"whonix_gateway_artifact", "whonix_workstation_artifact"}
  BY <1>8, <1>9, PlanParts
<1>10. CASE id \in {"workspace_routing", "workspace_kill_switch_policy", "whonix_gateway_verification",
                    "whonix_workstation_verification", "whonix_network_topology"}
  <2>1. Do("NOOP", {}).status # "APPLY" /\ \A image : Verification(s, image).status # "APPLY"
    BY DEF Verification, Do
  <2>2. Topology(s).status # "APPLY"
    BY UnknownAssumption DEF Topology, Verified, Do
  <2>3. VeilPlan(s)[id].status # "APPLY"
    BY <1>10, <2>1, <2>2, PlanParts
  <2>4. QED
    BY <2>3
<1>11. QED
  BY <1>1, <1>2, <1>4, <1>5, <1>7, <1>9, <1>10 DEF Ids

\* At the end every probe has been answered.
LEMMA AllAnswered ==
    ASSUME Tied, Done
    PROVE  /\ cmd.name = "plan" => \A e \in Looked : Answered(e)
           /\ cmd.name = "capabilities" => \A e \in Reported : Answered(e)
           /\ cmd.name \in Commands
<1>1. cmd.name \in Commands /\ cmd.at \in Nat /\ cmd.at > Len(Order[cmd.name])
  BY DEF Tied, Done
<1>2. ASSUME Order[cmd.name] \in Seq(Looked \cup Reported), NEW e, Holds(Order[cmd.name], e)
      PROVE  Answered(e)
  <2>1. PICK i \in DOMAIN Order[cmd.name] : Order[cmd.name][i] = e
    BY <1>2 DEF Holds
  <2>2. i < cmd.at
    <3>1. i \in 1..Len(Order[cmd.name]) /\ Len(Order[cmd.name]) \in Nat
      BY <1>2, <2>1
    <3>2. QED
      BY <1>1, <3>1
  <2>3. QED
    BY <1>1, <2>1, <2>2 DEF Tied, Done
<1>3. Seq(Looked) \subseteq Seq(Looked \cup Reported) /\ Seq(Reported) \subseteq Seq(Looked \cup Reported)
  OBVIOUS
<1>4. CASE cmd.name = "plan"
  BY <1>1, <1>2, <1>3, <1>4, PlanAsks, PlanIsSequence
<1>5. CASE cmd.name = "capabilities"
  BY <1>1, <1>2, <1>3, <1>5, ReportAsks
<1>6. QED
  BY <1>1, <1>4, <1>5

\* Whatever one thing changes, the answers are those of two moments that have
\* the same files: where a file is edited, of one moment, the other probes being
\* the same before and after.
LEMMA AnswersHaveMoments ==
    ASSUME Undisturbed, Tied, Done, OneChange, \A w \in during : w.fs = fs \/ Edited(w.fs, fs)
    PROVE  \E x, y \in during :
              /\ Pair(x, y)
              /\ \A e : Answered(e) => OfEither(seen, e, x, y) \/ (e \in cmd.late /\ seen[e] = NoReply(e))
<1>1. PICK v, w \in during : during = {v, w}
  BY DEF OneChange
<1>2. /\ Near(v, w) /\ NearFiles(v, w) /\ v.m \in Machines /\ w.m \in Machines
      /\ v.fs \in [Paths -> Entries] /\ w.fs \in [Paths -> Entries]
  BY <1>1 DEF Tied
<1>3. World \in during /\ World.fs = fs
  BY DEF Undisturbed, World, Done
<1>4. CASE v.fs = w.fs
  <2>1. FilesStay
    BY <1>1, <1>3, <1>4 DEF FilesStay
  <2>2. Pair(v, w)
    BY <1>2, <1>4 DEF Pair
  <2>3. \A e : Answered(e) => OfEither(seen, e, v, w) \/ (e \in cmd.late /\ seen[e] = NoReply(e))
    BY <1>1, <2>1 DEF Answered, OfEither, FewFiles
  <2>4. QED
    BY <2>2, <2>3
<1>5. CASE v.fs # w.fs
  <2>1. PICK p \in Paths : v.m = w.m /\ \A q \in Paths \ {p} : v.fs[q] = w.fs[q]
    BY <1>2, <1>5 DEF NearFiles
  <2>2. v.fs[p] # w.fs[p]
    BY <1>2, <1>5, <2>1
  <2>3. Edited(v.fs, w.fs) \/ Edited(w.fs, v.fs)
    BY <1>1, <1>3, <1>5
  <2>4. OneEdit(v.fs, w.fs, p)
    BY <1>2, <2>1, <2>2, <2>3 DEF OneEdit, Edited
  <2>5. FewFiles
    BY <1>1, <2>4 DEF FewFiles
  <2>6. \A e : e # "torrc" => Reply(v, e) = Reply(w, e)
    BY <2>1 DEF Reply, Unit
  <2>7. PICK x \in during :
           Answered("torrc") => seen["torrc"] = Reply(x, "torrc")
                                \/ ("torrc" \in cmd.late /\ seen["torrc"] = NoReply("torrc"))
    BY <1>1, <2>5 DEF Answered
  <2>8. Pair(x, x)
    BY <1>1, <1>2 DEF Pair, Near
  <2>9. ASSUME NEW e, Answered(e)
        PROVE  OfEither(seen, e, x, x) \/ (e \in cmd.late /\ seen[e] = NoReply(e))
    <3>1. CASE e = "torrc"
      BY <2>7, <2>9, <3>1 DEF OfEither
    <3>2. CASE e # "torrc"
      BY <1>1, <2>6, <2>9, <3>2 DEF Answered, OfEither
    <3>3. QED
      BY <3>1, <3>2
  <2>10. QED
    BY <2>8, <2>9
<1>6. QED
  BY <1>4, <1>5

\* veil/planner.py:9 and tor.py's combined evidence: whatever one thing changes
\* while the command runs, a file of the torrc included, each definite verdict,
\* each action to carry out and the readiness of the private focus is that of
\* one moment of the command.
THEOREM VerdictsAreOfAMoment == Spec => []VerdictsHadAMoment
<1>1. Init => Undisturbed /\ Mixes /\ Tied
  BY DEF Init, Idle, Undisturbed, Mixes, Tied
<1>2. IInv /\ Typed /\ Undisturbed /\ Mixes /\ Tied /\ [Next]_veilVars => Undisturbed' /\ Mixes' /\ Tied'
  BY StepKeepsUndisturbed, StepKeepsMixes, StepKeepsTied
<1>3. Undisturbed /\ Tied => VerdictsHadAMoment
  <2> SUFFICES ASSUME Undisturbed, Tied, Done, OneChange,
                      \A w \in during : w.fs = fs \/ Edited(w.fs, fs)
               PROVE  VerdictsHadAMoment
    BY DEF VerdictsHadAMoment
  <2>1. PICK v, w \in during :
           /\ Pair(v, w)
           /\ \A e : Answered(e) => OfEither(seen, e, v, w) \/ (e \in cmd.late /\ seen[e] = NoReply(e))
    BY AnswersHaveMoments
  <2>2. TorUsable(seen) = TRUE => \E x \in {v, w} : TorUsable(At(x)) = TRUE
    <3>1. \A e \in {"unit", "unitActive", "torrc", "listener"} : Answered(e)
      BY AllAnswered DEF Commands, Looked, Reported
    <3>2. \A e \in {"unit", "unitActive", "torrc", "listener"} :
             OfEither(seen, e, v, w) \/ seen[e] = NoReply(e)
      BY <2>1, <3>1
    <3>3. QED
      BY <2>1, <3>2, TorWasUsable
  <2>3. ASSUME cmd.late = {}, cmd.name = "capabilities"
        PROVE  /\ \A c \in DOMAIN VeilCapabilities(seen) :
                     VeilCapabilities(seen)[c].usable # Unknown
                        => \E x \in {v, w} : VeilCapabilities(At(x))[c].usable = VeilCapabilities(seen)[c].usable
               /\ \E x \in {v, w} : F!Rank[F!Readiness("private", PrivateFacts(seen))]
                                      <= F!Rank[F!Readiness("private", PrivateFacts(At(x)))]
    <3>1. \A e \in Reported : OfEither(seen, e, v, w)
      BY <2>1, <2>3, AllAnswered
    <3>2. QED
      BY <2>1, <3>1, ReportHadAMoment, FocusHadAMoment
  <2>4. ASSUME cmd.late = {}, cmd.name = "plan"
        PROVE  \A id \in DOMAIN VeilPlan(seen) : VeilPlan(seen)[id].status = "APPLY"
                  => \E x \in {v, w} : VeilPlan(At(x))[id] = VeilPlan(seen)[id]
    <3>1. \A e \in Looked : OfEither(seen, e, v, w)
      BY <2>1, <2>4, AllAnswered
    <3>2. QED
      BY <2>1, <3>1, PlanHadAMoment
  <2>5. \A x \in {v, w} : At(x) \in {At(y) : y \in during}
    OBVIOUS
  <2>6. QED
    BY <2>2, <2>3, <2>4, <2>5 DEF VerdictsHadAMoment
<1>4. QED
  BY <1>1, <1>2, <1>3, VeilReadsLikeTorrc, Invariance, MachineIsTyped, PTL DEF Spec
=============================================================================
