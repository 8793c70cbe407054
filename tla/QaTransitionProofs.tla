------------------------- MODULE QaTransitionProofs -------------------------
(***************************************************************************)
(* Theorems about both halves of qa_boot.py: QaTransition, its files,      *)
(* whichever of the shapes a tree can have are possible and whatever       *)
(* fails, is killed or is tampered with; and GrubConfig, its text,         *)
(* whatever configuration and command lines a base image comes with.       *)
(***************************************************************************)
EXTENDS QaTransition, GrubConfig, FiniteSets, FiniteSetTheorems, WellFoundedInduction, TLAPS

\* The labels of the call in the order it reaches them.
Opening == {"discover", "hashBefore", "confine"}
Patching == {"derive", "unlockGrub", "writeGrub"}
Refreshing == {"catalog", "unlockCatalog", "writeCatalog"}
Closing == {"lockCatalog", "hashAfter"}

Whole == {"production", "qa"}
Contents == Whole \cup {"torn"}

Types ==
    /\ layout \in Layouts /\ text \in Texts /\ catalog \in Catalogs
    /\ pc \in Opening \cup Patching \cup {"lockGrub"} \cup Refreshing \cup Closing \cup {"done"}
    /\ grub \in Contents /\ listed \in Contents
    /\ original \in [Files -> BOOLEAN] /\ mode \in [Files -> BOOLEAN]
    /\ refused \subseteq Files
    /\ result \in {"none", "ok", "unsafe", "blocked", "raised", "killed"}

\* An exception waits only in a finally clause; anything else ends the call.
Ends ==
    /\ pc \in {"lockGrub", "lockCatalog"} => result \in {"none", "raised"}
    /\ pc \notin {"lockGrub", "lockCatalog", "done"} => result = "none"
    /\ pc = "done" => result # "none"

\* What the guards passed so far say of the tree.
Guarded ==
    /\ outside = "intact"
    /\ pc \notin {"discover", "done"} => layout # "none"
    /\ pc \notin Opening \cup {"done"} => layout # "linkOutside"
    /\ pc \in {"unlockCatalog", "writeCatalog", "lockCatalog"}
       => catalog \in {"listed", "linkInside"}

\* What the first pass recorded of a file that is reached by a link.
FirstPass ==
    pc \in ({"confine", "lockGrub"} \cup Patching \cup Refreshing \cup Closing)
    => /\ layout = "linkInside" => before.grub = "production"
       /\ catalog = "linkInside" => before.listed = "production"

\* The two files are whole but for a write cut short, and a call that goes on
\* after a write has written all of it.
Written ==
    /\ pc \in Opening \cup Patching => grub = "production"
    /\ pc \in Opening \cup Patching \cup {"lockGrub"} \cup Refreshing => listed = "production"
    /\ result = "none" /\ pc \in {"lockGrub"} \cup Refreshing \cup Closing => grub = "qa"
    /\ result = "none" /\ pc \in Closing /\ catalog \in {"listed", "linkInside"}
       => listed = "qa"

\* Only around its write is a file's mode not the one it was extracted with,
\* and after it only where putting it back failed; that ended the call.
Modes ==
    /\ result # "killed" =>
          /\ pc \notin {"writeGrub", "lockGrub"} /\ "grub" \notin refused
             => mode["grub"] = original["grub"]
          /\ pc \notin {"writeCatalog", "lockCatalog"} /\ "catalog" \notin refused
             => mode["catalog"] = original["catalog"]
    /\ refused # {} => pc = "done" /\ result = "raised"

IInv ==
    /\ Types /\ Ends /\ Guarded /\ FirstPass /\ Written /\ Modes
    /\ DoneMeansNothingElseChanged /\ CatalogIsFresh /\ BlockedLeavesWholeFiles

\* The invariant holds of every tree as extracted, and every step keeps it.
THEOREM Invariance == Spec => []IInv
<1> USE DEF Types, Ends, Guarded, FirstPass, Written, Modes,
            DoneMeansNothingElseChanged, CatalogIsFresh, BlockedLeavesWholeFiles,
            Opening, Patching, Refreshing, Closing, Whole, Contents, Files, tree
<1>1. Init => IInv
  BY DEF Init, IInv
<1>2. IInv /\ [Next]_vars => IInv'
  <2> SUFFICES ASSUME IInv, [Next]_vars PROVE IInv'
    OBVIOUS
  <2> USE DEF IInv
  <2>1. CASE Discover
    BY <2>1 DEF Discover, End, GoTo
  <2>2. CASE HashBefore
    BY <2>2 DEF HashBefore, HashPass, GoTo
  <2>3. CASE ConfineGrub
    BY <2>3 DEF ConfineGrub, End, GoTo
  <2>4. CASE DeriveEntry
    BY <2>4 DEF DeriveEntry, End, GoTo
  <2>5. CASE UnlockGrub
    BY <2>5 DEF UnlockGrub, Unlock, GoTo
  <2>6. CASE WriteGrub
    BY <2>6 DEF WriteGrub
  <2>7. CASE LockGrub
    BY <2>7 DEF LockGrub, Lock, GoTo
  <2>8. CASE ReadCatalog
    BY <2>8 DEF ReadCatalog, End, GoTo
  <2>9. CASE UnlockCatalog
    BY <2>9 DEF UnlockCatalog, Unlock, GoTo
  <2>10. CASE WriteCatalog
    BY <2>10 DEF WriteCatalog
  <2>11. CASE LockCatalog
    BY <2>11 DEF LockCatalog, Lock, GoTo
  <2>12. CASE HashAfter
    BY <2>12, ShapesAssumption DEF HashAfter, HashPass, End
  <2>13. CASE Raise
    BY <2>13 DEF Raise, End
  <2>14. CASE Refuse("grub", "lockGrub") \/ Refuse("catalog", "lockCatalog")
    BY <2>14 DEF Refuse, End
  <2>15. CASE Kill
    BY <2>15 DEF Kill, End
  <2>16. CASE Tamper
    BY <2>16 DEF Tamper
  <2>17. CASE UNCHANGED vars
    BY <2>17 DEF vars
  <2>18. QED
    BY <2>1, <2>2, <2>3, <2>4, <2>5, <2>6, <2>7, <2>8, <2>9, <2>10, <2>11, <2>12,
       <2>13, <2>14, <2>15, <2>16, <2>17 DEF Next, Transition
<1>3. QED
  BY <1>1, <1>2, PTL DEF Spec

\* Whatever layout the tree has, a done transition changed the configuration
\* and its catalog only, and none wrote beyond the extraction root.
THEOREM NothingElseChanged == Spec => []DoneMeansNothingElseChanged
<1>1. IInv => DoneMeansNothingElseChanged
  BY DEF IInv
<1>2. QED
  BY <1>1, Invariance, PTL

\* A done transition leaves no stale checksum behind.
THEOREM FreshCatalog == Spec => []CatalogIsFresh
<1>1. IInv => CatalogIsFresh
  BY DEF IInv
<1>2. QED
  BY <1>1, Invariance, PTL

\* qa_boot.py:106: however the tree was extracted and whatever fails, a call
\* that returns or ends with an error of its own has put every mode back; one
\* that ends with a failing system call has, save for a file whose restoring
\* chmod was that call.
THEOREM ModesRestored == Spec => []ModesComeBack
<1>1. IInv => ModesComeBack
  <2> SUFFICES ASSUME IInv, pc = "done" PROVE ModesComeBack
    BY DEF ModesComeBack
  <2> USE DEF IInv, Types, Modes, Files
  <2>1. result # "killed" => \A file \in Files \ refused : mode[file] = original[file]
    OBVIOUS
  <2>2. result \in {"ok", "unsafe", "blocked"} => mode = original
    <3>1. SUFFICES ASSUME result \in {"ok", "unsafe", "blocked"} PROVE mode = original
      OBVIOUS
    <3>2. refused = {}
      BY <3>1
    <3>3. \A file \in Files : mode[file] = original[file]
      BY <2>1, <3>1, <3>2
    <3>4. QED
      BY <3>3
  <2>3. QED
    BY <2>1, <2>2 DEF ModesComeBack
<1>2. QED
  BY <1>1, Invariance, PTL

\* A blocked transition leaves both files as extracted, save that it may have
\* patched the configuration before it met a catalog that leads outside.
THEOREM BlockedKeepsFiles == Spec => []BlockedLeavesWholeFiles
<1>1. IInv => BlockedLeavesWholeFiles
  BY DEF IInv
<1>2. QED
  BY <1>1, Invariance, PTL

----------------------------------------------------------------------------
(* The text of the configuration (GrubConfig)                              *)

\* A set of numbers has a least one.
LEMMA Least ==
    ASSUME NEW T \in SUBSET Nat, T # {}
    PROVE  \E n \in T : \A k \in T : n <= k
<1>1. PICK n \in T : \A k \in T : ~ (<<k, n>> \in OpToRel(<, Nat))
  BY WFMin, NatLessThanWellFounded, Zenon
<1>2. \A k \in T : ~ (k < n)
  BY <1>1, Zenon DEF OpToRel
<1>3. QED
  BY <1>2

\* So the first of some lines is one of them.
LEMMA FirstIsLeast ==
    ASSUME NEW T \in SUBSET Nat, T # {}
    PROVE  First(T) \in T /\ \A k \in T : First(T) <= k
BY Least DEF First

\* f holds what is left of the first 0, 1, ..., n elements of s.
Leaves(f, s, unwanted, n) ==
    f = [i \in 0..n |-> IF i = 0 THEN <<>>
                        ELSE IF s[i] \in unwanted THEN f[i - 1] ELSE Append(f[i - 1], s[i])]

\* What can be left of s: a sequence of its elements, none of them unwanted.
Remainder(left, s, unwanted) ==
    \A j \in 1..Len(left) : /\ left[j] \notin unwanted
                            /\ \E k \in 1..Len(s) : left[j] = s[k]

\* There is such an f, one element at a time.
LEMMA LeavesExists ==
    ASSUME NEW s, NEW unwanted, NEW n \in Nat
    PROVE  \E f : Leaves(f, s, unwanted, n)
<1> DEFINE T == {k \in Nat : ~ \E f : Leaves(f, s, unwanted, k)}
<1>1. SUFFICES ASSUME T # {} PROVE FALSE
  OBVIOUS
<1>2. PICK k \in T : \A l \in T : k <= l
  BY <1>1, Least
<1>3. k # 0
  <2>1. Leaves([i \in 0..0 |-> <<>>], s, unwanted, 0)
    BY DEF Leaves
  <2>2. QED
    BY <2>1
<1>4. k - 1 \in Nat /\ k - 1 \notin T
  BY <1>2, <1>3
<1>5. PICK f : Leaves(f, s, unwanted, k - 1)
  BY <1>4
<1> DEFINE g == [i \in 0..k |->
                   IF i < k THEN f[i]
                   ELSE IF s[i] \in unwanted THEN f[i - 1] ELSE Append(f[i - 1], s[i])]
<1>6. \A i \in 0..k : i # 0 => g[i - 1] = f[i - 1]
  OBVIOUS
<1>7. \A i \in 0..k : g[i] = IF i = 0 THEN <<>>
                             ELSE IF s[i] \in unwanted THEN g[i - 1] ELSE Append(g[i - 1], s[i])
  <2> SUFFICES ASSUME NEW i \in 0..k
               PROVE  g[i] = IF i = 0 THEN <<>>
                             ELSE IF s[i] \in unwanted THEN g[i - 1] ELSE Append(g[i - 1], s[i])
    OBVIOUS
  <2>1. CASE i = k
    BY <2>1, <1>3, <1>6
  <2>2. CASE i # k
    <3>1. i \in 0..(k - 1) /\ g[i] = f[i]
      BY <2>2
    <3>2. f[i] = IF i = 0 THEN <<>>
                 ELSE IF s[i] \in unwanted THEN f[i - 1] ELSE Append(f[i - 1], s[i])
      BY <1>5, <3>1 DEF Leaves
    <3>3. QED
      BY <1>6, <3>1, <3>2
  <2>3. QED
    BY <2>1, <2>2
<1>8. Leaves(g, s, unwanted, k)
  <2> DEFINE h == [i \in 0..k |-> IF i = 0 THEN <<>>
                      ELSE IF s[i] \in unwanted THEN g[i - 1] ELSE Append(g[i - 1], s[i])]
  <2>1. \A i \in 0..k : g[i] = h[i]
    <3> HIDE DEF g
    <3>1. QED
      BY <1>7
  <2>2. g = h
    BY <2>1
  <2>3. QED
    BY <2>2 DEF Leaves
<1>9. QED
  BY <1>8

\* What Without leaves is made of what was there and wanted.
LEMMA WithoutLeaves ==
    ASSUME NEW S, NEW s \in Seq(S), NEW unwanted
    PROVE  /\ Without(s, unwanted) \in Seq(S)
           /\ Remainder(Without(s, unwanted), s, unwanted)
<1>1. PICK f : Leaves(f, s, unwanted, Len(s)) /\ Without(s, unwanted) = f[Len(s)]
  <2> DEFINE f == CHOOSE left : Leaves(left, s, unwanted, Len(s))
  <2>1. Leaves(f, s, unwanted, Len(s))
    BY LeavesExists
  <2>2. Without(s, unwanted) = f[Len(s)]
    BY DEF Without, Leaves
  <2>3. QED
    BY <2>1, <2>2
<1> DEFINE T == {n \in 0..Len(s) : ~(f[n] \in Seq(S) /\ Remainder(f[n], s, unwanted))}
<1>2. T = {}
  <2>1. SUFFICES ASSUME T # {} PROVE FALSE
    OBVIOUS
  <2>2. PICK n \in T : \A k \in T : n <= k
    <3>1. T \in SUBSET Nat
      OBVIOUS
    <3> HIDE DEF T
    <3>2. QED
      BY <2>1, <3>1, Least
  <2>3. n # 0
    BY <1>1 DEF Leaves, Remainder
  <2>4. /\ f[n - 1] \in Seq(S) /\ Remainder(f[n - 1], s, unwanted)
        /\ n \in 1..Len(s) /\ s[n] \in S
    <3>1. n - 1 \in 0..Len(s) /\ n - 1 \notin T
      BY <2>2, <2>3
    <3>2. QED
      BY <2>3, <3>1
  <2>5. f[n] = IF s[n] \in unwanted THEN f[n - 1] ELSE Append(f[n - 1], s[n])
    BY <1>1, <2>3 DEF Leaves
  <2>6. s[n] \notin unwanted => Remainder(Append(f[n - 1], s[n]), s, unwanted)
    BY <2>4 DEF Remainder
  <2>7. f[n] \in Seq(S) /\ Remainder(f[n], s, unwanted)
    BY <2>4, <2>5, <2>6
  <2>8. QED
    BY <2>7
<1>3. QED
  BY <1>1, <1>2

----------------------------------------------------------------------------
(* The derived command line                                                *)

Words == Seq(STRING \cup {"console=ttyS0", "---", "default", "timeout", "0", "1"})

\* An element that is inserted moves those behind it down by one.
LEMMA Inserted ==
    ASSUME NEW S, NEW s \in Seq(S), NEW at \in 1..Len(s), NEW e \in S,
           NEW t, t = InsertAt(s, at, e)
    PROVE  /\ t \in Seq(S) /\ Len(t) = Len(s) + 1 /\ t[at] = e
           /\ \A i \in 1..(at - 1) : t[i] = s[i]
           /\ \A i \in at..Len(s) : t[i + 1] = s[i]
<1> DEFINE a == SubSeq(s, 1, at - 1)
           b == SubSeq(s, at, Len(s))
<1>1. a \in Seq(S) /\ Len(a) = at - 1 /\ \A i \in 1..(at - 1) : a[i] = s[i]
  OBVIOUS
<1>2. /\ b \in Seq(S) /\ Len(b) = Len(s) + 1 - at
      /\ \A i \in 1..(Len(s) + 1 - at) : b[i] = s[at + i - 1]
  OBVIOUS
<1>3. t = a \o <<e>> \o b
  BY DEF InsertAt
<1> HIDE DEF a, b
<1>4. /\ a \o <<e>> \in Seq(S) /\ Len(a \o <<e>>) = at /\ (a \o <<e>>)[at] = e
      /\ \A i \in 1..(at - 1) : (a \o <<e>>)[i] = s[i]
  BY <1>1
<1> DEFINE c == a \o <<e>>
<1> HIDE DEF c
<1>5. /\ c \in Seq(S) /\ Len(c) = at /\ c[at] = e /\ \A i \in 1..(at - 1) : c[i] = s[i]
      /\ t = c \o b
  BY <1>3, <1>4 DEF c
<1>6. t \in Seq(S) /\ Len(t) = Len(s) + 1
  <2>1. c \in Seq(S) /\ b \in Seq(S) /\ t = c \o b
    BY <1>2, <1>5
  <2>2. t \in Seq(S) /\ Len(t) = Len(c) + Len(b)
    BY <2>1
  <2>3. QED
    BY <1>2, <1>5, <2>2
<1>7. t[at] = e /\ \A i \in 1..(at - 1) : t[i] = s[i]
  BY <1>2, <1>5
<1>8. ASSUME NEW i \in at..Len(s) PROVE t[i + 1] = s[i]
  <2>1. t[i + 1] = b[(i + 1) - at] /\ (i + 1) - at \in 1..(Len(s) + 1 - at)
    BY <1>2, <1>5, <1>6
  <2>2. b[(i + 1) - at] = s[at + ((i + 1) - at) - 1] /\ at + ((i + 1) - at) - 1 = i
    BY <1>2, <2>1
  <2>3. QED
    BY <2>1, <2>2
<1>9. QED
  BY <1>6, <1>7, <1>8

\* The console is put into the command line, in front of the separator where
\* the line did not carry it already; the rest of the words stay.
LEMMA ConsoleIsAdded ==
    ASSUME NEW words \in Words
    PROVE  LET added == AddSerialConsole(words) IN
           /\ added \in Words
           /\ Contains(added, Console)
           /\ \A i \in 1..Len(added) : added[i] = Console \/ Contains(words, added[i])
           /\ \/ Contains(words, Console)
              \/ Before(added, Console, Separator)
<1> DEFINE W == STRING \cup {"console=ttyS0", "---", "default", "timeout", "0", "1"}
<1>0. words \in Seq(W)
  BY DEF Words
<1> DEFINE token == Console
           I == {i \in 1..Len(words) : words[i] = Separator}
           at == SelectInSeq(words, LAMBDA w : w = Separator)
           added == AddSerialConsole(words)
<1>1. token \in W
  BY DEF Console
<1>2. CASE Contains(words, token)
  BY <1>2 DEF AddSerialConsole, Contains, Words
<1>3. CASE ~Contains(words, token) /\ I = {}
  <2>1. at = 0
    BY <1>3 DEF SelectInSeq
  <2>2. added = Append(words, token)
    BY <1>3, <2>1 DEF AddSerialConsole
  <2>3. \A i \in 1..Len(words) : words[i] # Separator
    BY <1>3
  <2> HIDE DEF token, added, at, I, W
  <2>4. /\ added \in Seq(W) /\ Len(added) = Len(words) + 1 /\ added[Len(words) + 1] = token
        /\ \A i \in 1..Len(words) : added[i] = words[i]
    BY <1>0, <1>1, <2>2
  <2>5. Before(added, token, Separator) /\ Contains(added, token)
    BY <2>3, <2>4 DEF Before, Contains
  <2>6. \A i \in 1..Len(added) : added[i] = token \/ Contains(words, added[i])
    BY <2>4 DEF Contains
  <2>7. QED
    BY <2>4, <2>5, <2>6 DEF added, token, Words, W
<1>4. CASE ~Contains(words, token) /\ I # {}
  <2>1. at \in I /\ \A i \in I : at <= i
    <3>1. I \in SUBSET Nat
      OBVIOUS
    <3>2. at = Min(I)
      BY <1>4 DEF SelectInSeq
    <3> HIDE DEF I, at
    <3>3. QED
      BY <1>4, <3>1, <3>2, Least DEF Min
  <2>2. at # 0
    BY <2>1
  <2>3. added = InsertAt(words, at, token)
    BY <1>4, <2>2 DEF AddSerialConsole
  <2>4. at \in 1..Len(words) /\ \A i \in 1..(at - 1) : words[i] # Separator
    <3> HIDE DEF at
    <3>1. at \in 1..Len(words)
      BY <2>1
    <3>2. ASSUME NEW i \in 1..(at - 1) PROVE words[i] # Separator
      BY <1>0, <2>1, <3>1
    <3>3. QED
      BY <3>1, <3>2
  <2> HIDE DEF token, added, at, I, W
  <2>5. /\ added \in Seq(W) /\ Len(added) = Len(words) + 1 /\ added[at] = token
        /\ \A i \in 1..(at - 1) : added[i] = words[i]
        /\ \A i \in at..Len(words) : added[i + 1] = words[i]
    <3>1. added \in Seq(W) /\ Len(added) = Len(words) + 1 /\ added[at] = token
      BY <1>0, <1>1, <2>3, <2>4, Inserted
    <3>2. \A i \in 1..(at - 1) : added[i] = words[i]
      BY <1>0, <1>1, <2>3, <2>4, Inserted
    <3>3. ASSUME NEW i \in at..Len(words) PROVE added[i + 1] = words[i]
      BY <1>0, <1>1, <2>3, <2>4, <3>1, Inserted
    <3>4. QED
      BY <3>1, <3>2, <3>3
  <2>6. Before(added, token, Separator) /\ Contains(added, token)
    BY <2>4, <2>5 DEF Before, Contains
  <2>7. \A i \in 1..Len(added) : added[i] = token \/ Contains(words, added[i])
    <3> SUFFICES ASSUME NEW i \in 1..Len(added)
                 PROVE  added[i] = token \/ Contains(words, added[i])
      OBVIOUS
    <3>1. CASE i < at
      BY <2>4, <2>5, <3>1 DEF Contains
    <3>2. CASE i = at
      BY <2>5, <3>2
    <3>3. CASE i > at
      <4>1. i - 1 \in at..Len(words) /\ (i - 1) + 1 = i
        BY <2>4, <2>5, <3>3
      <4>2. added[i] = words[i - 1] /\ i - 1 \in 1..Len(words)
        BY <2>4, <2>5, <4>1
      <4>3. QED
        BY <4>2 DEF Contains
    <3>4. QED
      BY <2>4, <3>1, <3>2, <3>3
  <2>8. QED
    BY <2>5, <2>6, <2>7 DEF added, token, Words, W
<1>5. QED
  BY <1>2, <1>3, <1>4

----------------------------------------------------------------------------
(* The configuration                                                       *)

Lines == [kind : {"menuentry", "linux", "initrd", "setting", "nested"}, words : Words]

TypedText == cfg \in Seq(Lines)

\* However it is composed, a configuration is a sequence of lines.
THEOREM TextIsTyped == TextSpec => []TypedText
<1>1. TextInit => TypedText
  BY DEF TextInit, TypedText
<1>2. \A piece \in Pieces : piece \in Seq(Lines)
  <2>1. ASSUME NEW words \in Args
        PROVE  <<Line("linux", words)>> \in Seq(Lines) /\ Line("linux", words) \in Lines
    <3>1. words \in Words
      BY ArgsAssumption DEF Words
    <3>2. QED
      BY <3>1 DEF Line, Lines
  <2>2. /\ Line("menuentry", <<>>) \in Lines /\ Line("initrd", <<>>) \in Lines
        /\ \A kind \in {"setting", "nested"} : Default(kind, "1") \in Lines
        /\ Timeout("setting") \in Lines
    BY DEF Line, Default, Timeout, Lines, Words
  <2> SUFFICES ASSUME NEW piece \in Pieces PROVE piece \in Seq(Lines)
    OBVIOUS
  <2> DEFINE entry == Line("menuentry", <<>>)
             initrd == Line("initrd", <<>>)
  <2> HIDE DEF entry, initrd
  <2>3. entry \in Lines /\ initrd \in Lines
    BY <2>2 DEF entry, initrd
  <2>4. CASE \E a \in Args : \/ piece = <<entry, Line("linux", a), initrd>>
                             \/ piece = <<entry, Line("linux", a)>>
    <3>1. \A x, y, z \in Lines : <<x, y>> \in Seq(Lines) /\ <<x, y, z>> \in Seq(Lines)
      OBVIOUS
    <3>2. QED
      BY <2>1, <2>3, <2>4, <3>1
  <2>5. CASE piece = <<entry, initrd>>
    BY <2>3, <2>5
  <2>6. CASE \/ \E kind \in {"setting", "nested"} : piece = <<Default(kind, "1")>>
             \/ piece = <<Timeout("setting")>>
    <3>1. \A x \in Lines : <<x>> \in Seq(Lines)
      OBVIOUS
    <3>2. QED
      BY <2>2, <2>6, <3>1
  <2>7. QED
    BY <2>4, <2>5, <2>6 DEF Pieces, entry, initrd
<1>3. TypedText /\ [Compose]_textVars => TypedText'
  <2> SUFFICES ASSUME TypedText, [Compose]_textVars PROVE TypedText'
    OBVIOUS
  <2>1. CASE Compose
    <3>1. PICK piece \in Pieces : cfg' = cfg \o piece
      BY <2>1 DEF Compose
    <3>2. piece \in Seq(Lines) /\ cfg \in Seq(Lines)
      BY <1>2 DEF TypedText
    <3>3. cfg \o piece \in Seq(Lines)
      BY <3>2
    <3>4. QED
      BY <3>1, <3>3 DEF TypedText
  <2>2. CASE UNCHANGED textVars
    BY <2>2 DEF TypedText, textVars
  <2>3. QED
    BY <2>1, <2>2
<1>4. QED
  BY <1>1, <1>3, PTL DEF TextSpec

\* What is derived, and from which line.
LEMMA Derived ==
    ASSUME NEW c \in Seq(Lines), Derive(c) # Blocked
    PROVE  LET line == c[First(LinesIn(c, First(Complete(c)), "linux"))].words
               words == AddSerialConsole(RemoveQuiet(line))
           IN  /\ line \in Words
               /\ Derive(c) = <<Line("menuentry", <<>>), Line("linux", words),
                                     Line("initrd", <<>>)>>
               /\ ~Contains(words, "autoinstall")
<1> DEFINE i == First(Complete(c))
           at == First(LinesIn(c, i, "linux"))
<1>1. Complete(c) # {}
  BY DEF Derive
<1>2. Complete(c) \in SUBSET Nat
  BY DEF Complete
<1>3. i \in Complete(c)
  BY <1>1, <1>2, FirstIsLeast
<1> HIDE DEF i
<1>4. LinesIn(c, i, "linux") # {} /\ i \in Nat
  BY <1>3 DEF Complete
<1>5. LinesIn(c, i, "linux") \in SUBSET (1..Len(c))
  BY <1>4 DEF LinesIn, Body
<1>6. at \in 1..Len(c)
  BY <1>4, <1>5, FirstIsLeast
<1> HIDE DEF at
<1>7. c[at].words \in Words
  <2>1. c[at] \in Lines
    BY <1>6
  <2>2. QED
    BY <2>1 DEF Lines
<1>8. QED
  BY <1>1, <1>7 DEF Derive, i, at

----------------------------------------------------------------------------
(* What GRUB boots                                                         *)

\* The patched configuration: two settings, the derived entry, and what is
\* left of the original.
LEMMA PatchedIs ==
    ASSUME NEW c \in Seq(Lines), Derive(c) # Blocked
    PROVE  LET P == Patched(c)
               n == Len(Without(c, Settings(c)))
           IN  /\ n \in Nat /\ Len(P) = n + 5 /\ DOMAIN P = 1..(n + 5)
               /\ P[1] = Default("setting", "0") /\ P[2] = Timeout("setting")
               /\ \A i \in 1..3 : P[i + 2] = Derive(c)[i]
               /\ \A j \in 6..(n + 5) : \E k \in 1..Len(c) : P[j] = c[k] /\ c[k].kind # "setting"
<1> DEFINE left == Without(c, Settings(c))
           P == Patched(c)
           D == Derive(c)
<1>1. left \in Seq(Lines) /\ Remainder(left, c, Settings(c))
  BY WithoutLeaves
<1>2. PICK x, y, z : D = <<x, y, z>>
  BY Derived
<1> DEFINE a == Default("setting", "0")
           b == Timeout("setting")
<1>3. P = <<a, b>> \o D \o left
  BY DEF Patched, Install
<1>4. \A k \in 1..Len(c) : c[k] \notin Settings(c) => c[k].kind # "setting"
  BY DEF Settings, ToSet
<1> HIDE DEF left, P, D, a, b
<1>5. P = <<a, b, x, y, z>> \o left
  BY <1>1, <1>2, <1>3
<1>6. /\ Len(left) \in Nat /\ Len(P) = Len(left) + 5 /\ DOMAIN P = 1..(Len(left) + 5)
      /\ P[1] = a /\ P[2] = b /\ P[3] = x /\ P[4] = y /\ P[5] = z
      /\ \A j \in 6..(Len(left) + 5) : P[j] = left[j - 5]
  BY <1>1, <1>5
<1>7. \A i \in 1..3 : P[i + 2] = D[i]
  BY <1>2, <1>6
<1>8. ASSUME NEW j \in 6..(Len(left) + 5)
      PROVE  \E k \in 1..Len(c) : P[j] = c[k] /\ c[k].kind # "setting"
  <2>1. P[j] = left[j - 5] /\ j - 5 \in 1..Len(left)
    BY <1>6
  <2>2. QED
    BY <1>1, <1>4, <2>1 DEF Remainder
<1>9. QED
  BY <1>6, <1>7, <1>8 DEF left, P, D, a, b

\* Its first entry boots, if no indented line sets a default.
LEMMA FirstEntryBoots ==
    ASSUME NEW c \in Seq(Lines), Derive(c) # Blocked,
           \A i \in 1..Len(c) : c[i].kind # "nested"
    PROVE  Booted(Patched(c)) = Derive(c)[2].words
<1> DEFINE P == Patched(c)
           D == Derive(c)
           n == Len(Without(c, Settings(c)))
<1>1. PICK words : D = <<Line("menuentry", <<>>), Line("linux", words),
                         Line("initrd", <<>>)>>
  BY Derived
<1>2. /\ n \in Nat /\ Len(P) = n + 5
      /\ P[1] = Line("setting", <<"default", "0">>) /\ P[2] = Line("setting", <<"timeout">>)
      /\ P[3] = Line("menuentry", <<>>) /\ P[4] = Line("linux", words)
      /\ P[5] = Line("initrd", <<>>)
      /\ \A j \in 6..(n + 5) : P[j].kind # "setting" /\ P[j].kind # "nested"
  <2>1. \A i \in 1..3 : P[i + 2] = D[i]
    BY PatchedIs
  <2>2. P[3] = D[1] /\ P[4] = D[2] /\ P[5] = D[3]
    BY <2>1
  <2>3. \A j \in 6..(n + 5) : P[j].kind # "setting" /\ P[j].kind # "nested"
    BY PatchedIs
  <2>4. n \in Nat /\ Len(P) = n + 5 /\ P[1] = Default("setting", "0") /\ P[2] = Timeout("setting")
    BY PatchedIs
  <2> HIDE DEF P, D, n
  <2>5. QED
    BY <1>1, <2>2, <2>3, <2>4 DEF Default, Timeout
<1> HIDE DEF P, n
<1>3. DefaultOf(P) = "0"
  <2> DEFINE I == {i \in 1..Len(P) : IsDefault(P[i])}
  <2>1. 1 \in I
    BY <1>2 DEF IsDefault, Line
  <2>2. ASSUME NEW i \in I PROVE i = 1
    <3>1. i \in 1..(n + 5) /\ P[i].kind \in {"setting", "nested"} /\ P[i].words[1] = "default"
      BY <1>2 DEF IsDefault
    <3>2. i \in {1, 2, 3, 4, 5} \/ i \in 6..(n + 5)
      BY <1>2, <3>1
    <3>3. i \in {1, 2}
      BY <1>2, <3>1, <3>2 DEF Line
    <3>4. i # 2
      BY <1>2, <3>1 DEF Line
    <3>5. QED
      BY <3>3, <3>4
  <2>3. I = {1}
    BY <2>1, <2>2
  <2>4. Max({1}) = 1
    BY DEF Max
  <2>5. SelectLastInSeq(P, IsDefault) = 1
    <3>1. SelectLastInSeq(P, IsDefault) = IF I # {} THEN Max(I) ELSE 0
      BY DEF SelectLastInSeq
    <3> HIDE DEF I
    <3>2. QED
      BY <2>3, <2>4, <3>1
  <2>6. P[1].words[2] = "0"
    BY <1>2 DEF Line
  <2>7. QED
    BY <2>5, <2>6 DEF DefaultOf
<1>4. CommandLine(P, 0) = words
  <2> DEFINE entries == {i \in 1..Len(P) : P[i].kind = "menuentry"}
             above(i) == {k \in entries : k < i}
             nth == {i \in entries : Cardinality(above(i)) = 0}
             inside == LinesIn(P, 3, "linux")
  <2>1. 3 \in entries /\ \A i \in entries : i \in Nat /\ i >= 3
    <3>1. \A i \in entries : i \in 1..(n + 5) /\ i # 1 /\ i # 2
      BY <1>2 DEF Line
    <3>2. QED
      BY <1>2, <3>1 DEF Line
  <2>2. ASSUME NEW i PROVE IsFiniteSet(above(i))
    <3>1. above(i) \subseteq 1..Len(P) /\ Len(P) \in Int
      BY <1>2
    <3>2. IsFiniteSet(1..Len(P))
      BY <1>2, FS_Interval
    <3>3. QED
      BY <3>1, <3>2, FS_Subset
  <2>3. above(3) = {}
    BY <2>1
  <2>4. \A i \in entries : i # 3 => 3 \in above(i)
    BY <2>1
  <2> HIDE DEF above
  <2>5. Cardinality(above(3)) = 0 /\ \A i \in entries : i # 3 => Cardinality(above(i)) # 0
    BY <2>2, <2>3, <2>4, FS_EmptySet
  <2>6. nth = {3}
    BY <2>1, <2>5
  <2>7. First({3}) = 3
    BY DEF First
  <2>8. inside \in SUBSET Nat /\ 4 \in inside /\ \A j \in inside : j >= 4
    <3>1. inside \subseteq 4..Len(P)
      BY DEF LinesIn, Body
    <3>2. 4 \in 4..Len(P) /\ P[4].kind = "linux"
      BY <1>2 DEF Line
    <3>3. \A k \in 4..4 : P[k].kind # "menuentry"
      BY <3>2
    <3>4. 4 \in inside
      BY <3>2, <3>3 DEF LinesIn, Body
    <3>5. QED
      BY <1>2, <3>1, <3>4
  <2>9. First(inside) = 4
    <3> HIDE DEF inside
    <3>1. First(inside) \in inside /\ \A k \in inside : First(inside) <= k
      BY <2>8, FirstIsLeast
    <3> DEFINE x == First(inside)
    <3>2. x \in Nat /\ x <= 4 /\ x >= 4
      BY <2>8, <3>1
    <3> HIDE DEF x
    <3>3. x = 4
      BY <3>2
    <3>4. QED
      BY <3>3 DEF x
  <2>10. P[4].words = words
    BY <1>2 DEF Line
  <2>11. CommandLine(P, 0) =
            IF nth = {} \/ LinesIn(P, First(nth), "linux") = {} THEN <<"nothing">>
            ELSE P[First(LinesIn(P, First(nth), "linux"))].words
    BY DEF CommandLine, above
  <2> HIDE DEF nth
  <2>12. QED
    BY <2>6, <2>7, <2>8, <2>9, <2>10, <2>11
<1>5. D[2].words = words
  BY <1>1 DEF Line
<1>6. QED
  BY <1>3, <1>4, <1>5 DEF Booted, P

\* The words of the derived line: the console, and of the original ones none
\* that is quiet.
LEMMA DerivedWords ==
    ASSUME NEW line \in Words
    PROVE  LET words == AddSerialConsole(RemoveQuiet(line)) IN
           /\ Contains(words, Console) /\ ~Contains(words, "quiet")
           /\ Contains(line, Console) \/ Before(words, Console, Separator)
<1> DEFINE loud == RemoveQuiet(line)
           words == AddSerialConsole(loud)
<1>1. loud \in Words /\ Remainder(loud, line, {"quiet"})
  BY WithoutLeaves DEF RemoveQuiet, Words
<1>2. ~Contains(loud, "quiet") /\ (Contains(loud, Console) => Contains(line, Console))
  BY <1>1 DEF Remainder, Contains
<1> HIDE DEF loud
<1>3. /\ words \in Words /\ Contains(words, Console)
      /\ \A i \in 1..Len(words) : words[i] = Console \/ Contains(loud, words[i])
      /\ Contains(loud, Console) \/ Before(words, Console, Separator)
  BY <1>1, ConsoleIsAdded
<1>4. "quiet" # Console
  BY DEF Console
<1> HIDE DEF words
<1>5. ~Contains(words, "quiet")
  BY <1>2, <1>3, <1>4 DEF Contains
<1>6. QED
  BY <1>2, <1>3, <1>5 DEF words, loud

\* qa_boot.py:283: whatever configuration and command lines the base image
\* comes with, the derived entry is what boots.
THEOREM DerivedEntryBoots == TextSpec => []QaEntryIsBooted
<1>1. TypedText => QaEntryIsBooted
  <2> SUFFICES ASSUME cfg \in Seq(Lines), Derive(cfg) # Blocked,
                      \A i \in 1..Len(cfg) : cfg[i].kind # "nested"
               PROVE  /\ Booted(Patched(cfg)) = Derive(cfg)[2].words
                      /\ Contains(Derive(cfg)[2].words, Console)
                      /\ ~Contains(Derive(cfg)[2].words, "quiet")
                      /\ ~Contains(Derive(cfg)[2].words, "autoinstall")
    BY DEF TypedText, QaEntryIsBooted, Derivable
  <2>1. PICK line \in Words :
            LET words == AddSerialConsole(RemoveQuiet(line)) IN
            /\ Derive(cfg)[2] = Line("linux", words)
            /\ ~Contains(words, "autoinstall")
    BY Derived
  <2>2. QED
    BY <2>1, FirstEntryBoots, DerivedWords DEF Line
<1>2. QED
  BY <1>1, TextIsTyped, PTL

\* qa_boot.py:227: and it has the console where the kernel reads it.
THEOREM ConsoleIsRead == TextSpec => []ConsoleReachesKernel
<1>1. TypedText => ConsoleReachesKernel
  <2> SUFFICES ASSUME cfg \in Seq(Lines), Derive(cfg) # Blocked
               PROVE  LET line == cfg[First(LinesIn(cfg, First(Complete(cfg)),
                                                              "linux"))].words
                      IN  \/ Contains(line, Console)
                          \/ Before(Derive(cfg)[2].words, Console, Separator)
    BY DEF TypedText, ConsoleReachesKernel, Derivable
  <2> DEFINE line == cfg[First(LinesIn(cfg, First(Complete(cfg)), "linux"))].words
             words == AddSerialConsole(RemoveQuiet(line))
  <2>1. line \in Words /\ Derive(cfg)[2] = Line("linux", words)
    BY Derived
  <2> HIDE DEF line
  <2>2. Contains(line, Console) \/ Before(words, Console, Separator)
    BY <2>1, DerivedWords
  <2>3. Derive(cfg)[2].words = words
    BY <2>1 DEF Line
  <2>4. QED
    BY <2>2, <2>3 DEF line
<1>2. QED
  BY <1>1, TextIsTyped, PTL

=============================================================================
