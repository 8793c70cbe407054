-------------------------------- MODULE Torrc --------------------------------
(***************************************************************************)
(* serein.veil.tor: how the torrc is read.  The main file may include files, *)
(* directories and wildcards, which are read one after another where the     *)
(* include stands; meanwhile anybody may edit any of them.                   *)
(*                                                                         *)
(* The code recurses (_resolve_lines, _resolve_include); here its call stack *)
(* is todo, what is still to be resolved, in order, each item with the files *)
(* and directories it is nested in.                                        *)
(*                                                                         *)
(* Not distinguished: comments, spelling, and the values of a directive      *)
(* beyond "0" and the ports "9050" and "9150".                             *)
(***************************************************************************)
EXTENDS Naturals, Sequences, SequencesExt

CONSTANTS
    Paths,             \* files and directories
    Main,              \* /etc/tor/torrc
    Outside,           \* the paths that resolve outside the root
    Files, Dirs,       \* what a file can say, what a directory can hold
    MaxIncludeDepth    \* _MAX_INCLUDE_DEPTH: 8 in the code

\* Every line a file can have.
Said == UNION {Range(f) : f \in Files}

ASSUME PathsAssumption == Main \in Paths \ Outside /\ MaxIncludeDepth \in Nat

ASSUME ContentsAssumption ==
    /\ Files \subseteq Seq(Said)
    /\ Dirs \subseteq Seq(Paths)
    /\ \A line \in Said : /\ line.kind \in {"directive", "include", "wildcard"}
                          /\ line.kind # "directive" => line.of \in Paths

VARIABLES
    fs,      \* path -> what is there
    todo,    \* what is still to be resolved
    lines    \* the directives found so far, each with the file it stands in

readVars == <<fs, todo, lines>>

\* What can be on todo: a path to resolve, or a line of a file.
VisitLine(p)       == [kind |-> "visit", of |-> p]
Include(p)         == [kind |-> "include", of |-> p]
Wildcard(d, match) == [kind |-> "wildcard", of |-> d, match |-> match]
Directive(op, name, value) == [kind |-> "directive", op |-> op, name |-> name, value |-> value]

File(body) == [kind |-> "file", body |-> body]
Absent     == [kind |-> "absent", body |-> <<>>]

\* A directory holds paths, in the order of their names.
Dir(children) ==
    [kind |-> "dir", body |-> [i \in DOMAIN children |-> VisitLine(children[i])]]

Entries == {File(f) : f \in Files} \cup {Dir(d) : d \in Dirs} \cup {Absent}

\* seen and depth of _resolve_lines.
Item(line, path, chain, depth) ==
    [line |-> line, path |-> path, chain |-> chain, depth |-> depth]

\* Mutant: each include starts with an empty chain.
EnterAfresh(item, p) == Item(VisitLine(p), p, {}, 0)

\* One include deeper.
Enter(item, p) == Item(VisitLine(p), p, item.chain, item.depth + 1)

\* Mutant: an include may lead out of the root.
RefusedByDepth(item) == item.depth > MaxIncludeDepth \/ item.path \in item.chain

Refused(item) ==
    \/ item.depth > MaxIncludeDepth
    \/ item.path \in item.chain
    \/ item.path \in Outside

\* A child that is not taken is passed over, like one that is nested too deep.
PassOver(item, p) == Item(VisitLine(p), p, item.chain, MaxIncludeDepth + 1)

\* The children of a directory that are taken, in their order.
Children(item, body, taken) ==
    [i \in DOMAIN body |->
        IF body[i].of \in taken THEN Enter(item, body[i].of) ELSE PassOver(item, body[i].of)]

\* Only the plain files of an included directory are read.
PlainFiles == {p \in Paths : fs[p].kind = "file"}

Resolved(item) ==
    LET inside == [item EXCEPT !.chain = @ \cup {item.path}]
        entry == fs[item.path]
    IN  IF Refused(item) THEN <<>>
        ELSE IF entry.kind = "dir" THEN Children(inside, entry.body, PlainFiles)
        ELSE [i \in DOMAIN entry.body |->
                 Item(entry.body[i], item.path, inside.chain, item.depth)]

\* A wildcard: every child that matches, directories too.
Matches(item) ==
    IF item.line.of \in Outside \/ fs[item.line.of].kind # "dir" THEN <<>>
    ELSE Children(item, fs[item.line.of].body, item.line.match)

----------------------------------------------------------------------------
ReadInit == fs \in [Paths -> Entries] /\ todo = <<>> /\ lines = <<>>

\* _effective_torrc_lines: nothing without a main torrc that is a file.
Begin ==
    /\ todo = <<>>
    /\ todo' = IF fs[Main].kind = "file" THEN <<Item(VisitLine(Main), Main, {}, 0)>> ELSE <<>>
    /\ lines' = <<>>
    /\ UNCHANGED fs

Next1(kind, replacement) ==
    /\ todo # <<>> /\ Head(todo).line.kind = kind
    /\ todo' = replacement \o Tail(todo)
    /\ UNCHANGED fs

Visit == Next1("visit", Resolved(Head(todo))) /\ UNCHANGED lines

FollowInclude ==
    /\ Next1("include", <<Enter(Head(todo), Head(todo).line.of)>>)
    /\ UNCHANGED lines

ExpandWildcard ==
    /\ Next1("wildcard", Matches(Head(todo)))
    /\ UNCHANGED lines

Keep ==
    /\ Next1("directive", <<>>)
    /\ lines' = Append(lines, [said |-> Head(todo).line, in |-> Head(todo).path])

Read == Visit \/ FollowInclude \/ ExpandWildcard \/ Keep

Edit ==
    /\ \E p \in Paths, entry \in Entries : fs' = [fs EXCEPT ![p] = entry]
    /\ UNCHANGED <<todo, lines>>

ReadNext == Begin \/ Read \/ Edit

ReadSpec == ReadInit /\ [][ReadNext]_readVars

----------------------------------------------------------------------------
(* Properties                                                              *)

\* tor.py:106, "blocks traversal, absolute-path re-rooting included":
\* whatever is edited while the torrc is read, nothing is read that resolves
\* outside the root, neither a file nor a directory nor anything they include.
StaysInRoot ==
    /\ \A i \in DOMAIN todo : todo[i].chain \cap Outside = {}
    /\ \A i \in DOMAIN lines : lines[i].in \notin Outside

\* tor.py:88, the guard against a cyclic chain of includes: what is being
\* resolved is never nested deeper than the bound and the one item that is
\* refused for it.
NestingIsBounded ==
    \A i \in DOMAIN todo : todo[i].depth <= MaxIncludeDepth + 1

\* Reading comes to its end, however the files include each other and
\* whatever is edited in the meantime, as long as the command itself runs on.
ReadEnds == todo # <<>> ~> todo = <<>>
=============================================================================
