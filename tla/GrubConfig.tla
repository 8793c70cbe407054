----------------------------- MODULE GrubConfig -----------------------------
(***************************************************************************)
(* The text side of serein.distribution.qa_boot: derive a serial QA menu   *)
(* entry from the first usable production entry of a GRUB configuration,   *)
(* and put it in front as the default.  A configuration is a sequence of   *)
(* lines, a kernel command line a sequence of words; the state is the      *)
(* configuration a base image comes with, built piece by piece.            *)
(***************************************************************************)
EXTENDS Naturals, Sequences, FiniteSets, SequencesExt

CONSTANTS Args,      \* kernel command lines production entries carry
          MaxPieces  \* bound: menu entries and settings in one configuration

ASSUME ArgsAssumption == \A words \in Args : words \in Seq(STRING)

VARIABLES cfg, pieces

textVars == <<cfg, pieces>>

Console == "console=ttyS0"
Separator == "---"

Line(kind, words) == [kind |-> kind, words |-> words]

\* "setting" lines start in column 0, "nested" ones are indented (in an if).
Default(kind, value)  == Line(kind, <<"default", value>>)
Timeout(kind)         == Line(kind, <<"timeout">>)

\* What a configuration is made of: complete menu entries, entries with only
\* one of the two lines, and settings.
Pieces ==
    {<<Line("menuentry", <<>>), Line("linux", a), Line("initrd", <<>>)>> : a \in Args}
    \cup {<<Line("menuentry", <<>>), Line("linux", a)>> : a \in Args}
    \cup {<<Line("menuentry", <<>>), Line("initrd", <<>>)>>}
    \cup {<<Default(k, "1")>> : k \in {"setting", "nested"}}
    \cup {<<Timeout("setting")>>}

TextInit == cfg = <<>> /\ pieces = 0

\* The base image's authors write one more piece.
Compose ==
    /\ pieces < MaxPieces
    /\ \E piece \in Pieces : cfg' = cfg \o piece
    /\ pieces' = pieces + 1

TextSpec == TextInit /\ [][Compose]_textVars

----------------------------------------------------------------------------
(* derive_qa_menuentry                                                     *)

\* The lines from the i-th, a menuentry, to the next menuentry.
Body(c, i) ==
    {j \in (i + 1)..Len(c) : \A k \in (i + 1)..j : c[k].kind # "menuentry"}

LinesIn(c, i, kind) == {j \in Body(c, i) : c[j].kind = kind}

Complete(c) ==
    {i \in 1..Len(c) : /\ c[i].kind = "menuentry"
                       /\ LinesIn(c, i, "linux") # {}
                       /\ LinesIn(c, i, "initrd") # {}}

First(S) == CHOOSE i \in S : \A j \in S : i <= j

\* What is left of a sequence without the unwanted.
Without(s, unwanted) ==
    LET left[i \in 0..Len(s)] ==
            IF i = 0 THEN <<>>
            ELSE IF s[i] \in unwanted THEN left[i - 1] ELSE Append(left[i - 1], s[i])
    IN  left[Len(s)]

RemoveQuiet(words) == Without(words, {"quiet"})

\* Mutant: the console is appended to the line.
AppendConsole(words) ==
    IF Contains(words, Console) THEN words ELSE Append(words, Console)

AddSerialConsole(words) ==
    LET at == SelectInSeq(words, LAMBDA w : w = Separator)
    IN  IF Contains(words, Console) THEN words
        ELSE IF at = 0 THEN Append(words, Console)
        ELSE InsertAt(words, at, Console)

Blocked == <<>>

Derive(c) ==
    IF Complete(c) = {} THEN Blocked
    ELSE LET i     == First(Complete(c))
             words == AddSerialConsole(RemoveQuiet(c[First(LinesIn(c, i, "linux"))].words))
         IN  IF Contains(words, "autoinstall") THEN Blocked
             ELSE <<Line("menuentry", <<>>), Line("linux", words), Line("initrd", <<>>)>>

----------------------------------------------------------------------------
(* install_qa_entry_as_default                                             *)

Settings(c) == {line \in ToSet(c) : line.kind = "setting"}

\* Mutant: the entry goes after the production entries.
InstallLast(c, entry) ==
    <<Default("setting", "0"), Timeout("setting")>> \o Without(c, Settings(c)) \o entry

Install(c, entry) ==
    <<Default("setting", "0"), Timeout("setting")>> \o entry \o Without(c, Settings(c))

Patched(c) == Install(c, Derive(c))

----------------------------------------------------------------------------
(* GRUB                                                                    *)

IsDefault(line) ==
    /\ line.kind \in {"setting", "nested"}
    /\ line.words # <<>> /\ line.words[1] = "default"

\* The default a configuration leaves in force: the last one it sets.
DefaultOf(c) ==
    LET at == SelectLastInSeq(c, IsDefault) IN IF at = 0 THEN "0" ELSE c[at].words[2]

\* The kernel command line of the n-th menu entry, if it has one.
CommandLine(c, n) ==
    LET entries == {i \in 1..Len(c) : c[i].kind = "menuentry"}
        nth == {i \in entries : Cardinality({k \in entries : k < i}) = n}
    IN  IF nth = {} \/ LinesIn(c, First(nth), "linux") = {} THEN <<"nothing">>
        ELSE c[First(LinesIn(c, First(nth), "linux"))].words

Booted(c) == CommandLine(c, IF DefaultOf(c) = "0" THEN 0 ELSE 1)

----------------------------------------------------------------------------
(* Properties                                                              *)

Derivable == Derive(cfg) # Blocked

Before(words, a, b) ==
    \E i \in 1..Len(words) :
        words[i] = a /\ \A j \in 1..(i - 1) : words[j] # b

\* What GRUB boots from a patched configuration that sets no default in an
\* indented line (the pattern at qa_boot.py:289 leaves those alone, and they
\* come after the prelude): the derived entry, with a serial console, not quiet, and
\* nothing that installs.
QaEntryIsBooted ==
    (Derivable /\ \A i \in 1..Len(cfg) : cfg[i].kind # "nested") =>
        /\ Booted(Patched(cfg)) = Derive(cfg)[2].words
        /\ Contains(Booted(Patched(cfg)), Console)
        /\ ~Contains(Booted(Patched(cfg)), "quiet")
        /\ ~Contains(Booted(Patched(cfg)), "autoinstall")

\* The console reaches the kernel, in front of the separator, unless the
\* production entry itself carried it: qa_boot.py:232 then leaves the line as
\* it is, even with the token behind the separator.
ConsoleReachesKernel ==
    Derivable =>
        LET line == cfg[First(LinesIn(cfg, First(Complete(cfg)), "linux"))].words
        IN  Contains(line, Console) \/ Before(Derive(cfg)[2].words, Console, Separator)
=============================================================================
