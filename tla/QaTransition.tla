---------------------------- MODULE QaTransition ----------------------------
(***************************************************************************)
(* serein.distribution.qa_boot.transition_to_qa_in_place: patch the GRUB   *)
(* configuration of an extraction tree, refresh its line in md5sum.txt,    *)
(* and prove by hashing everything else before and after that nothing else *)
(* changed.  File modes are widened for each write and put back.  Any      *)
(* system call may fail, and the process may be killed anywhere; another   *)
(* process may change a file of the tree meanwhile.                        *)
(***************************************************************************)
EXTENDS Naturals

CONSTANTS Layouts,   \* how the first GRUB candidate can be found in the tree
          Texts,     \* what its configuration can hold
          Catalogs   \* what md5sum.txt can be

ASSUME ShapesAssumption ==
    /\ Layouts \subseteq {"none", "regular", "linkInside", "linkOutside"}
    /\ Texts \subseteq {"derivable", "noEntry", "autoinstall", "undecodable"}
    /\ Catalogs \subseteq {"absent", "listed", "unlisted", "linkInside", "linkOutside"}

VARIABLES
    layout, text, catalog,  \* the tree as it was extracted
    pc,        \* next statement
    grub,      \* content of the GRUB configuration: "production", "qa", "torn"
    listed,    \* content whose md5 md5sum.txt lists for it
    mode,      \* file -> is its owner-write bit set?
    refused,   \* files whose mode could not be put back
    original,  \* modes as extracted
    before,    \* what the first hash pass saw
    other,     \* the protected files: "intact" or "changed"
    outside,   \* files beyond the extraction root
    result     \* how the call ended

tree == <<layout, text, catalog, original>>
vars == <<tree, pc, grub, listed, mode, refused, before, other, outside, result>>

Files == {"grub", "catalog"}

Init ==
    /\ layout \in Layouts /\ text \in Texts /\ catalog \in Catalogs
    /\ pc = "discover"
    /\ grub = "production" /\ listed = "production"
    /\ original \in [Files -> BOOLEAN] /\ mode = original /\ refused = {}
    /\ before = [other |-> "unread", grub |-> "unread", listed |-> "unread"]
    /\ other = "intact" /\ outside = "intact"
    /\ result = "none"

----------------------------------------------------------------------------
End(how) == pc' = "done" /\ result' = how
GoTo(label) == pc' = label /\ UNCHANGED result

\* discover_grub_config: is_file() follows a symbolic link.
Discover ==
    /\ pc = "discover"
    /\ IF layout = "none" THEN End("blocked") ELSE GoTo("hashBefore")
    /\ UNCHANGED <<tree, grub, listed, mode, refused, before, other, outside>>

\* _protected_file_manifest leaves out two paths, not the files they lead to:
\* the target of a link inside the tree is hashed under its own path.
HashPass == [other |-> other,
             grub |-> IF layout = "linkInside" THEN grub ELSE "excluded",
             listed |-> IF catalog = "linkInside" THEN listed ELSE "excluded"]

HashBefore ==
    /\ pc = "hashBefore"
    /\ before' = HashPass
    /\ GoTo("confine")
    /\ UNCHANGED <<tree, grub, listed, mode, refused, other, outside>>

ConfineGrub ==
    /\ pc = "confine"
    /\ IF layout = "linkOutside" THEN End("blocked") ELSE GoTo("derive")
    /\ UNCHANGED <<tree, grub, listed, mode, refused, before, other, outside>>

\* read_text and derive_qa_menuentry.
DeriveEntry ==
    /\ pc = "derive"
    /\ CASE text = "derivable"   -> GoTo("unlockGrub")
         [] text = "undecodable" -> End("raised")
         [] OTHER                -> End("blocked")
    /\ UNCHANGED <<tree, grub, listed, mode, refused, before, other, outside>>

\* _temporarily_owner_writable: enter, and leave on every path.  Leaving is a
\* chmod of its own, made whether or not the mode was widened.
Unlock(file, at, next) ==
    /\ pc = at
    /\ mode' = [mode EXCEPT ![file] = TRUE]
    /\ GoTo(next)
    /\ UNCHANGED <<tree, grub, listed, refused, before, other, outside>>

Lock(file, at, next) ==
    /\ pc = at
    /\ mode' = [mode EXCEPT ![file] = original[file]]
    /\ IF result = "none" THEN GoTo(next) ELSE pc' = "done" /\ UNCHANGED result
    /\ UNCHANGED <<tree, grub, listed, refused, before, other, outside>>

\* That chmod fails: its exception takes the place of whatever was under way.
Refuse(file, at) ==
    /\ pc = at
    /\ refused' = refused \cup {file}
    /\ End("raised")
    /\ UNCHANGED <<tree, grub, listed, mode, before, other, outside>>

UnlockGrub == Unlock("grub", "unlockGrub", "writeGrub")

\* Mutant: a write that fails blocks the QA build instead of failing it.
WriteGrubOrBlock ==
    /\ pc = "writeGrub"
    /\ pc' = "lockGrub"
    /\ \/ grub' = "qa" /\ UNCHANGED result
       \/ grub' \in {grub, "torn"} /\ result' = "blocked"
    /\ outside' = IF layout = "linkOutside" THEN "changed" ELSE outside
    /\ UNCHANGED <<tree, listed, mode, refused, before, other>>

\* A write leaves the new content, or raises with the file cut short; the
\* context manager then runs its finally clause before the exception goes on.
WriteGrub ==
    /\ pc = "writeGrub"
    /\ pc' = "lockGrub"
    /\ \/ grub' = "qa" /\ UNCHANGED result
       \/ grub' \in {grub, "torn"} /\ result' = "raised"
    /\ outside' = IF layout = "linkOutside" THEN "changed" ELSE outside
    /\ UNCHANGED <<tree, listed, mode, refused, before, other>>

\* Mutant: the mode is put back only after a write that succeeded.
LockGrubOnSuccess ==
    /\ pc = "lockGrub"
    /\ mode' = IF result = "none" THEN [mode EXCEPT !["grub"] = original["grub"]] ELSE mode
    /\ IF result = "none" THEN GoTo("catalog") ELSE pc' = "done" /\ UNCHANGED result
    /\ UNCHANGED <<tree, grub, listed, refused, before, other, outside>>

LockGrub == Lock("grub", "lockGrub", "catalog")

\* update_checksum_catalog_if_present, up to its write.
ReadCatalog ==
    /\ pc = "catalog"
    /\ CASE catalog = "linkOutside"              -> End("blocked")
         [] catalog \in {"listed", "linkInside"} -> GoTo("unlockCatalog")
         [] OTHER                                -> GoTo("hashAfter")
    /\ UNCHANGED <<tree, grub, listed, mode, refused, before, other, outside>>

UnlockCatalog == Unlock("catalog", "unlockCatalog", "writeCatalog")

\* Mutant: the line keeps the md5 that was computed before the patch.
WriteCatalogUnchanged ==
    /\ pc = "writeCatalog"
    /\ pc' = "lockCatalog"
    /\ UNCHANGED <<tree, grub, listed, mode, refused, before, other, outside, result>>

\* The md5 is that of the GRUB configuration as it is on disk now.
WriteCatalog ==
    /\ pc = "writeCatalog"
    /\ pc' = "lockCatalog"
    /\ \/ listed' = grub /\ UNCHANGED result
       \/ listed' \in {listed, "torn"} /\ result' = "raised"
    /\ UNCHANGED <<tree, grub, mode, refused, before, other, outside>>

LockCatalog == Lock("catalog", "lockCatalog", "hashAfter")

\* Mutant: only the named protected files are compared, links not followed.
HashAfterByName ==
    /\ pc = "hashAfter"
    /\ IF HashPass.other = before.other THEN End("ok") ELSE End("unsafe")
    /\ UNCHANGED <<tree, grub, listed, mode, refused, before, other, outside>>

HashAfter ==
    /\ pc = "hashAfter"
    /\ IF HashPass = before THEN End("ok") ELSE End("unsafe")
    /\ UNCHANGED <<tree, grub, listed, mode, refused, before, other, outside>>

\* Any other system call raises (OSError): reading, hashing, or the chmod that
\* would widen a mode.
Raise ==
    /\ pc \in {"discover", "hashBefore", "confine", "derive", "unlockGrub", "catalog",
               "unlockCatalog", "hashAfter"}
    /\ End("raised")
    /\ UNCHANGED <<tree, grub, listed, mode, refused, before, other, outside>>

\* The process is killed.
Kill ==
    /\ pc # "done"
    /\ End("killed")
    /\ grub' \in IF pc = "writeGrub" THEN {grub, "torn"} ELSE {grub}
    /\ listed' \in IF pc = "writeCatalog" THEN {listed, "torn"} ELSE {listed}
    /\ UNCHANGED <<tree, mode, refused, before, other, outside>>

\* Something else writes a protected file of the tree.
Tamper ==
    /\ pc # "done" /\ other = "intact"
    /\ other' = "changed"
    /\ UNCHANGED <<tree, pc, grub, listed, mode, refused, before, outside, result>>

Transition ==
    \/ Discover \/ HashBefore \/ ConfineGrub \/ DeriveEntry
    \/ UnlockGrub \/ WriteGrub \/ LockGrub
    \/ ReadCatalog \/ UnlockCatalog \/ WriteCatalog \/ LockCatalog
    \/ HashAfter

Next ==
    \/ Transition \/ Raise
    \/ Refuse("grub", "lockGrub") \/ Refuse("catalog", "lockCatalog")
    \/ Kill \/ Tamper

Spec == Init /\ [][Next]_vars

----------------------------------------------------------------------------
(* Properties                                                              *)

\* The transition is called done only over a tree in which, between the two
\* hash passes, no file but the GRUB configuration itself and its catalog
\* changed: no protected one, and no file a GRUB path merely links to.  On the
\* way there, done or not, it writes to nothing beyond the extraction root.
DoneMeansNothingElseChanged ==
    /\ outside = "intact"
    /\ result = "ok" => /\ other = before.other
                        /\ layout = "regular" /\ catalog # "linkInside"
                        /\ grub = "qa"

\* A done transition leaves no stale checksum: what the catalog lists for the
\* GRUB configuration is what it now holds.
CatalogIsFresh == (result = "ok" /\ catalog = "listed") => listed = grub

\* qa_boot.py:106 promises the exact mode back "even if the body raises".  A
\* transition that ends by returning, or with one of its own errors, leaves
\* every file in the mode it was extracted with; one that ends by a failing
\* system call does too, but for a file whose very restoring failed, and such
\* a failure is never swallowed.  Only a kill leaves a file writable otherwise.
ModesComeBack ==
    pc = "done" =>
        /\ result \in {"ok", "unsafe", "blocked"} => mode = original
        /\ result # "killed" => \A file \in Files \ refused : mode[file] = original[file]
        /\ refused # {} => result = "raised"

\* A blocked transition, after which the build still counts as finished, leaves
\* both files as they were extracted.  One case is left: a catalog that leads
\* outside is noticed only after the patch (qa_boot.py:307), and then the
\* configuration is the QA one, whole, under the production checksum.
BlockedLeavesWholeFiles ==
    result = "blocked" =>
        /\ listed = "production"
        /\ grub = "production" \/ (grub = "qa" /\ catalog = "linkOutside")
=============================================================================
