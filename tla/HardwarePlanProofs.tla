------------------------- MODULE HardwarePlanProofs -------------------------
(***************************************************************************)
(* Theorems about HardwarePlan, for every set of machines, any number of   *)
(* power supplies and cards, and any number of changes.                    *)
(***************************************************************************)
EXTENDS HardwarePlan, TLAPS, FiniteSetTheorems

WellFormed(x) == x \in Machine /\ Coherent(x)

----------------------------------------------------------------------------
(* A machine stays one                                                     *)

\* The fields of what is read, by name.
LEMMA FieldsAre ==
    Fields = {"ram", "supplies", "virt", "current", "avail", "usr", "etc", "zdev",
              "disks", "ppd", "cards", "nvmod", "zctl"}
BY DEF Fields, Reads, ToSet

\* What a directory is.
LEMMA DirectoryIs ==
    ASSUME NEW K, NEW c
    PROVE  c \in Directory(K) <=> /\ c = [n \in DOMAIN c |-> c[n]]
                                  /\ DOMAIN c \subseteq 1..MaxEntries
                                  /\ \A n \in DOMAIN c : c[n] \in K
<1>1. ASSUME c \in Directory(K)
      PROVE  /\ c = [n \in DOMAIN c |-> c[n]] /\ DOMAIN c \subseteq 1..MaxEntries
             /\ \A n \in DOMAIN c : c[n] \in K
  <2>1. PICK names \in SUBSET (1..MaxEntries) : c \in [names -> K]
    BY <1>1 DEF Directory
  <2>2. QED
    BY <2>1
<1>2. ASSUME c = [n \in DOMAIN c |-> c[n]], DOMAIN c \subseteq 1..MaxEntries,
             \A n \in DOMAIN c : c[n] \in K
      PROVE  c \in Directory(K)
  <2>1. c \in [DOMAIN c -> K]
    BY <1>2
  <2>2. QED
    BY <1>2, <2>1 DEF Directory
<1>3. QED
  BY <1>1, <1>2

\* Two directories that differ under one name at most.
DifferAt(c, d, k) ==
    /\ \A n : n # k => (n \in DOMAIN c <=> n \in DOMAIN d)
    /\ \A n \in DOMAIN c \ {k} : c[n] = d[n]

\* An entry put into a directory, or another one under a name that is there.
LEMMA WithIs ==
    ASSUME NEW K, NEW c \in Directory(K), NEW k \in 1..MaxEntries, NEW kind \in K
    PROVE  /\ With(c, k, kind) \in Directory(K) /\ DifferAt(c, With(c, k, kind), k)
           /\ DOMAIN With(c, k, kind) = DOMAIN c \cup {k} /\ With(c, k, kind)[k] = kind
<1>1. DOMAIN c \subseteq 1..MaxEntries /\ \A n \in DOMAIN c : c[n] \in K
  BY DirectoryIs
<1>2. With(c, k, kind) = [n \in DOMAIN c \cup {k} |-> IF n = k THEN kind ELSE c[n]]
  BY DEF With
<1>3. QED
  BY <1>1, <1>2, DirectoryIs DEF DifferAt

\* An entry taken out of a directory.
LEMMA WithoutIs ==
    ASSUME NEW K, NEW c \in Directory(K), NEW k
    PROVE  /\ Without(c, k) \in Directory(K) /\ DifferAt(c, Without(c, k), k)
           /\ DOMAIN Without(c, k) = DOMAIN c \ {k}
<1>1. DOMAIN c \subseteq 1..MaxEntries /\ \A n \in DOMAIN c : c[n] \in K
  BY DirectoryIs
<1>2. Without(c, k) = [n \in DOMAIN c \ {k} |-> c[n]]
  BY DEF Without, Restrict
<1>3. QED
  BY <1>1, <1>2, DirectoryIs DEF DifferAt

\* A change of the power supplies is one of three: in place, a new one, one gone.
LEMMA SupplyChangeIs ==
    ASSUME NEW s \in Directory(DOMAIN Supplies), NEW t \in SupplyChange(s)
    PROVE  /\ t \in Directory(DOMAIN Supplies)
           /\ \E k : /\ DifferAt(s, t, k)
                     /\ \/ /\ k \in DOMAIN s /\ k \in DOMAIN t
                           /\ s[k] # "battery" /\ t[k] \in {"online", "offline"}
                        \/ k \notin DOMAIN s /\ k \in DOMAIN t
                        \/ k \in DOMAIN s /\ k \notin DOMAIN t
<1>1. DOMAIN s \subseteq 1..MaxEntries /\ {"battery", "online", "offline"} \subseteq DOMAIN Supplies
  BY DirectoryIs DEF Supplies
<1>2. CASE t \in {With(s, n, kind) : n \in {n \in DOMAIN s : s[n] # "battery"},
                                     kind \in {"online", "offline"}}
  <2>1. PICK k \in DOMAIN s, kind \in {"online", "offline"} :
                s[k] # "battery" /\ t = With(s, k, kind)
    BY <1>2
  <2>2. k \in 1..MaxEntries /\ kind \in DOMAIN Supplies
    BY <1>1, <2>1
  <2>3. /\ t \in Directory(DOMAIN Supplies) /\ DifferAt(s, t, k)
        /\ DOMAIN t = DOMAIN s \cup {k} /\ t[k] = kind
    BY <2>1, <2>2, WithIs
  <2>4. QED
    BY <2>1, <2>3
<1>3. CASE t \in {With(s, n, kind) : n \in (1..MaxEntries) \ DOMAIN s,
                                     kind \in {"battery", "online"}}
  <2>1. PICK k \in (1..MaxEntries) \ DOMAIN s, kind \in {"battery", "online"} :
                t = With(s, k, kind)
    BY <1>3
  <2>2. k \in 1..MaxEntries /\ kind \in DOMAIN Supplies
    BY <1>1, <2>1
  <2>3. t \in Directory(DOMAIN Supplies) /\ DifferAt(s, t, k) /\ DOMAIN t = DOMAIN s \cup {k}
    BY <2>1, <2>2, WithIs
  <2>4. QED
    BY <2>1, <2>3
<1>4. CASE t \in {Without(s, n) : n \in DOMAIN s}
  <2>1. PICK k \in DOMAIN s : t = Without(s, k)
    BY <1>4
  <2>2. t \in Directory(DOMAIN Supplies) /\ DifferAt(s, t, k) /\ DOMAIN t = DOMAIN s \ {k}
    BY <2>1, WithoutIs
  <2>3. QED
    BY <2>1, <2>2
<1>5. QED
  BY <1>2, <1>3, <1>4 DEF SupplyChange

\* A change of the cards: an NVIDIA card more, or a card less that is not the
\* boot display.
LEMMA CardChangeIs ==
    ASSUME NEW c \in Directory(DOMAIN Cards), NEW d \in CardChange(c)
    PROVE  /\ d \in Directory(DOMAIN Cards)
           /\ \E k : /\ DifferAt(c, d, k)
                     /\ \/ k \notin DOMAIN c /\ k \in DOMAIN d /\ d[k] = "nvidia"
                        \/ k \in DOMAIN c /\ k \notin DOMAIN d /\ ~Cards[c[k]].boot
<1>1. CASE d \in {With(c, n, "nvidia") : n \in (1..MaxEntries) \ DOMAIN c}
  <2>1. PICK k \in (1..MaxEntries) \ DOMAIN c : d = With(c, k, "nvidia")
    BY <1>1
  <2>2. "nvidia" \in DOMAIN Cards
    BY DEF Cards
  <2>3. /\ d \in Directory(DOMAIN Cards) /\ DifferAt(c, d, k)
        /\ DOMAIN d = DOMAIN c \cup {k} /\ d[k] = "nvidia"
    BY <2>1, <2>2, WithIs
  <2>4. QED
    BY <2>1, <2>3
<1>2. CASE d \in {Without(c, n) : n \in {n \in DOMAIN c : ~Cards[c[n]].boot}}
  <2>1. PICK k \in DOMAIN c : ~Cards[c[k]].boot /\ d = Without(c, k)
    BY <1>2
  <2>2. d \in Directory(DOMAIN Cards) /\ DifferAt(c, d, k) /\ DOMAIN d = DOMAIN c \ {k}
    BY <2>1, WithoutIs
  <2>3. QED
    BY <2>1, <2>2
<1>3. QED
  BY <1>1, <1>2 DEF CardChange

\* One field of a machine is set at a time.
LEMMA FieldsSet ==
    ASSUME NEW x \in Machine
    PROVE  /\ \A s \in Directory(DOMAIN Supplies) : [x EXCEPT !.supplies = s] \in Machine
           /\ \A c \in Directory(DOMAIN Cards) : [x EXCEPT !.cards = c] \in Machine
           /\ \A b \in BOOLEAN : [x EXCEPT !.nvmod = b] \in Machine
           /\ \A b \in BOOLEAN : [x EXCEPT !.ppd = b] \in Machine
           /\ \A b \in BOOLEAN : [x EXCEPT !.zdev = b] \in Machine
           /\ \A t \in ConfContents : [x EXCEPT !.usr = t] \in Machine
           /\ \A t \in ConfContents : [x EXCEPT !.etc = t] \in Machine
           /\ \A e \in Preferences \cup {None} : [x EXCEPT !.current = e] \in Machine
BY DEF Machine

\* The fields that a change of the drivers sets together.
LEMMA DriversSet ==
    ASSUME NEW x \in Machine
    PROVE  /\ \A z \in BOOLEAN : [x EXCEPT !.zctl = z, !.zdev = z] \in Machine
           /\ \A a \in SUBSET Preferences, e \in Preferences \cup {None} :
                 [x EXCEPT !.avail = a, !.current = e] \in Machine
BY DEF Machine

\* With other cards a machine is well-formed that has one boot display at most.
LEMMA CardsStayCoherent ==
    ASSUME NEW x, WellFormed(x), NEW c \in CardChange(x.cards)
    PROVE  WellFormed([x EXCEPT !.cards = c])
<1> DEFINE y == [x EXCEPT !.cards = c]
<1>1. x \in Machine /\ Coherent(x) /\ x.cards \in Directory(DOMAIN Cards)
  BY DEF WellFormed, Machine
<1>2. PICK k : /\ DifferAt(x.cards, c, k)
               /\ \/ k \notin DOMAIN x.cards /\ k \in DOMAIN c /\ c[k] = "nvidia"
                  \/ k \in DOMAIN x.cards /\ k \notin DOMAIN c
  BY <1>1, CardChangeIs
<1>3. y \in Machine
  BY <1>1, CardChangeIs, FieldsSet
<1>4. y.cards = c /\ y.current = x.current /\ y.avail = x.avail
  BY <1>1 DEF Machine
<1> HIDE DEF y
<1>5. \A n \in DOMAIN c : Cards[c[n]].boot => n \in DOMAIN x.cards /\ c[n] = x.cards[n]
  <2>1. ~Cards["nvidia"].boot
    BY DEF Cards
  <2>2. QED
    BY <1>2, <2>1 DEF DifferAt
<1>6. Coherent(y)
  BY <1>1, <1>4, <1>5 DEF Coherent
<1>7. QED
  BY <1>3, <1>6 DEF WellFormed, y

\* Where the cards, the preferences and the current one stay, so does coherence.
LEMMA StaysCoherent ==
    ASSUME NEW x, WellFormed(x), NEW y \in Machine,
           y.cards = x.cards, y.current = x.current, y.avail = x.avail
    PROVE  WellFormed(y)
BY DEF WellFormed, Coherent

\* A change of the machine leaves a machine.
LEMMA StaysMachine ==
    ASSUME NEW x, WellFormed(x), NEW y \in OneThing(x) \cup DriverChange(x)
    PROVE  WellFormed(y)
<1>0. x \in Machine /\ Coherent(x)
  BY DEF WellFormed
<1>1. CASE y \in {[x EXCEPT !.supplies = s] : s \in SupplyChange(x.supplies)}
  <2>1. PICK s \in SupplyChange(x.supplies) : y = [x EXCEPT !.supplies = s]
    BY <1>1
  <2>2. x.supplies \in Directory(DOMAIN Supplies)
    BY <1>0 DEF Machine
  <2>3. y \in Machine
    BY <1>0, <2>1, <2>2, SupplyChangeIs, FieldsSet
  <2>4. y.cards = x.cards /\ y.current = x.current /\ y.avail = x.avail
    BY <1>0, <2>1 DEF Machine
  <2>5. QED
    BY <2>3, <2>4, StaysCoherent
<1>2. CASE y \in {[x EXCEPT !.nvmod = ~@], [x EXCEPT !.ppd = ~@], [x EXCEPT !.zdev = FALSE]}
  <2>1. x.ppd \in BOOLEAN /\ x.nvmod \in BOOLEAN
    BY <1>0 DEF Machine
  <2>2. y \in Machine
    BY <1>0, <1>2, <2>1, FieldsSet
  <2>3. y.cards = x.cards /\ y.current = x.current /\ y.avail = x.avail
    BY <1>0, <1>2 DEF Machine
  <2>4. QED
    BY <2>2, <2>3, StaysCoherent
<1>3. CASE y \in {[x EXCEPT !.usr = t] : t \in {"absent", "section"}}
  <2>1. PICK t \in {"absent", "section"} : y = [x EXCEPT !.usr = t]
    BY <1>3
  <2>2. y \in Machine
    BY <1>0, <2>1, FieldsSet DEF ConfContents
  <2>3. y.cards = x.cards /\ y.current = x.current /\ y.avail = x.avail
    BY <1>0, <2>1 DEF Machine
  <2>4. QED
    BY <2>2, <2>3, StaysCoherent
<1>4. CASE y \in {[x EXCEPT !.etc = t] : t \in {"absent", "empty", "section"}}
  <2>1. PICK t \in {"absent", "empty", "section"} : y = [x EXCEPT !.etc = t]
    BY <1>4
  <2>2. y \in Machine
    BY <1>0, <2>1, FieldsSet DEF ConfContents
  <2>3. y.cards = x.cards /\ y.current = x.current /\ y.avail = x.avail
    BY <1>0, <2>1 DEF Machine
  <2>4. QED
    BY <2>2, <2>3, StaysCoherent
<1>5. CASE y \in {[x EXCEPT !.current = e] : e \in x.avail}
  <2>1. PICK e \in x.avail : y = [x EXCEPT !.current = e]
    BY <1>5
  <2>2. e \in Preferences
    BY <1>0 DEF Machine
  <2>3. y \in Machine
    BY <1>0, <2>1, <2>2, FieldsSet
  <2>4. y.cards = x.cards /\ y.current = e /\ y.avail = x.avail
    BY <1>0, <2>1 DEF Machine
  <2>5. QED
    BY <1>0, <2>3, <2>4 DEF WellFormed, Coherent
<1>6. CASE y \in {[x EXCEPT !.cards = c] : c \in CardChange(x.cards)}
  BY <1>6, CardsStayCoherent
<1>8. CASE y \in {[x EXCEPT !.zctl = z, !.zdev = z] : z \in BOOLEAN}
  <2>1. PICK z \in BOOLEAN : y = [x EXCEPT !.zctl = z, !.zdev = z]
    BY <1>8
  <2>2. y \in Machine
    BY <1>0, <2>1, DriversSet
  <2>3. y.cards = x.cards /\ y.current = x.current /\ y.avail = x.avail
    BY <1>0, <2>1 DEF Machine
  <2>4. QED
    BY <2>2, <2>3, StaysCoherent
<1>9. ASSUME NEW a \in SUBSET Preferences, NEW e \in Preferences \cup {None},
             e \in a \cup {None}, y = [x EXCEPT !.avail = a, !.current = e]
      PROVE  WellFormed(y)
  <2>1. y \in Machine
    BY <1>0, <1>9, DriversSet
  <2>2. y.cards = x.cards /\ y.current = e /\ y.avail = a
    BY <1>0, <1>9 DEF Machine
  <2>3. QED
    BY <1>0, <1>9, <2>1, <2>2 DEF WellFormed, Coherent
<1>10. CASE y \in {[x EXCEPT !.avail = {}, !.current = None],
                   [x EXCEPT !.avail = {"default", "performance"}, !.current = "default"]}
  <2>1. CASE y = [x EXCEPT !.avail = {}, !.current = None]
    BY <1>9, <2>1
  <2>2. CASE y = [x EXCEPT !.avail = {"default", "performance"}, !.current = "default"]
    <3>1. {"default", "performance"} \in SUBSET Preferences /\ "default" \in Preferences
      BY DEF Preferences
    <3>2. QED
      BY <1>9, <2>2, <3>1
  <2>3. QED
    BY <1>10, <2>1, <2>2
<1>11. QED
  BY <1>1, <1>2, <1>3, <1>4, <1>5, <1>6, <1>8, <1>10 DEF OneThing, DriverChange

----------------------------------------------------------------------------
(* What is decided of one machine                                          *)

\* Reading everything at once gives the machine's own fields, and shows its
\* directories.
LEMMA AllRead ==
    ASSUME NEW x
    PROVE  /\ AllOf(x).ram = x.ram /\ AllOf(x).virt = x.virt /\ AllOf(x).current = x.current
           /\ AllOf(x).avail = x.avail /\ AllOf(x).usr = x.usr /\ AllOf(x).etc = x.etc
           /\ AllOf(x).zdev = x.zdev /\ AllOf(x).disks = x.disks /\ AllOf(x).ppd = x.ppd
           /\ AllOf(x).nvmod = x.nvmod /\ AllOf(x).zctl = x.zctl
           /\ AllOf(x).supplies = Shown(x, "supplies") /\ AllOf(x).cards = Shown(x, "cards")
BY FieldsAre DEF AllOf, Directories

\* What is shown of the cards, and of the power supplies.
LEMMA CardsShown ==
    ASSUME NEW x
    PROVE  /\ DOMAIN Shown(x, "cards") = DOMAIN x.cards
           /\ \A n \in DOMAIN x.cards :
                 /\ Shown(x, "cards")[n].vendor = Cards[x.cards[n]].vendor
                 /\ Shown(x, "cards")[n].class = Cards[x.cards[n]].class
                 /\ Shown(x, "cards")[n].boot = Cards[x.cards[n]].boot
BY DEF Shown, Content, Files, Entries

\* The same directory is shown alike.
LEMMA ShownAlike ==
    ASSUME NEW x, NEW y, NEW d, x[d] = y[d]
    PROVE  Shown(x, d) = Shown(y, d)
BY DEF Shown, Content

\* The plan, action by action.
LEMMA PlanParts ==
    ASSUME NEW p, NEW g
    PROVE  LET none == p = "battery" /\ ~HasBattery(g.supplies)
           IN  /\ PlanOf(p, g)["cpu.epp"] = IF none THEN None ELSE CpuAction(p, g)
               /\ PlanOf(p, g)["power.ppd_profile"]
                     = IF none THEN None ELSE PowerProfileAction(p, g)
               /\ PlanOf(p, g)["memory.zram"] = IF none THEN None ELSE ZramAction(g)
               /\ PlanOf(p, g)["storage"] = IF none THEN None ELSE StorageAction(g)
               /\ PlanOf(p, g)["gpu"] = IF none THEN None ELSE GpuAction(p, g)
BY DEF PlanOf, ActionIds

\* build_plan decides each action once: a plan is a function of the action.
LEMMA PlanIsFunction ==
    ASSUME NEW p, NEW g
    PROVE  PlanOf(p, g) = [id \in ActionIds |-> PlanOf(p, g)[id]]
<1> DEFINE Part(id) ==
        IF p = "battery" /\ ~HasBattery(g.supplies) THEN None
        ELSE CASE id = "cpu.epp"           -> CpuAction(p, g)
               [] id = "power.ppd_profile" -> PowerProfileAction(p, g)
               [] id = "memory.zram"       -> ZramAction(g)
               [] id = "storage"           -> StorageAction(g)
               [] id = "gpu"               -> GpuAction(p, g)
<1>1. PlanOf(p, g) = [id \in ActionIds |-> Part(id)]
  BY DEF PlanOf
<1> HIDE DEF Part
<1>2. QED
  BY <1>1

\* A preference that is wanted is on the list and available.
LEMMA WantedIsAvailable ==
    ASSUME NEW p, NEW g, Wanted(p, g) # None
    PROVE  /\ Wanted(p, g) \in g.avail
           /\ \E i \in DOMAIN EppCandidates(p, g.supplies) :
                 Wanted(p, g) = EppCandidates(p, g.supplies)[i]
<1> DEFINE candidates == EppCandidates(p, g.supplies)
           available  == {i \in DOMAIN candidates : candidates[i] \in g.avail}
<1>1. DOMAIN candidates \subseteq 1..3
  BY DEF EppCandidates
<1> HIDE DEF candidates
<1>2. available # {} /\ Wanted(p, g) = candidates[Min(available)]
  BY DEF Wanted, candidates
<1>3. Min(available) \in available
  <2>1. \E i \in available : \A j \in available : i <= j
    BY <1>1, <1>2
  <2>2. QED
    BY <2>1 DEF Min
<1>4. QED
  BY <1>2, <1>3 DEF candidates

\* The first preference on the list, where it is available, is the one wanted.
LEMMA FirstIsWanted ==
    ASSUME NEW p, NEW g, NEW e \in g.avail,
           1 \in DOMAIN EppCandidates(p, g.supplies), EppCandidates(p, g.supplies)[1] = e
    PROVE  Wanted(p, g) = e
<1> DEFINE candidates == EppCandidates(p, g.supplies)
           available  == {i \in DOMAIN candidates : candidates[i] \in g.avail}
<1>1. DOMAIN candidates \subseteq 1..3
  BY DEF EppCandidates
<1>2. 1 \in available /\ \A j \in available : 1 <= j
  BY <1>1
<1> HIDE DEF candidates
<1>3. Min(available) = 1
  <2>1. \A i \in available : (\A j \in available : i <= j) => i = 1
    BY <1>1, <1>2
  <2>2. QED
    BY <1>2, <2>1 DEF Min
<1>4. QED
  BY <1>2, <1>3 DEF Wanted, candidates

\* What is proposed for the processor is available and not in force.
LEMMA CpuProposal ==
    ASSUME NEW p, NEW g, CpuAction(p, g).status = "APPLY"
    PROVE  /\ ~Virtualized(g.virt) /\ g.avail # {}
           /\ Wanted(p, g) # None /\ CpuAction(p, g).target = Wanted(p, g)
           /\ Wanted(p, g) \in g.avail /\ g.current # Wanted(p, g)
BY WantedIsAvailable DEF CpuAction, Action

\* Where detection says it is sure whether the graphics are hybrid, it is right,
\* and a single card is never called integrated.
LEMMA HighConfidence ==
    ASSUME NEW x, WellFormed(x)
    PROVE  LET read == AllOf(x).cards
           IN  /\ Hybrid(read).confidence = "high" =>
                     ((Hybrid(read).is = "yes") <=> IsHybrid(x.cards))
               /\ ~Several(read) => "integrated" \notin Kinds(read)
<1> DEFINE c == x.cards
           r == Shown(x, "cards")
<1>1. Coherent(x) /\ \A i \in DOMAIN c : c[i] \in DOMAIN Cards
  BY DirectoryIs DEF WellFormed, Machine
<1>2. \A i, j \in DOMAIN c : Cards[c[i]].boot /\ Cards[c[j]].boot => i = j
  BY <1>1 DEF Coherent
<1>3. /\ DOMAIN r = DOMAIN c
      /\ \A i \in DOMAIN c : /\ r[i].vendor = Cards[c[i]].vendor
                            /\ r[i].class = Cards[c[i]].class /\ r[i].boot = Cards[c[i]].boot
  BY CardsShown
<1> HIDE DEF c, r
<1>4. ASSUME Hybrid(r).confidence = "high", IsHybrid(c)
      PROVE  FALSE
  <2>1. PICK i \in DOMAIN c, j \in DOMAIN c :
                Cards[c[i]].is = "integrated" /\ Cards[c[j]].is = "discrete"
    BY <1>4 DEF IsHybrid
  <2>2. i # j /\ Several(r)
    BY <1>3, <2>1 DEF Several
  <2>3. "unknown" \notin Kinds(r) /\ ~({"integrated", "discrete"} \subseteq Kinds(r))
    BY <1>4, <2>2 DEF Hybrid
  <2>4. Classify(r[i], Several(r)) \in Kinds(r) /\ Classify(r[j], Several(r)) \in Kinds(r)
    BY <1>3 DEF Kinds
  <2>5. c[i] = "igpu" /\ Classify(r[i], Several(r)) = "integrated"
    BY <1>1, <1>3, <2>1, <2>2, <2>3, <2>4 DEF Classify, Cards
  <2>6. Classify(r[j], Several(r)) = "integrated"
    BY <1>1, <1>3, <2>1, <2>2, <2>3, <2>4, <2>5 DEF Classify, Cards
  <2>7. Cards[c[i]].boot /\ Cards[c[j]].boot
    BY <1>1, <1>3, <2>1, <2>2, <2>5, <2>6 DEF Classify, Cards
  <2>8. QED
    BY <1>2, <2>2, <2>7
<1>5. Hybrid(r).confidence = "high" => Hybrid(r).is # "yes"
  BY DEF Hybrid
<1>6. ~Several(r) => "integrated" \notin Kinds(r)
  BY DEF Kinds, Classify
<1>7. AllOf(x).cards = r
  BY AllRead DEF r
<1>8. QED
  BY <1>4, <1>5, <1>6, <1>7 DEF c

\* build_plan proposes nothing the capability report calls out of reach.
LEMMA PlanWithinReport ==
    ASSUME NEW x, NEW p
    PROVE  LET pl == PlanOf(p, AllOf(x))
           IN  /\ "cpu.epp" \in Proposals(pl) => Capable(x).cpu_epp_control
               /\ "memory.zram" \in Proposals(pl) => Capable(x).zram_configurable
               /\ "power.ppd_profile" \in Proposals(pl) => Capable(x).power_profile_control
<1> DEFINE g == AllOf(x)
           pl == PlanOf(p, g)
<1>1. /\ g.virt = x.virt /\ g.avail = x.avail /\ g.ppd = x.ppd
      /\ g.zctl = x.zctl /\ g.zdev = x.zdev
  BY AllRead
<1> HIDE DEF g
<1>2. ASSUME "cpu.epp" \in Proposals(pl) PROVE Capable(x).cpu_epp_control
  <2>1. CpuAction(p, g).status = "APPLY"
    BY <1>2, PlanParts DEF Proposals
  <2>2. QED
    BY <1>1, <2>1, CpuProposal DEF Capable
<1>3. ASSUME "memory.zram" \in Proposals(pl) PROVE Capable(x).zram_configurable
  <2>1. ZramAction(g).status = "APPLY"
    BY <1>3, PlanParts DEF Proposals
  <2>2. ZramCapability(g.virt, g.zctl, g.zdev)
    BY <2>1 DEF ZramAction, Action
  <2>3. QED
    BY <1>1, <2>2 DEF Capable
<1>4. ASSUME "power.ppd_profile" \in Proposals(pl) PROVE Capable(x).power_profile_control
  <2>1. PowerProfileAction(p, g).status = "APPLY"
    BY <1>4, PlanParts DEF Proposals
  <2>2. g.ppd
    BY <2>1 DEF PowerProfileAction, Action
  <2>3. QED
    BY <1>1, <2>2 DEF Capable
<1>5. QED
  BY <1>2, <1>3, <1>4 DEF g

\* What an action of a plan is made of.
Statuses == {"APPLY", "NOOP", "SKIP", "BLOCKED", "DONE"}
Targets == Preferences \cup {None, "zram", "balanced", "power-saver"}

\* An action is not the absence of one.
LEMMA NotNone ==
    ASSUME NEW status \in Statuses, NEW target \in Targets
    PROVE  Action(status, target) # None
BY NoneAssumption DEF Statuses, Targets

\* Three of build_plan's decisions are always actions of its vocabulary.
LEMMA DecisionsAreActions ==
    ASSUME NEW p, NEW g, g.avail \subseteq Preferences
    PROVE  /\ \E s \in Statuses, t \in Targets : CpuAction(p, g) = Action(s, t)
           /\ \E s \in Statuses, t \in Targets : PowerProfileAction(p, g) = Action(s, t)
           /\ \E s \in Statuses, t \in Targets : ZramAction(g) = Action(s, t)
<1>1. Wanted(p, g) \in Targets /\ EppCandidates(p, g.supplies)[1] \in Targets
  <2>1. Wanted(p, g) \in Targets
    BY WantedIsAvailable DEF Targets
  <2>2. EppCandidates(p, g.supplies)[1] \in Targets
    BY DEF EppCandidates, Targets, Preferences
  <2>3. QED
    BY <2>1, <2>2
<1>2. \E s \in Statuses, t \in Targets : CpuAction(p, g) = Action(s, t)
  <2>1. None \in Targets
    BY DEF Targets
  <2>2. \A s \in {"SKIP", "BLOCKED", "NOOP", "APPLY"} : s \in Statuses
    BY DEF Statuses
  <2>3. QED
    BY <1>1, <2>1, <2>2 DEF CpuAction
<1>3. \E s \in Statuses, t \in Targets : PowerProfileAction(p, g) = Action(s, t)
  BY DEF PowerProfileAction, Statuses, Targets
<1>4. \E s \in Statuses, t \in Targets : ZramAction(g) = Action(s, t)
  BY DEF ZramAction, Statuses, Targets
<1>5. QED
  BY <1>2, <1>3, <1>4

\* What the doctor says of virtualization, memory and graphics, and the report of
\* a battery and an NVIDIA card, agrees with the plan for the same machine.
LEMMA DoctorSpeaksForPlan ==
    ASSUME NEW x, WellFormed(x), NEW p
    PROVE  LET pl == PlanOf(p, AllOf(x))
           IN  /\ DoctorVirtualization(x) # "FAIL"
               /\ (pl["cpu.epp"] = None) <=> (p = "battery" /\ ~Capable(x).battery_detected)
               /\ pl["memory.zram"] # None =>
                     (DoctorZram(x) # "SKIP" <=> pl["memory.zram"].status = "NOOP")
               /\ DoctorGpu(x) = "WARN" /\ p = "battery" /\ Capable(x).battery_detected =>
                     pl["gpu"].confidence = "low"
               /\ p = "ai" => /\ Capable(x).nvidia_compute_gpu => pl["gpu"].compute
                              /\ pl["gpu"].compute /\ ~x.nvmod => DoctorGpu(x) # "SKIP"
<1> DEFINE g == AllOf(x)
           pl == PlanOf(p, g)
<1>1. /\ g.virt = x.virt /\ g.avail = x.avail /\ g.zdev = x.zdev
      /\ g.usr = x.usr /\ g.etc = x.etc /\ g.nvmod = x.nvmod /\ g.cards = Shown(x, "cards")
      /\ Capable(x).battery_detected = HasBattery(g.supplies)
  BY AllRead DEF Capable
<1>2. g.avail \subseteq Preferences
  BY <1>1 DEF WellFormed, Machine
<1> HIDE DEF g
<1>3. DoctorVirtualization(x) # "FAIL"
  <2>1. Virtualized(x.virt) => CpuAction("balanced", g).status = "SKIP"
    BY <1>1 DEF CpuAction, Action
  <2>2. QED
    BY <2>1 DEF DoctorVirtualization, g
<1>4. (pl["cpu.epp"] = None) <=> (p = "battery" /\ ~Capable(x).battery_detected)
  <2>1. CpuAction(p, g) # None
    BY <1>2, DecisionsAreActions, NotNone
  <2>2. QED
    BY <1>1, <2>1, PlanParts
<1>5. ASSUME pl["memory.zram"] # None
      PROVE  DoctorZram(x) # "SKIP" <=> pl["memory.zram"].status = "NOOP"
  <2>1. pl["memory.zram"] = ZramAction(g)
    BY <1>5, PlanParts
  <2>2. ConfSources(g) = ConfSources(x)
    BY <1>1 DEF ConfSources, ConfFiles
  <2>3. Cardinality({}) = 0
    BY FS_EmptySet
  <2>4. DoctorZram(x) # "SKIP" <=> (x.zdev \/ ConfSources(x) # {})
    BY <2>3 DEF DoctorZram
  <2>5. ZramAction(g).status = "NOOP" <=> (g.zdev \/ ConfSources(g) # {})
    BY DEF ZramAction, Action
  <2>6. QED
    BY <1>1, <2>1, <2>2, <2>4, <2>5
<1>6. ASSUME DoctorGpu(x) = "WARN", p = "battery", Capable(x).battery_detected
      PROVE  pl["gpu"].confidence = "low"
  <2>1. Hybrid(g.cards).is = "unknown" /\ Hybrid(g.cards).confidence = "low"
    BY <1>6 DEF DoctorGpu, Hybrid, g
  <2>2. pl["gpu"] = GpuAction(p, g)
    BY <1>1, <1>6, PlanParts
  <2>3. QED
    BY <1>6, <2>1, <2>2 DEF GpuAction
<1>7. ASSUME p = "ai"
      PROVE  /\ Capable(x).nvidia_compute_gpu => pl["gpu"].compute
             /\ pl["gpu"].compute /\ ~x.nvmod => DoctorGpu(x) # "SKIP"
  <2>1. pl["gpu"].compute <=> "discrete" \in Kinds(g.cards) \/ g.nvmod
    <3>1. pl["gpu"] = GpuAction(p, g)
      BY <1>7, PlanParts
    <3>2. GpuAction(p, g).compute = (p = "ai" /\ ("discrete" \in Kinds(g.cards) \/ g.nvmod))
      BY DEF GpuAction
    <3>3. QED
      BY <1>7, <3>1, <3>2
  <2>2. ASSUME Capable(x).nvidia_compute_gpu PROVE "discrete" \in Kinds(g.cards)
    <3>1. PICK n \in DOMAIN x.cards : Cards[x.cards[n]].vendor = "NVIDIA"
      BY <2>2 DEF Capable, NvidiaPresent
    <3>2. n \in DOMAIN g.cards /\ g.cards[n].vendor = "NVIDIA"
      BY <1>1, <3>1, CardsShown
    <3>3. Classify(g.cards[n], Several(g.cards)) = "discrete"
      BY <3>2 DEF Classify
    <3>4. QED
      BY <3>2, <3>3 DEF Kinds
  <2>3. ASSUME "discrete" \in Kinds(g.cards) PROVE DoctorGpu(x) # "SKIP"
    <3>1. DOMAIN x.cards # {}
      BY <1>1, <2>3, CardsShown DEF Kinds
    <3>2. QED
      BY <3>1 DEF DoctorGpu
  <2>4. QED
    BY <1>1, <2>1, <2>2, <2>3
<1>8. QED
  BY <1>3, <1>4, <1>5, <1>6, <1>7 DEF g

\* What a plan decides by, action by action.
LEMMA CpuDependsOn ==
    ASSUME NEW p, NEW g, NEW h,
           HasBattery(g.supplies) = HasBattery(h.supplies), OnAc(g.supplies) = OnAc(h.supplies),
           g.virt = h.virt, g.avail = h.avail
    PROVE  /\ Wanted(p, g) = Wanted(p, h)
           /\ g.current = h.current => CpuAction(p, g) = CpuAction(p, h)
<1>1. EppCandidates(p, g.supplies) = EppCandidates(p, h.supplies)
  BY DEF EppCandidates
<1>2. QED
  BY <1>1 DEF Wanted, CpuAction

\* The decision on zram goes by six fields of what was read.
LEMMA ZramDependsOn ==
    ASSUME NEW g, NEW h, g.virt = h.virt, g.usr = h.usr, g.etc = h.etc, g.ram = h.ram,
           g.zdev = h.zdev, g.zctl = h.zctl
    PROVE  ZramAction(g) = ZramAction(h)
BY DEF ZramAction, ConfSources, ConfFiles

\* The decisions on the power profile, the disks and the graphics go by five.
LEMMA OthersDependOn ==
    ASSUME NEW p, NEW g, NEW h, g.virt = h.virt, g.disks = h.disks, g.ppd = h.ppd
    PROVE  /\ PowerProfileAction(p, g) = PowerProfileAction(p, h)
           /\ StorageAction(g) = StorageAction(h)
           /\ g.cards = h.cards /\ g.nvmod = h.nvmod => GpuAction(p, g) = GpuAction(p, h)
BY DEF PowerProfileAction, StorageAction, GpuAction

\* A plan carried out on a machine leaves nothing to propose there but the power
\* profile, whose present value the code does not read.
LEMMA CarriedOutSettles ==
    ASSUME NEW x, WellFormed(x), NEW p
    PROVE  Proposals(PlanOf(p, AllOf(CarryAll(x, PlanOf(p, AllOf(x))))))
              \subseteq {"power.ppd_profile"}
<1> DEFINE pl == PlanOf(p, AllOf(x))
           y  == IF "cpu.epp" \in Proposals(pl) THEN Carry(x, pl, "cpu.epp") ELSE x
           z  == IF "memory.zram" \in Proposals(pl) THEN Carry(y, pl, "memory.zram") ELSE y
           g  == AllOf(x)
           h  == AllOf(z)
<1>1. CarryAll(x, pl) = z
  BY DEF CarryAll, Carry
<1>2. x \in Machine
  BY DEF WellFormed
<1>3. /\ g.supplies = Shown(x, "supplies") /\ g.virt = x.virt /\ g.avail = x.avail /\ g.ram = x.ram
      /\ g.zdev = x.zdev /\ g.zctl = x.zctl /\ g.usr = x.usr /\ g.etc = x.etc
      /\ g.current = x.current
  BY AllRead
<1>4. /\ h.supplies = Shown(z, "supplies") /\ h.virt = z.virt /\ h.avail = z.avail /\ h.ram = z.ram
      /\ h.zdev = z.zdev /\ h.zctl = z.zctl /\ h.usr = z.usr /\ h.etc = z.etc
      /\ h.current = z.current
  BY AllRead
<1>5. y = IF "cpu.epp" \in Proposals(pl) THEN [x EXCEPT !.current = Wanted(p, g)] ELSE x
  <2>1. ASSUME "cpu.epp" \in Proposals(pl)
        PROVE  Carry(x, pl, "cpu.epp") = [x EXCEPT !.current = Wanted(p, g)]
    <3>1. pl["cpu.epp"] = CpuAction(p, g) /\ CpuAction(p, g).status = "APPLY"
      BY <2>1, PlanParts DEF Proposals
    <3>2. pl["cpu.epp"].target = Wanted(p, g) /\ Wanted(p, g) \in x.avail
      BY <1>3, <3>1, CpuProposal
    <3>3. QED
      BY <3>2 DEF Carry
  <2>2. QED
    BY <2>1
<1>6. z = IF "memory.zram" \in Proposals(pl) THEN [y EXCEPT !.etc = "section"] ELSE y
  BY DEF Carry
<1> HIDE DEF g, h, y, z, pl
<1>7. /\ Shown(z, "supplies") = Shown(x, "supplies") /\ z.virt = x.virt /\ z.avail = x.avail /\ z.ram = x.ram
      /\ z.zdev = x.zdev /\ z.zctl = x.zctl /\ z.usr = x.usr
      /\ z.etc = (IF "memory.zram" \in Proposals(pl) THEN "section" ELSE x.etc)
      /\ z.current = (IF "cpu.epp" \in Proposals(pl) THEN Wanted(p, g) ELSE x.current)
  <2>1. /\ z.supplies = x.supplies /\ z.virt = x.virt /\ z.avail = x.avail /\ z.ram = x.ram
        /\ z.zdev = x.zdev /\ z.zctl = x.zctl /\ z.usr = x.usr
        /\ z.etc = (IF "memory.zram" \in Proposals(pl) THEN "section" ELSE x.etc)
        /\ z.current = (IF "cpu.epp" \in Proposals(pl) THEN Wanted(p, g) ELSE x.current)
    BY <1>2, <1>5, <1>6 DEF Machine
  <2>2. QED
    BY <2>1, ShownAlike
<1>8. "cpu.epp" \notin Proposals(PlanOf(p, h))
  <2>1. SUFFICES ASSUME "cpu.epp" \in Proposals(PlanOf(p, h)) PROVE FALSE
    OBVIOUS
  <2>2. /\ ~(p = "battery" /\ ~HasBattery(h.supplies))
        /\ CpuAction(p, h) # None /\ CpuAction(p, h).status = "APPLY"
    BY <2>1, PlanParts DEF Proposals
  <2>3. Wanted(p, h) = Wanted(p, g)
    BY <1>3, <1>4, <1>7, CpuDependsOn
  <2>4. h.current # Wanted(p, g)
    BY <2>2, <2>3, CpuProposal
  <2>5. "cpu.epp" \notin Proposals(pl) /\ h.current = g.current
    BY <1>3, <1>4, <1>7, <2>4
  <2>6. CpuAction(p, g) = CpuAction(p, h)
    BY <1>3, <1>4, <1>7, <2>5, CpuDependsOn
  <2>7. pl["cpu.epp"] = CpuAction(p, g)
    BY <1>3, <1>4, <1>7, <2>2, PlanParts DEF pl, g
  <2>8. QED
    BY <2>2, <2>5, <2>6, <2>7 DEF Proposals
<1>9. "memory.zram" \notin Proposals(PlanOf(p, h))
  <2>1. SUFFICES ASSUME "memory.zram" \in Proposals(PlanOf(p, h)) PROVE FALSE
    OBVIOUS
  <2>2. /\ ~(p = "battery" /\ ~HasBattery(h.supplies))
        /\ ZramAction(h) # None /\ ZramAction(h).status = "APPLY"
    BY <2>1, PlanParts DEF Proposals
  <2>3. ConfSources(h) = {}
    BY <2>2 DEF ZramAction, Action
  <2>4. h.etc # "section"
    BY <2>3 DEF ConfSources, ConfFiles
  <2>5. "memory.zram" \notin Proposals(pl) /\ h.etc = g.etc
    BY <1>3, <1>4, <1>7, <2>4
  <2>6. ZramAction(g) = ZramAction(h)
    BY <1>3, <1>4, <1>7, <2>5, ZramDependsOn
  <2>7. pl["memory.zram"] = ZramAction(g)
    BY <1>3, <1>4, <1>7, <2>2, PlanParts DEF pl, g
  <2>8. QED
    BY <2>2, <2>5, <2>6, <2>7 DEF Proposals
<1>10. Proposals(PlanOf(p, h)) \subseteq {"power.ppd_profile"}
  BY <1>8, <1>9 DEF Proposals
<1>11. QED
  BY <1>1, <1>10 DEF h, pl

----------------------------------------------------------------------------
(* Reads of two moments                                                    *)

\* A directory listed and then read file by file across one change: listed
\* before it, each file is of either moment; listed after it, all are of the
\* later one.
ListedBefore(r, d, x, y) ==
    /\ r = [n \in DOMAIN x[d] |-> [file \in Files(d) |-> r[n][file]]]
    /\ \A n \in DOMAIN x[d], file \in Files(d) :
          r[n][file] \in {Content(x, d, n, file), Content(y, d, n, file)}

ReadAcross(r, d, x, y) == r = Shown(y, d) \/ ListedBefore(r, d, x, y)

\* What was read before and after one change of the machine: no field is of a
\* third moment; the zram device is scanned before the control interface and
\* the preference in force before the list.
Mixture(g, x, y) ==
    /\ \A f \in Fields \ Directories : g[f] \in {x[f], y[f]}
    /\ \A d \in Directories : ReadAcross(g[d], d, x, y)
    /\ g.zdev = x.zdev \/ g.zctl = y.zctl
    /\ g.current = x.current \/ g.avail = y.avail

\* A directory that does not change is read as it is.
LEMMA StandsStill ==
    ASSUME NEW d, NEW x, NEW y, x[d] = y[d], NEW r, ReadAcross(r, d, x, y)
    PROVE  r = Shown(x, d)
<1>1. \A n, file : Content(x, d, n, file) = Content(y, d, n, file)
  BY DEF Content
<1>2. Shown(x, d) = Shown(y, d)
  BY ShownAlike
<1>3. CASE ListedBefore(r, d, x, y)
  <2>1. ASSUME NEW n \in DOMAIN x[d], NEW file \in Files(d)
        PROVE  r[n][file] = Content(x, d, n, file)
    <3>1. r[n][file] \in {Content(x, d, n, file), Content(y, d, n, file)}
      BY <1>3 DEF ListedBefore
    <3>2. QED
      BY <1>1, <3>1
  <2>2. r = [n \in DOMAIN x[d] |-> [file \in Files(d) |-> Content(x, d, n, file)]]
    BY <1>3, <2>1 DEF ListedBefore
  <2>3. QED
    BY <2>2 DEF Shown
<1>4. QED
  BY <1>2, <1>3 DEF ReadAcross

\* The state of mains power goes by the adapters whose state was read.
Mains(r) == {i \in DOMAIN r : r[i].type = "Mains" /\ r[i].online # "unread"}

\* Two readings of the supplies decide alike where they agree on those.
LEMMA PowerDependsOn ==
    ASSUME NEW r, NEW s, Mains(r) = Mains(s), \A i \in Mains(r) : r[i].online = s[i].online,
           {i \in DOMAIN r : r[i].type = "Battery"} = {i \in DOMAIN s : s[i].type = "Battery"}
    PROVE  HasBattery(r) = HasBattery(s) /\ OnAc(r) = OnAc(s)
<1>1. HasBattery(r) = HasBattery(s)
  BY DEF HasBattery
<1>2. (\E i \in Mains(r) : (\A j \in Mains(r) : i >= j) /\ r[i].online = "1")
      = (\E i \in Mains(s) : (\A j \in Mains(s) : i >= j) /\ s[i].online = "1")
  OBVIOUS
<1>3. \A t : OnAc(t) = IF Mains(t) = {} THEN None
                       ELSE \E i \in Mains(t) : (\A j \in Mains(t) : i >= j) /\ t[i].online = "1"
  BY DEF OnAc, Mains
<1>4. QED
  BY <1>1, <1>2, <1>3

\* A supply that changes, comes or goes while the directory is read: what is
\* made of them is that of the moment before or of the one after.
LEMMA SuppliesAcross ==
    ASSUME NEW x, x.supplies \in Directory(DOMAIN Supplies),
           NEW y, y.supplies \in SupplyChange(x.supplies), NEW r, ReadAcross(r, "supplies", x, y)
    PROVE  \E s \in {Shown(x, "supplies"), Shown(y, "supplies")} :
              HasBattery(r) = HasBattery(s) /\ OnAc(r) = OnAc(s)
<1> DEFINE a == x.supplies
           b == y.supplies
           X == Shown(x, "supplies")
           Y == Shown(y, "supplies")
<1>1. a \in Directory(DOMAIN Supplies) /\ b \in Directory(DOMAIN Supplies)
  BY SupplyChangeIs
<1>2. PICK k : /\ DifferAt(a, b, k)
               /\ \/ /\ k \in DOMAIN a /\ k \in DOMAIN b
                     /\ a[k] # "battery" /\ b[k] \in {"online", "offline"}
                  \/ k \notin DOMAIN a /\ k \in DOMAIN b
                  \/ k \in DOMAIN a /\ k \notin DOMAIN b
  BY <1>1, SupplyChangeIs
<1>3. (\A n \in DOMAIN a : a[n] \in DOMAIN Supplies) /\ (\A n \in DOMAIN b : b[n] \in DOMAIN Supplies)
  BY <1>1, DirectoryIs
<1>4. /\ X = [n \in DOMAIN a |-> [file \in {"type", "online"} |-> Content(x, "supplies", n, file)]]
      /\ Y = [n \in DOMAIN b |-> [file \in {"type", "online"} |-> Content(y, "supplies", n, file)]]
  BY DEF Shown, Files
<1>5. CASE r = Y
  BY <1>5
<1>6. CASE ListedBefore(r, "supplies", x, y)
  <2>0. /\ r = [n \in DOMAIN a |-> [file \in {"type", "online"} |-> r[n][file]]]
        /\ \A n \in DOMAIN a, file \in {"type", "online"} :
              r[n][file] \in {Content(x, "supplies", n, file), Content(y, "supplies", n, file)}
    BY <1>6 DEF ListedBefore, Files
  <2>1. \A n \in DOMAIN a \ {k} : n \in DOMAIN b /\ r[n] = X[n] /\ r[n] = Y[n]
    <3> SUFFICES ASSUME NEW n \in DOMAIN a \ {k}
                 PROVE  n \in DOMAIN b /\ r[n] = X[n] /\ r[n] = Y[n]
      OBVIOUS
    <3>1. n \in DOMAIN b /\ a[n] = b[n]
      BY <1>2 DEF DifferAt
    <3>2. \A file \in {"type", "online"} : Content(x, "supplies", n, file)
                                           = Content(y, "supplies", n, file)
      BY <3>1 DEF Content
    <3>3. \A file \in {"type", "online"} : r[n][file] = Content(x, "supplies", n, file)
      BY <2>0, <3>2
    <3>4. r[n] = [file \in {"type", "online"} |-> r[n][file]]
      BY <2>0
    <3>5. X[n] = [file \in {"type", "online"} |-> Content(x, "supplies", n, file)]
      BY <1>4
    <3>6. Y[n] = [file \in {"type", "online"} |-> Content(y, "supplies", n, file)]
      BY <1>4, <3>1
    <3> HIDE DEF X, Y
    <3>7. QED
      BY <3>1, <3>2, <3>3, <3>4, <3>5, <3>6
  <2>2. DOMAIN r = DOMAIN a /\ DOMAIN X = DOMAIN a /\ DOMAIN Y = DOMAIN b
    BY <1>4, <2>0
  <2>3. CASE k \notin DOMAIN a \/ r[k] = X[k]
    <3>1. \A n \in DOMAIN a : r[n] = X[n]
      BY <2>1, <2>3
    <3>2. X = [n \in DOMAIN a |-> X[n]] /\ r = [n \in DOMAIN a |-> r[n]]
      BY <1>4, <2>0
    <3>3. r = X
      BY <3>1, <3>2
    <3>4. QED
      BY <3>3
  <2>4. CASE k \in DOMAIN a /\ r[k] # X[k]
    <3>1. /\ r[k] = [file \in {"type", "online"} |-> r[k][file]]
          /\ X[k] = [file \in {"type", "online"} |-> Content(x, "supplies", k, file)]
      BY <1>4, <2>0, <2>4
    <3>2. /\ r[k].type \in {Content(x, "supplies", k, "type"), Content(y, "supplies", k, "type")}
          /\ r[k].online \in {Content(x, "supplies", k, "online"),
                              Content(y, "supplies", k, "online")}
      BY <2>0, <2>4
    <3>3. \/ r[k].type # Content(x, "supplies", k, "type")
          \/ r[k].online # Content(x, "supplies", k, "online")
      BY <2>4, <3>1
    <3>4. /\ Content(x, "supplies", k, "type") = Supplies[a[k]].type
          /\ Content(x, "supplies", k, "online") = Supplies[a[k]].online
      BY <2>4 DEF Content, Entries
    <3>5. CASE k \notin DOMAIN b
      <4>1. /\ Content(y, "supplies", k, "type") = "unread"
            /\ Content(y, "supplies", k, "online") = "unread"
        BY <3>5 DEF Content, Nothing
      <4>2. r[k].type # "Battery" /\ (r[k].type = "Mains" => r[k].online = "unread")
        BY <1>3, <2>4, <3>2, <3>3, <3>4, <4>1 DEF Supplies
      <4>3. DOMAIN b = DOMAIN a \ {k}
        BY <1>2, <3>5 DEF DifferAt
      <4>4. Mains(r) = Mains(Y) /\ \A i \in Mains(r) : r[i].online = Y[i].online
        BY <2>1, <2>2, <4>2, <4>3 DEF Mains
      <4>5. {i \in DOMAIN r : r[i].type = "Battery"} = {i \in DOMAIN Y : Y[i].type = "Battery"}
        BY <2>1, <2>2, <4>2, <4>3
      <4>6. QED
        BY <4>4, <4>5, PowerDependsOn
    <3>6. CASE k \in DOMAIN b
      <4>1. /\ Content(y, "supplies", k, "type") = Supplies[b[k]].type
            /\ Content(y, "supplies", k, "online") = Supplies[b[k]].online
        BY <3>6 DEF Content, Entries
      <4>2. Supplies[a[k]].type = "Mains" /\ Supplies[b[k]].type = "Mains"
        BY <1>2, <1>3, <2>4, <3>6 DEF Supplies
      <4>3. r[k].type = Content(y, "supplies", k, "type")
            /\ r[k].online = Content(y, "supplies", k, "online")
        BY <3>2, <3>3, <3>4, <4>1, <4>2
      <4>4. r[k] = Y[k]
        <5>1. Y[k] = [file \in {"type", "online"} |-> Content(y, "supplies", k, file)]
          BY <1>4, <3>6
        <5>2. QED
          BY <3>1, <4>3, <5>1
      <4>5. DOMAIN b = DOMAIN a
        BY <1>2, <2>4, <3>6 DEF DifferAt
      <4>6. \A n \in DOMAIN b : r[n] = Y[n]
        BY <2>1, <4>4, <4>5
      <4>7. r = Y
        <5>1. Y = [n \in DOMAIN b |-> Y[n]] /\ r = [n \in DOMAIN b |-> r[n]]
          BY <1>4, <2>0, <4>5
        <5>2. QED
          BY <4>6, <5>1
      <4>8. QED
        BY <4>7
    <3>7. QED
      BY <3>5, <3>6
  <2>5. QED
    BY <2>3, <2>4
<1>7. QED
  BY <1>5, <1>6 DEF ReadAcross

\* A card put into the dock, or taken away, while the directory is read: the
\* topology is that of the moment before or of the one after; or it is for the
\* battery, a card has gone, and the confidence is low.
LEMMA CardsAcross ==
    ASSUME NEW x, x.cards \in Directory(DOMAIN Cards),
           NEW y, y.cards \in CardChange(x.cards),
           NEW p, NEW g, ReadAcross(g.cards, "cards", x, y), NEW v, g.nvmod = v,
           NEW X, X.cards = Shown(x, "cards"), X.nvmod = v,
           NEW Y, Y.cards = Shown(y, "cards"), Y.nvmod = v
    PROVE  \/ GpuAction(p, g) = GpuAction(p, X) \/ GpuAction(p, g) = GpuAction(p, Y)
           \/ /\ p = "battery" /\ GpuAction(p, g).confidence = "low"
              /\ \E name \in DOMAIN x.cards : name \notin DOMAIN y.cards
<1> DEFINE r == g.cards
           a == x.cards
           b == y.cards
           s == Shown(x, "cards")
           t == Shown(y, "cards")
           files == {"vendor", "class", "boot"}
<1>0. \A h \in {g, X, Y} :
         GpuAction(p, h) = [status |-> "NOOP", target |-> None,
                            confidence |-> IF p # "battery" \/ Hybrid(h.cards).is = "no" THEN "high"
                                           ELSE Hybrid(h.cards).confidence,
                            compute |-> p = "ai" /\ ("discrete" \in Kinds(h.cards) \/ v)]
  BY DEF GpuAction
<1>1. a \in Directory(DOMAIN Cards)
  OBVIOUS
<1>2. PICK k : /\ DifferAt(a, b, k)
               /\ \/ k \notin DOMAIN a /\ k \in DOMAIN b
                  \/ k \in DOMAIN a /\ k \notin DOMAIN b /\ ~Cards[a[k]].boot
  BY <1>1, CardChangeIs
<1>3. \A n \in DOMAIN a : a[n] \in DOMAIN Cards
  BY <1>1, DirectoryIs
<1>4. /\ s = [n \in DOMAIN a |-> [file \in files |-> Content(x, "cards", n, file)]]
      /\ t = [n \in DOMAIN b |-> [file \in files |-> Content(y, "cards", n, file)]]
  BY DEF Shown, Files
<1>5. CASE r = t
  BY <1>5 DEF GpuAction
<1>6. CASE ListedBefore(r, "cards", x, y)
  <2>0. /\ r = [n \in DOMAIN a |-> [file \in files |-> r[n][file]]]
        /\ \A n \in DOMAIN a, file \in files :
              r[n][file] \in {Content(x, "cards", n, file), Content(y, "cards", n, file)}
    BY <1>6 DEF ListedBefore, Files
  <2>1. \A n \in DOMAIN a \ {k} : n \in DOMAIN b /\ r[n] = s[n] /\ r[n] = t[n]
    <3> SUFFICES ASSUME NEW n \in DOMAIN a \ {k}
                 PROVE  n \in DOMAIN b /\ r[n] = s[n] /\ r[n] = t[n]
      OBVIOUS
    <3>1. n \in DOMAIN b /\ a[n] = b[n]
      BY <1>2 DEF DifferAt
    <3>2. \A file \in files : Content(x, "cards", n, file) = Content(y, "cards", n, file)
      BY <3>1 DEF Content
    <3>3. \A file \in files : r[n][file] = Content(x, "cards", n, file)
      BY <2>0, <3>2
    <3>4. r[n] = [file \in files |-> r[n][file]]
      BY <2>0
    <3>5. s[n] = [file \in files |-> Content(x, "cards", n, file)]
      BY <1>4
    <3>6. t[n] = [file \in files |-> Content(y, "cards", n, file)]
      BY <1>4, <3>1
    <3> HIDE DEF r, s, t
    <3>7. QED
      BY <3>1, <3>2, <3>3, <3>4, <3>5, <3>6
  <2>2. DOMAIN r = DOMAIN a /\ DOMAIN s = DOMAIN a /\ DOMAIN t = DOMAIN b
    BY <1>4, <2>0
  <2>3. CASE k \notin DOMAIN a
    <3>1. s = [n \in DOMAIN a |-> s[n]] /\ r = [n \in DOMAIN a |-> r[n]]
      BY <1>4, <2>0
    <3>2. r = s
      BY <2>1, <2>3, <3>1
    <3>3. QED
      BY <3>2 DEF GpuAction
  <2>4. CASE k \in DOMAIN a
    <3>1. k \notin DOMAIN b /\ ~Cards[a[k]].boot /\ DOMAIN b = DOMAIN a \ {k}
      BY <1>2, <2>4 DEF DifferAt
    <3>2. \A file \in files : Content(y, "cards", k, file) = Nothing(file)
      BY <3>1 DEF Content
    <3>3. \A file \in files : Content(x, "cards", k, file) = Cards[a[k]][file]
      BY <2>4 DEF Content, Entries
    <3>4. /\ r[k].vendor \in {Cards[a[k]].vendor, "unread"}
          /\ r[k].class \in {Cards[a[k]].class, "unread"} /\ r[k].boot = FALSE
      <4>1. /\ r[k].vendor \in {Cards[a[k]].vendor, "unread"}
            /\ r[k].class \in {Cards[a[k]].class, "unread"}
        BY <2>0, <2>4, <3>2, <3>3 DEF Nothing
      <4>2. Cards[a[k]].boot = FALSE
        BY <1>3, <2>4, <3>1 DEF Cards
      <4>3. r[k].boot = FALSE
        BY <2>0, <2>4, <3>2, <3>3, <4>2 DEF Nothing
      <4>4. QED
        BY <4>1, <4>3
    <3>5. s[k].vendor = Cards[a[k]].vendor /\ s[k].class = Cards[a[k]].class /\ s[k].boot = FALSE
      BY <1>3, <2>4, <3>1, CardsShown DEF Cards
    <3>6. Several(r) = Several(s)
      BY <2>2 DEF Several
    <3> DEFINE Of(z, n) == Classify(z[n], Several(s))
    <3>7. /\ Kinds(r) = {Of(r, n) : n \in DOMAIN a} /\ Kinds(s) = {Of(s, n) : n \in DOMAIN a}
      BY <2>2, <3>6 DEF Kinds
    <3>8. Of(r, k) = Of(s, k) \/ Of(r, k) = "unknown"
      BY <1>3, <2>4, <3>4, <3>5 DEF Classify, Cards
    <3>9. CASE Of(r, k) = Of(s, k)
      <4>1. \A n \in DOMAIN a : Of(r, n) = Of(s, n)
        BY <2>1, <3>9
      <4>2. Kinds(r) = Kinds(s)
        BY <3>7, <4>1
      <4>3. Hybrid(r) = Hybrid(s)
        BY <3>6, <4>2 DEF Hybrid
      <4>4. GpuAction(p, g) = GpuAction(p, X)
        BY <1>0, <4>2, <4>3
      <4>5. QED
        BY <4>4
    <3>10. CASE Of(r, k) = "unknown"
      <4>1. "unknown" \in Kinds(r)
        BY <2>4, <3>7, <3>10
      <4>2. "discrete" \in Kinds(r) <=> "discrete" \in Kinds(t)
        <5>1. Kinds(t) = {Classify(t[n], Several(t)) : n \in DOMAIN a \ {k}}
          BY <2>2, <3>1 DEF Kinds
        <5>2. \A n \in DOMAIN a \ {k} : Of(r, n) = "discrete"
                                       <=> Classify(t[n], Several(t)) = "discrete"
          BY <2>1 DEF Classify
        <5>3. QED
          BY <3>7, <3>10, <5>1, <5>2
      <4>3. CASE p # "battery"
        <5>1. /\ (p = "ai" /\ ("discrete" \in Kinds(g.cards) \/ v))
                 = (p = "ai" /\ ("discrete" \in Kinds(Y.cards) \/ v))
          BY <4>2
        <5>2. GpuAction(p, g) = GpuAction(p, Y)
          BY <1>0, <4>3, <5>1
        <5>3. QED
          BY <5>2
      <4>4. CASE p = "battery" /\ Several(r)
        <5>1. Hybrid(r).is # "no" /\ Hybrid(r).confidence = "low"
          BY <4>1, <4>4 DEF Hybrid
        <5>2. GpuAction(p, g).confidence = "low"
          BY <1>0, <4>4, <5>1
        <5>3. QED
          BY <2>4, <3>1, <4>4, <5>2
      <4>5. CASE p = "battery" /\ ~Several(r)
        <5>1. \A n \in DOMAIN a : n = k
          BY <2>2, <2>4, <4>5 DEF Several
        <5>2. Kinds(r) = {"unknown"} /\ Kinds(t) = {}
          BY <2>2, <2>4, <3>1, <3>7, <3>10, <5>1 DEF Kinds
        <5>3. Hybrid(r).is = "no" /\ Hybrid(t).is = "no"
          BY <4>5, <5>2 DEF Hybrid
        <5>4. GpuAction(p, g) = GpuAction(p, Y)
          BY <1>0, <4>5, <5>3
        <5>5. QED
          BY <5>4
      <4>6. QED
        BY <4>3, <4>4, <4>5
    <3>11. QED
      BY <3>8, <3>9, <3>10
  <2>5. QED
    BY <2>3, <2>4
<1>7. QED
  BY <1>5, <1>6 DEF ReadAcross

\* The plan goes by what it makes of the supplies, and by the rest as it is read.
LEMMA PlanDependsOn ==
    ASSUME NEW p, NEW g, NEW h, \A f \in Fields \ {"supplies"} : g[f] = h[f],
           HasBattery(g.supplies) = HasBattery(h.supplies), OnAc(g.supplies) = OnAc(h.supplies)
    PROVE  \A id \in ActionIds : PlanOf(p, g)[id] = PlanOf(p, h)[id]
<1>1. /\ g.virt = h.virt /\ g.avail = h.avail /\ g.ram = h.ram
      /\ g.zdev = h.zdev /\ g.zctl = h.zctl /\ g.usr = h.usr /\ g.etc = h.etc
      /\ g.current = h.current /\ g.disks = h.disks /\ g.ppd = h.ppd /\ g.cards = h.cards
      /\ g.nvmod = h.nvmod
  BY FieldsAre
<1>2. /\ CpuAction(p, g) = CpuAction(p, h) /\ ZramAction(g) = ZramAction(h)
      /\ PowerProfileAction(p, g) = PowerProfileAction(p, h)
      /\ StorageAction(g) = StorageAction(h) /\ GpuAction(p, g) = GpuAction(p, h)
  BY <1>1, CpuDependsOn, ZramDependsOn, OthersDependOn
<1>3. QED
  BY <1>2, PlanParts DEF ActionIds

\* The same facts give the same plan.
LEMMA SamePlan ==
    ASSUME NEW p, NEW g, NEW h, \A f \in Fields : g[f] = h[f]
    PROVE  \A id \in ActionIds : PlanOf(p, g)[id] = PlanOf(p, h)[id]
<1>1. g.supplies = h.supplies
  BY FieldsAre
<1>2. QED
  BY <1>1, PlanDependsOn

\* What does not change is read as it is.
LEMMA AlikeRead ==
    ASSUME NEW g, NEW x, NEW y, Mixture(g, x, y), NEW f \in Fields, x[f] = y[f]
    PROVE  g[f] = AllOf(x)[f] /\ AllOf(y)[f] = AllOf(x)[f]
<1>1. CASE f \in Directories
  <2>1. g[f] = Shown(x, f) /\ Shown(y, f) = Shown(x, f)
    BY <1>1, StandsStill, ShownAlike DEF Mixture
  <2>2. QED
    BY <1>1, <2>1 DEF AllOf
<1>2. CASE f \notin Directories
  BY <1>2 DEF AllOf, Mixture
<1>3. QED
  BY <1>1, <1>2

\* One thing is one field, and in a directory one entry of it.
LEMMA OneThingIsOneField ==
    ASSUME NEW x \in Machine, NEW y \in OneThing(x)
    PROVE  \E f \in Fields : /\ \A e \in Fields \ {f} : x[e] = y[e]
                             /\ f = "supplies" => y.supplies \in SupplyChange(x.supplies)
                             /\ f = "cards" => y.cards \in CardChange(x.cards)
<1>1. CASE \E s \in SupplyChange(x.supplies) : y = [x EXCEPT !.supplies = s]
  <2>1. PICK s \in SupplyChange(x.supplies) : y = [x EXCEPT !.supplies = s]
    BY <1>1
  <2>2. y.supplies = s /\ \A e \in Fields \ {"supplies"} : x[e] = y[e]
    BY <2>1, FieldsAre DEF Machine
  <2>3. QED
    BY <2>2, FieldsAre
<1>2. CASE \E c \in CardChange(x.cards) : y = [x EXCEPT !.cards = c]
  <2>1. PICK c \in CardChange(x.cards) : y = [x EXCEPT !.cards = c]
    BY <1>2
  <2>2. y.cards = c /\ \A e \in Fields \ {"cards"} : x[e] = y[e]
    BY <2>1, FieldsAre DEF Machine
  <2>3. QED
    BY <2>2, FieldsAre
<1>3. CASE \E f \in {"nvmod", "ppd", "zdev", "usr", "etc", "current"} : \E v :
              y = [x EXCEPT ![f] = v]
  <2>1. PICK f \in {"nvmod", "ppd", "zdev", "usr", "etc", "current"} :
              \E v : y = [x EXCEPT ![f] = v]
    BY <1>3
  <2>2. \A e \in Fields \ {f} : x[e] = y[e]
    BY <2>1, FieldsAre DEF Machine
  <2>3. f \in Fields /\ f \notin {"supplies", "cards"}
    BY <2>1, FieldsAre
  <2>4. QED
    BY <2>2, <2>3
<1>4. \/ \E s \in SupplyChange(x.supplies) : y = [x EXCEPT !.supplies = s]
      \/ \E c \in CardChange(x.cards) : y = [x EXCEPT !.cards = c]
      \/ \E s : y = [x EXCEPT !.nvmod = s]
      \/ \E s : y = [x EXCEPT !.ppd = s]
      \/ \E s : y = [x EXCEPT !.zdev = s]
      \/ \E s : y = [x EXCEPT !.usr = s]
      \/ \E s : y = [x EXCEPT !.etc = s]
      \/ \E s : y = [x EXCEPT !.current = s]
  BY Zenon DEF OneThing
<1>5. QED
  BY <1>1, <1>2, <1>3, <1>4

\* Facts gathered while one thing of the machine changes give, action by action,
\* what the plan before or the plan after says; but a card that goes may leave
\* the battery plan without confidence.
LEMMA TornByOneThing ==
    ASSUME NEW p, NEW g, NEW x, WellFormed(x), NEW y \in OneThing(x), Mixture(g, x, y)
    PROVE  \A id \in ActionIds :
              \/ PlanOf(p, g)[id] \in {PlanOf(p, AllOf(x))[id], PlanOf(p, AllOf(y))[id]}
              \/ id = "gpu" /\ PlanOf(p, g)[id].confidence = "low"
                    /\ \E name \in DOMAIN x.cards : name \notin DOMAIN y.cards
<1>0. /\ x \in Machine /\ x.supplies \in Directory(DOMAIN Supplies)
      /\ x.cards \in Directory(DOMAIN Cards)
  BY DEF WellFormed, Machine
<1>1. PICK f \in Fields : /\ \A e \in Fields \ {f} : x[e] = y[e]
                          /\ f = "supplies" => y.supplies \in SupplyChange(x.supplies)
                          /\ f = "cards" => y.cards \in CardChange(x.cards)
  BY <1>0, OneThingIsOneField
<1>2. \A e \in Fields \ {f} : g[e] = AllOf(x)[e] /\ AllOf(y)[e] = AllOf(x)[e]
  BY <1>1, AlikeRead
<1>3. CASE f \notin Directories
  <2>1. g[f] = AllOf(x)[f] \/ g[f] = AllOf(y)[f]
    BY <1>3 DEF Mixture, AllOf
  <2>2. (\A e \in Fields : g[e] = AllOf(x)[e]) \/ (\A e \in Fields : g[e] = AllOf(y)[e])
    BY <1>2, <2>1
  <2>3. QED
    BY <2>2, SamePlan
<1>4. CASE f = "supplies"
  <2>1. ReadAcross(g.supplies, "supplies", x, y)
    BY DEF Mixture, Directories
  <2>2. PICK h \in {AllOf(x), AllOf(y)} :
                HasBattery(g.supplies) = HasBattery(h.supplies) /\ OnAc(g.supplies) = OnAc(h.supplies)
    BY <1>0, <1>1, <1>4, <2>1, AllRead, SuppliesAcross
  <2>3. \A e \in Fields \ {"supplies"} : g[e] = h[e]
    BY <1>2, <1>4
  <2>4. \A id \in ActionIds : PlanOf(p, g)[id] = PlanOf(p, h)[id]
    BY <2>2, <2>3, PlanDependsOn
  <2>5. QED
    BY <2>4
<1>5. CASE f = "cards"
  <2>1. /\ g.supplies = AllOf(x).supplies /\ g.virt = AllOf(x).virt /\ g.avail = AllOf(x).avail
        /\ g.ram = AllOf(x).ram /\ g.zdev = AllOf(x).zdev /\ g.zctl = AllOf(x).zctl
        /\ g.usr = AllOf(x).usr /\ g.etc = AllOf(x).etc /\ g.current = AllOf(x).current
        /\ g.disks = AllOf(x).disks /\ g.ppd = AllOf(x).ppd /\ g.nvmod = AllOf(x).nvmod
        /\ AllOf(y).supplies = AllOf(x).supplies /\ AllOf(y).nvmod = AllOf(x).nvmod
    BY <1>2, <1>5, FieldsAre
  <2>2. ASSUME NEW id \in ActionIds \ {"gpu"}
        PROVE  PlanOf(p, g)[id] = PlanOf(p, AllOf(x))[id]
    <3>1. /\ CpuAction(p, g) = CpuAction(p, AllOf(x)) /\ ZramAction(g) = ZramAction(AllOf(x))
          /\ PowerProfileAction(p, g) = PowerProfileAction(p, AllOf(x))
          /\ StorageAction(g) = StorageAction(AllOf(x))
      BY <2>1, CpuDependsOn, ZramDependsOn, OthersDependOn
    <3>2. QED
      BY <2>1, <3>1, PlanParts DEF ActionIds
  <2>3. ReadAcross(g.cards, "cards", x, y)
    BY DEF Mixture, Directories
  <2>4. \/ GpuAction(p, g) = GpuAction(p, AllOf(x)) \/ GpuAction(p, g) = GpuAction(p, AllOf(y))
        \/ /\ p = "battery" /\ GpuAction(p, g).confidence = "low"
           /\ \E name \in DOMAIN x.cards : name \notin DOMAIN y.cards
    <3>1. /\ AllOf(x).cards = Shown(x, "cards") /\ AllOf(y).cards = Shown(y, "cards")
      BY AllRead
    <3>2. y.cards \in CardChange(x.cards)
      BY <1>1, <1>5
    <3>3. QED
      BY <1>0, <2>1, <2>3, <3>1, <3>2, CardsAcross
  <2>5. CASE p = "battery" /\ ~HasBattery(g.supplies)
    <3>1. PlanOf(p, g)["gpu"] = PlanOf(p, AllOf(x))["gpu"]
      BY <2>1, <2>5, PlanParts
    <3>2. QED
      BY <2>2, <3>1
  <2>6. CASE ~(p = "battery" /\ ~HasBattery(g.supplies))
    <3>1. /\ PlanOf(p, g)["gpu"] = GpuAction(p, g)
          /\ PlanOf(p, AllOf(x))["gpu"] = GpuAction(p, AllOf(x))
          /\ PlanOf(p, AllOf(y))["gpu"] = GpuAction(p, AllOf(y))
      BY <2>1, <2>6, PlanParts
    <3>2. QED
      BY <2>2, <2>4, <3>1
  <2>7. QED
    BY <2>5, <2>6
<1>6. QED
  BY <1>3, <1>4, <1>5 DEF Directories

\* The two kinds of DriverChange.
ZramChange(x) == {[x EXCEPT !.zctl = z, !.zdev = z] : z \in BOOLEAN}
CpufreqChange(x) ==
    {[x EXCEPT !.avail = {}, !.current = None],
     [x EXCEPT !.avail = {"default", "performance"}, !.current = "default"]}

\* The zram module: only its own action can be of no moment, and then proposes
\* a device next to the one there is.
LEMMA TornByZram ==
    ASSUME NEW p, NEW g, NEW x, WellFormed(x),
           NEW y \in ZramChange(x), Mixture(g, x, y)
    PROVE  \A id \in ActionIds :
              \/ PlanOf(p, g)[id] \in {PlanOf(p, AllOf(x))[id], PlanOf(p, AllOf(y))[id]}
              \/ id = "memory.zram" /\ id \in Proposals(PlanOf(p, g)) /\ ~x.zctl /\ y.zdev
<1>0. x \in Machine /\ x.zdev \in BOOLEAN /\ x.zctl \in BOOLEAN
  BY DEF WellFormed, Machine
<1>y. PICK z \in BOOLEAN : y = [x EXCEPT !.zctl = z, !.zdev = z]
  BY DEF ZramChange
<1>1. y.zctl = z /\ y.zdev = z /\ \A f \in Fields \ {"zctl", "zdev"} : x[f] = y[f]
  BY <1>0, <1>y, FieldsAre DEF Machine
<1>2. \A f \in Fields \ {"zctl", "zdev"} : g[f] = AllOf(x)[f] /\ AllOf(y)[f] = AllOf(x)[f]
  BY <1>1, AlikeRead
<1>3. /\ AllOf(x).zdev = x.zdev /\ AllOf(x).zctl = x.zctl
      /\ AllOf(y).zdev = z /\ AllOf(y).zctl = z
  <2>1. AllOf(x).zdev = x.zdev /\ AllOf(x).zctl = x.zctl
    BY AllRead
  <2>2. AllOf(y).zdev = y.zdev /\ AllOf(y).zctl = y.zctl
    BY AllRead
  <2>3. QED
    BY <1>1, <2>1, <2>2
<1>4. /\ g.zdev \in {x.zdev, z} /\ g.zctl \in {x.zctl, z}
      /\ g.zdev = x.zdev \/ g.zctl = z
  BY <1>1, FieldsAre DEF Mixture, Directories
<1>5. CASE g.zdev = x.zdev /\ g.zctl = x.zctl
  <2>1. \A f \in Fields : g[f] = AllOf(x)[f]
    BY <1>2, <1>3, <1>5
  <2>2. QED
    BY <2>1, SamePlan
<1>6. CASE g.zdev = z /\ g.zctl = z
  <2>1. \A f \in Fields : g[f] = AllOf(y)[f]
    BY <1>2, <1>3, <1>6
  <2>2. QED
    BY <2>1, SamePlan
<1>7. CASE g.zdev = x.zdev /\ x.zdev # z /\ g.zctl = z /\ x.zctl # z
  <2>1. /\ g.supplies = AllOf(x).supplies /\ g.virt = AllOf(x).virt /\ g.avail = AllOf(x).avail
        /\ g.current = AllOf(x).current /\ g.disks = AllOf(x).disks /\ g.ppd = AllOf(x).ppd
        /\ g.cards = AllOf(x).cards /\ g.nvmod = AllOf(x).nvmod /\ g.usr = AllOf(x).usr /\ g.etc = AllOf(x).etc
        /\ g.ram = AllOf(x).ram
    BY <1>2, FieldsAre
  <2>2. ASSUME NEW id \in ActionIds \ {"memory.zram"}
        PROVE  PlanOf(p, g)[id] = PlanOf(p, AllOf(x))[id]
    <3>1. /\ CpuAction(p, g) = CpuAction(p, AllOf(x))
          /\ PowerProfileAction(p, g) = PowerProfileAction(p, AllOf(x))
          /\ StorageAction(g) = StorageAction(AllOf(x))
          /\ GpuAction(p, g) = GpuAction(p, AllOf(x))
      BY <2>1, CpuDependsOn, OthersDependOn
    <3>2. QED
      BY <2>1, <3>1, PlanParts DEF ActionIds
  <2>3. CASE ZramAction(g) = ZramAction(AllOf(x))
    BY <2>1, <2>2, <2>3, PlanParts DEF ActionIds
  <2>4. CASE ZramAction(g) # ZramAction(AllOf(x))
    <3>1. ConfSources(g) = ConfSources(AllOf(x))
      BY <2>1 DEF ConfSources, ConfFiles
    <3>2. ~x.zctl /\ y.zdev /\ ZramAction(g).status = "APPLY"
      BY <1>0, <1>1, <1>3, <1>7, <2>1, <2>4, <3>1
         DEF ZramAction, ZramCapability, ZramSupport, Action
    <3>3. ZramAction(g) # None
      BY <3>1, <3>2, NotNone DEF ZramAction, Statuses, Targets, Preferences
    <3>4. \/ PlanOf(p, g)["memory.zram"] = PlanOf(p, AllOf(x))["memory.zram"]
          \/ "memory.zram" \in Proposals(PlanOf(p, g))
      BY <2>1, <3>2, <3>3, PlanParts DEF Proposals
    <3>5. QED
      BY <2>2, <3>2, <3>4 DEF ActionIds
  <2>5. QED
    BY <2>3, <2>4
<1>8. QED
  BY <1>0, <1>4, <1>5, <1>6, <1>7

\* The cpufreq driver: only the preference can be of no moment, and then the
\* one in force is proposed again.
LEMMA TornByCpufreq ==
    ASSUME NEW p \in VALID_PROFILES, NEW g, NEW x, WellFormed(x),
           NEW y \in CpufreqChange(x), Mixture(g, x, y)
    PROVE  \A id \in ActionIds :
              \/ PlanOf(p, g)[id] \in {PlanOf(p, AllOf(x))[id], PlanOf(p, AllOf(y))[id]}
              \/ id = "cpu.epp" /\ id \in Proposals(PlanOf(p, g)) /\ x.avail # y.avail
                    /\ PlanOf(p, g)[id].target = y.current
<1>0. x \in Machine /\ x.current \in x.avail \cup {None}
  BY DEF WellFormed, Coherent
<1> DEFINE a == y.avail
           e == y.current
<1>a. \/ a = {} /\ e = None
      \/ a = {"default", "performance"} /\ e = "default"
  BY <1>0 DEF Machine, CpufreqChange
<1>1. y.avail = a /\ y.current = e /\ \A f \in Fields \ {"avail", "current"} : x[f] = y[f]
  BY <1>0, FieldsAre DEF Machine, CpufreqChange
<1> HIDE DEF a, e
<1>2. \A f \in Fields \ {"avail", "current"} : g[f] = AllOf(x)[f] /\ AllOf(y)[f] = AllOf(x)[f]
  BY <1>1, AlikeRead
<1>3. /\ AllOf(x).avail = x.avail /\ AllOf(x).current = x.current
      /\ AllOf(y).avail = a /\ AllOf(y).current = e
  BY <1>1, AllRead
<1>4. /\ g.avail \in {x.avail, a} /\ g.current \in {x.current, e}
      /\ g.current = x.current \/ g.avail = a
  BY <1>1, FieldsAre DEF Mixture, Directories
<1>5. CASE g.avail = x.avail /\ g.current = x.current
  <2>1. \A f \in Fields : g[f] = AllOf(x)[f]
    BY <1>2, <1>3, <1>5
  <2>2. QED
    BY <2>1, SamePlan
<1>6. CASE g.avail = a /\ g.current = e
  <2>1. \A f \in Fields : g[f] = AllOf(y)[f]
    BY <1>2, <1>3, <1>6
  <2>2. QED
    BY <2>1, SamePlan
<1>7. CASE g.avail = a /\ g.current = x.current
  <2>1. /\ g.supplies = AllOf(x).supplies /\ g.virt = AllOf(x).virt
        /\ g.disks = AllOf(x).disks /\ g.ppd = AllOf(x).ppd
        /\ g.cards = AllOf(x).cards /\ g.nvmod = AllOf(x).nvmod /\ g.usr = AllOf(x).usr /\ g.etc = AllOf(x).etc
        /\ g.ram = AllOf(x).ram /\ g.zdev = AllOf(x).zdev /\ g.zctl = AllOf(x).zctl
        /\ AllOf(y).supplies = AllOf(x).supplies /\ AllOf(y).virt = AllOf(x).virt
    BY <1>2, FieldsAre
  <2>2. ASSUME NEW id \in ActionIds \ {"cpu.epp"}
        PROVE  PlanOf(p, g)[id] = PlanOf(p, AllOf(x))[id]
    <3>1. /\ ZramAction(g) = ZramAction(AllOf(x))
          /\ PowerProfileAction(p, g) = PowerProfileAction(p, AllOf(x))
          /\ StorageAction(g) = StorageAction(AllOf(x))
          /\ GpuAction(p, g) = GpuAction(p, AllOf(x))
      BY <2>1, ZramDependsOn, OthersDependOn
    <3>2. QED
      BY <2>1, <3>1, PlanParts DEF ActionIds
  <2>3. CASE CpuAction(p, g) = CpuAction(p, AllOf(x)) \/ CpuAction(p, g) = CpuAction(p, AllOf(y))
    BY <2>1, <2>2, <2>3, PlanParts DEF ActionIds
  <2>4. CASE /\ CpuAction(p, g) # CpuAction(p, AllOf(x))
             /\ CpuAction(p, g) # CpuAction(p, AllOf(y))
    <3>1. Wanted(p, g) = Wanted(p, AllOf(y))
      BY <1>3, <1>7, <2>1, CpuDependsOn
    <3>2. /\ ~Virtualized(g.virt) /\ g.avail # {} /\ Wanted(p, g) # None
          /\ e # x.current
      BY <1>3, <1>7, <2>1, <2>4, <3>1 DEF CpuAction
    <3>3. a = {"default", "performance"} /\ e = "default" /\ Wanted(p, g) \in a
      BY <1>a, <1>7, <3>2, WantedIsAvailable
    <3>4. CASE x.current = Wanted(p, g)
      <4>1. Wanted(p, g) = "performance"
        BY <3>2, <3>3, <3>4
      <4>2. EppCandidates(p, g.supplies) = <<"performance", "balance_performance">>
        <5>1. PICK i \in DOMAIN EppCandidates(p, g.supplies) :
                      EppCandidates(p, g.supplies)[i] = "performance"
          BY <3>2, <4>1, WantedIsAvailable
        <5>2. CASE p = "ai"
          BY <5>1, <5>2 DEF EppCandidates
        <5>3. CASE p = "battery"
          BY <5>1, <5>3 DEF EppCandidates
        <5>4. CASE p # "ai" /\ p # "battery"
          BY <5>1, <5>4 DEF EppCandidates
        <5>5. QED
          BY <5>2, <5>3, <5>4
      <4>3. x.current \in x.avail /\ "performance" \in x.avail
        BY <1>0, <3>2, <3>4, <4>1
      <4>4. Wanted(p, AllOf(x)) = "performance"
        BY <1>3, <2>1, <4>2, <4>3, FirstIsWanted
      <4>5. CpuAction(p, AllOf(x)) = CpuAction(p, g)
        BY <1>3, <1>7, <2>1, <3>2, <3>4, <4>1, <4>3, <4>4, NoneAssumption DEF CpuAction, Preferences
      <4>6. QED
        BY <2>4, <4>5
    <3>5. CASE x.current # Wanted(p, g)
      <4>1. CpuAction(p, g) = Action("APPLY", Wanted(p, g))
        BY <1>7, <3>2, <3>5 DEF CpuAction
      <4>2. Wanted(p, g) = "default"
        <5>1. CASE Wanted(p, g) # e
          <6>1. CpuAction(p, AllOf(y)) = Action("APPLY", Wanted(p, g))
            BY <1>3, <1>7, <2>1, <3>1, <3>2, <5>1 DEF CpuAction
          <6>2. QED
            BY <2>4, <4>1, <6>1
        <5>2. QED
          BY <3>3, <5>1
      <4>3. x.avail # a
        <5>1. SUFFICES ASSUME x.avail = a PROVE FALSE
          OBVIOUS
        <5>2. CpuAction(p, g) = CpuAction(p, AllOf(x))
          BY <1>3, <1>7, <2>1, <5>1, CpuDependsOn
        <5>3. QED
          BY <2>4, <5>2
      <4>4. CpuAction(p, g).status = "APPLY" /\ CpuAction(p, g).target = y.current
        BY <1>1, <3>3, <4>1, <4>2 DEF Action
      <4>5. CpuAction(p, g) # None
        BY <3>3, <4>1, <4>2, NotNone DEF Statuses, Targets, Preferences
      <4>6. \/ PlanOf(p, g)["cpu.epp"] = PlanOf(p, AllOf(x))["cpu.epp"]
            \/ "cpu.epp" \in Proposals(PlanOf(p, g)) /\ PlanOf(p, g)["cpu.epp"].target = y.current
        BY <2>1, <4>4, <4>5, PlanParts DEF Proposals
      <4>7. QED
        BY <1>1, <2>2, <4>3, <4>6 DEF ActionIds
    <3>6. QED
      BY <3>4, <3>5
  <2>5. QED
    BY <2>3, <2>4
<1>8. QED
  BY <1>4, <1>5, <1>6, <1>7

\* One change of the machine may tear three actions: zram, where it finds the
\* control interface of a module just loaded, the preference for the processor,
\* and the confidence of the topology where a card has gone.
LEMMA TornByOneChange ==
    ASSUME NEW p \in VALID_PROFILES, NEW g, NEW x, WellFormed(x),
           NEW y \in OneThing(x) \cup DriverChange(x), Mixture(g, x, y)
    PROVE  \A id \in ActionIds :
              \/ PlanOf(p, g)[id] \in {PlanOf(p, AllOf(x))[id], PlanOf(p, AllOf(y))[id]}
              \/ id = "memory.zram" /\ id \in Proposals(PlanOf(p, g)) /\ ~x.zctl /\ y.zdev
              \/ id = "cpu.epp" /\ id \in Proposals(PlanOf(p, g)) /\ x.avail # y.avail
                    /\ PlanOf(p, g)[id].target = y.current
              \/ id = "gpu" /\ PlanOf(p, g)[id].confidence = "low"
                    /\ \E name \in DOMAIN x.cards : name \notin DOMAIN y.cards
<1>1. CASE y \in OneThing(x)
  BY <1>1, TornByOneThing
<1>2. CASE y \in ZramChange(x)
  BY <1>2, TornByZram
<1>3. CASE y \in CpufreqChange(x)
  BY <1>3, TornByCpufreq
<1>4. QED
  BY <1>1, <1>2, <1>3 DEF DriverChange, ZramChange, CpufreqChange

----------------------------------------------------------------------------
(* The invariant                                                           *)

\* Reads done by the running invocation, or by the one that made the plan.
Done == IF pc > 0 THEN pc - 1 ELSE Len(Reads)

Types ==
    /\ WellFormed(m) /\ pc \in 0..(Len(Reads) + 1) /\ moved \in Nat
    /\ got = [f \in Fields |-> got[f]]
    /\ pc > 5 => got["avail"] \subseteq Preferences
    /\ left # {} => pc > 1 /\ Reads[pc - 1] \in Directories

\* A plan is in somebody's hands between invocations only; what can be
\* carried out of it is an action.
InHand ==
    plan # None =>
        /\ pc = 0 /\ plan = [id \in ActionIds |-> plan[id]]
        /\ \A id \in {"cpu.epp", "power.ppd_profile", "memory.zram"} :
              plan[id] = None \/ \E s \in Statuses, t \in Targets : plan[id] = Action(s, t)

\* A directory read but for the files still pending, up to one change: listed by
\* now, or listed before it and read before it or by now.
FilesSeen(r, d, pending, x, y) ==
    /\ r = [n \in DOMAIN r |-> [file \in Files(d) |-> r[n][file]]]
    /\ \A n \in DOMAIN r, file \in Files(d) :
          <<n, file>> \in pending => r[n][file] = Nothing(file)
    /\ \/ /\ DOMAIN r = DOMAIN y[d]
          /\ \A n \in DOMAIN r, file \in Files(d) :
                <<n, file>> \notin pending => r[n][file] = Content(y, d, n, file)
       \/ /\ DOMAIN r = DOMAIN x[d]
          /\ \A n \in DOMAIN r, file \in Files(d) :
                <<n, file>> \notin pending =>
                   r[n][file] \in {Content(x, d, n, file), Content(y, d, n, file)}

\* Files are pending of the directory listed last.
Pending(d) == IF left # {} /\ Reads[pc - 1] = d THEN left ELSE {}

\* Up to one change, a read is of the first machine or of the present one, and
\* no read of the first comes after one of the present.
Seen ==
    /\ \A i \in 1..Done : Reads[i] \notin Directories =>
          got[Reads[i]] \in {first[Reads[i]], m[Reads[i]]}
    /\ \A i, j \in 1..Done :
          i < j /\ Reads[i] \notin Directories /\ Reads[j] \notin Directories =>
             got[Reads[i]] = first[Reads[i]] \/ got[Reads[j]] = m[Reads[j]]
    /\ \A i \in 1..Done : Reads[i] \in Directories =>
          FilesSeen(got[Reads[i]], Reads[i], Pending(Reads[i]), first, m)

\* What one change is; a boot comes after the reads.
OneChange ==
    \/ m \in OneThing(first) \cup DriverChange(first)
    \/ pc = 0 /\ \A i \in 1..Done : got[Reads[i]] = AllOf(first)[Reads[i]]

Torn ==
    pc > 0 \/ Untouched =>
        /\ profile \in VALID_PROFILES /\ WellFormed(first)
        /\ moved = 0 => m = first
        /\ moved <= 1 => Seen
        /\ moved = 1 => OneChange

PlanOfReads == Untouched => plan = PlanOf(profile, got)

IInv == Types /\ InHand /\ Torn /\ PlanOfReads

\* The plan's reads, in order: no field twice, the list of preferences fifth.
LEMMA ReadsAreFields ==
    /\ Len(Reads) = 13 /\ DOMAIN Reads = 1..13
    /\ \A i \in 1..13 : Reads[i] \in Fields
    /\ \A i, j \in 1..13 : Reads[i] = Reads[j] => i = j
    /\ \A i \in 1..13 : Reads[i] = "avail" <=> i = 5
    /\ Reads[13] \notin Directories
BY FieldsAre DEF Reads, Directories

\* A directory just listed: everything is pending.
LEMMA ListSeen ==
    ASSUME NEW d, NEW x, NEW y
    PROVE  FilesSeen(Listed(y, d), d, (DOMAIN y[d]) \X Files(d), x, y)
BY DEF FilesSeen, Listed

\* One more file read; of a supply that is no mains adapter the online file is
\* then not looked at, and there would be nothing in it.
LEMMA FileSeen ==
    ASSUME NEW d \in Directories, NEW x, NEW y, WellFormed(y), NEW r, NEW pending,
           FilesSeen(r, d, pending, x, y),
           NEW name \in DOMAIN r, NEW file \in Files(d),
           NEW s, s = [r EXCEPT ![name][file] = Content(y, d, name, file)],
           NEW rest, rest = pending \ (IF file = "type" /\ Content(y, d, name, file) # "Mains"
                                         THEN {name} \X Files(d) ELSE {<<name, file>>})
    PROVE  FilesSeen(s, d, rest, x, y)
<1>1. r = [n \in DOMAIN r |-> [f \in Files(d) |-> r[n][f]]]
  BY DEF FilesSeen
<1>2. /\ DOMAIN s = DOMAIN r /\ s[name][file] = Content(y, d, name, file)
      /\ \A n \in DOMAIN r, f \in Files(d) : <<n, f>> # <<name, file>> => s[n][f] = r[n][f]
  BY <1>1
<1>3. s = [n \in DOMAIN s |-> [f \in Files(d) |-> s[n][f]]]
  BY <1>1
<1>4. \A n \in DOMAIN r, f \in Files(d) : <<n, f>> \in rest =>
         <<n, f>> \in pending /\ <<n, f>> # <<name, file>>
  OBVIOUS
<1>5. ASSUME NEW n \in DOMAIN r, NEW f \in Files(d), <<n, f>> \in pending, <<n, f>> \notin rest
      PROVE  s[n][f] = Content(y, d, n, f)
  <2>1. CASE n = name /\ f = file
    BY <1>2, <2>1
  <2>2. CASE ~(n = name /\ f = file)
    <3>1. n = name /\ file = "type" /\ f # "type" /\ Content(y, d, name, "type") # "Mains"
      BY <1>5, <2>2
    <3>2. d = "supplies" /\ f = "online"
      BY <3>1 DEF Directories, Files
    <3>3. s[n][f] = "unread"
      <4>1. s[n][f] = r[n][f]
        BY <1>2, <2>2
      <4>2. r[n][f] = Nothing(f)
        BY <1>5 DEF FilesSeen
      <4>3. QED
        BY <3>2, <4>1, <4>2 DEF Nothing
    <3>4. Content(y, d, n, f) = "unread"
      <4>1. CASE n \in DOMAIN y.supplies
        <5>1. y.supplies[n] \in DOMAIN Supplies
          BY <4>1, DirectoryIs DEF WellFormed, Machine
        <5>2. Supplies[y.supplies[n]].type # "Mains"
          BY <3>1, <3>2, <4>1 DEF Content, Entries
        <5>3. Supplies[y.supplies[n]].online = "unread"
          BY <5>1, <5>2 DEF Supplies
        <5>4. QED
          BY <3>2, <4>1, <5>3 DEF Content, Entries
      <4>2. CASE n \notin DOMAIN y.supplies
        BY <3>2, <4>2 DEF Content, Nothing
      <4>3. QED
        BY <4>1, <4>2
    <3>5. QED
      BY <3>3, <3>4
  <2>3. QED
    BY <2>1, <2>2
<1>6. \A n \in DOMAIN r, f \in Files(d) : <<n, f>> \in rest => s[n][f] = Nothing(f)
  BY <1>2, <1>4 DEF FilesSeen
<1>7. ASSUME NEW n \in DOMAIN r, NEW f \in Files(d), <<n, f>> \notin rest
      PROVE  \/ s[n][f] = Content(y, d, n, f)
             \/ <<n, f>> \notin pending /\ s[n][f] = r[n][f]
  <2>1. CASE n = name /\ f = file
    BY <1>2, <2>1
  <2>2. CASE ~(n = name /\ f = file)
    BY <1>2, <1>5, <1>7, <2>2
  <2>3. QED
    BY <2>1, <2>2
<1>8. CASE /\ DOMAIN r = DOMAIN y[d]
           /\ \A n \in DOMAIN r, f \in Files(d) :
                 <<n, f>> \notin pending => r[n][f] = Content(y, d, n, f)
  <2>1. \A n \in DOMAIN r, f \in Files(d) : <<n, f>> \notin rest => s[n][f] = Content(y, d, n, f)
    BY <1>7, <1>8
  <2>2. QED
    BY <1>2, <1>3, <1>6, <1>8, <2>1 DEF FilesSeen
<1>9. CASE /\ DOMAIN r = DOMAIN x[d]
           /\ \A n \in DOMAIN r, f \in Files(d) :
                 <<n, f>> \notin pending => r[n][f] \in {Content(x, d, n, f), Content(y, d, n, f)}
  <2>1. \A n \in DOMAIN r, f \in Files(d) :
           <<n, f>> \notin rest => s[n][f] \in {Content(x, d, n, f), Content(y, d, n, f)}
    BY <1>7, <1>9
  <2>2. QED
    BY <1>2, <1>3, <1>6, <1>9, <2>1 DEF FilesSeen
<1>10. QED
  BY <1>8, <1>9 DEF FilesSeen

\* What was read of a machine that stood still stays seen when it changes.
LEMMA SeenMoves ==
    ASSUME NEW d, NEW x, NEW y, NEW r, NEW pending, FilesSeen(r, d, pending, x, x)
    PROVE  FilesSeen(r, d, pending, x, y)
BY DEF FilesSeen

\* With nothing pending a directory is read across the change.
LEMMA SeenIsAcross ==
    ASSUME NEW d, NEW x, NEW y, NEW r, FilesSeen(r, d, {}, x, y)
    PROVE  ReadAcross(r, d, x, y)
<1>1. r = [n \in DOMAIN r |-> [file \in Files(d) |-> r[n][file]]]
  BY DEF FilesSeen
<1>2. CASE /\ DOMAIN r = DOMAIN y[d]
           /\ \A n \in DOMAIN r, file \in Files(d) : r[n][file] = Content(y, d, n, file)
  <2>1. r = [n \in DOMAIN y[d] |-> [file \in Files(d) |-> Content(y, d, n, file)]]
    BY <1>1, <1>2
  <2>2. QED
    BY <2>1 DEF Shown, ReadAcross
<1>3. CASE /\ DOMAIN r = DOMAIN x[d]
           /\ \A n \in DOMAIN r, file \in Files(d) :
                 r[n][file] \in {Content(x, d, n, file), Content(y, d, n, file)}
  BY <1>1, <1>3 DEF ListedBefore, ReadAcross
<1>4. QED
  BY <1>2, <1>3 DEF FilesSeen

\* What was read of a machine that stood still is all of it.
LEMMA SeenStill ==
    ASSUME Seen, left = {}, m = first, Done \in 0..13
    PROVE  \A i \in 1..Done : got[Reads[i]] = AllOf(first)[Reads[i]]
<1> SUFFICES ASSUME NEW i \in 1..Done PROVE got[Reads[i]] = AllOf(first)[Reads[i]]
  OBVIOUS
<1>0. Reads[i] \in Fields
  BY ReadsAreFields
<1>1. CASE Reads[i] \notin Directories
  BY <1>0, <1>1 DEF Seen, AllOf
<1>2. CASE Reads[i] \in Directories
  <2>1. FilesSeen(got[Reads[i]], Reads[i], {}, first, first)
    BY <1>2 DEF Seen, Pending
  <2>2. got[Reads[i]] = Shown(first, Reads[i])
    BY <2>1, SeenIsAcross, StandsStill
  <2>3. QED
    BY <1>0, <1>2, <2>2 DEF AllOf
<1>3. QED
  BY <1>1, <1>2

\* A boot leaves a well-formed machine.
LEMMA BootStaysMachine ==
    ASSUME NEW x, WellFormed(x), NEW b \in BOOLEAN,
           NEW e, e = (IF "default" \in x.avail THEN "default" ELSE x.current)
    PROVE  WellFormed([x EXCEPT !.zdev = b, !.current = e])
<1> DEFINE y == [x EXCEPT !.zdev = b, !.current = e]
<1>1. x \in Machine /\ Coherent(x) /\ e \in x.avail \cup {None} /\ e \in Preferences \cup {None}
  BY DEF WellFormed, Coherent, Machine
<1>2. y \in Machine
  BY <1>1 DEF Machine
<1>3. y.cards = x.cards /\ y.avail = x.avail /\ y.current = e
  BY <1>1 DEF Machine
<1> HIDE DEF y
<1>4. WellFormed(y)
  BY <1>1, <1>2, <1>3 DEF WellFormed, Coherent
<1>5. QED
  BY <1>4 DEF y

\* So does an action carried out.
LEMMA CarriedStaysMachine ==
    ASSUME NEW x, WellFormed(x), NEW pl,
           NEW id \in {"cpu.epp", "power.ppd_profile", "memory.zram"}
    PROVE  WellFormed(Carry(x, pl, id))
<1>1. x \in Machine /\ Coherent(x)
  BY DEF WellFormed
<1>2. ASSUME NEW e \in x.avail
      PROVE  WellFormed([x EXCEPT !.current = e])
  BY <1>2, StaysMachine DEF OneThing
<1>3. WellFormed([x EXCEPT !.etc = "section"])
  BY StaysMachine DEF OneThing
<1>4. CASE id = "cpu.epp"
  BY <1>2, <1>4 DEF Carry
<1>5. CASE id = "power.ppd_profile"
  BY <1>5 DEF Carry
<1>6. CASE id = "memory.zram"
  BY <1>3, <1>6 DEF Carry
<1>7. QED
  BY <1>4, <1>5, <1>6

\* A plan with an action carried out is not untouched.
LEMMA FollowedIsTouched ==
    ASSUME InHand, NEW id, Follow(id)
    PROVE  InHand' /\ ~Untouched'
<1>1. id \in {"cpu.epp", "power.ppd_profile", "memory.zram"} /\ id \in ActionIds
  BY DEF Follow, Proposals, ActionIds
<1>2. PICK s \in Statuses, t \in Targets : plan[id] = Action(s, t)
  BY <1>1 DEF InHand, Follow, Proposals
<1>3. plan'[id] = Action("DONE", t)
  <2>1. plan' = [plan EXCEPT ![id].status = "DONE"] /\ plan = [i \in ActionIds |-> plan[i]]
    BY DEF Follow, InHand
  <2>2. plan'[id] = [plan[id] EXCEPT !.status = "DONE"]
    BY <1>1, <2>1
  <2>3. [Action(s, t) EXCEPT !.status = "DONE"] = Action("DONE", t)
    BY DEF Action
  <2>4. QED
    BY <1>2, <2>2, <2>3
<1>4. \A i \in ActionIds \ {id} : plan'[i] = plan[i]
  BY DEF Follow, InHand
<1>5. plan' = [i \in ActionIds |-> plan'[i]]
  BY DEF Follow, InHand
<1>6. "DONE" \in Statuses /\ plan'[id] # None /\ plan'[id].status = "DONE"
  <2>1. "DONE" \in Statuses
    BY DEF Statuses
  <2>2. QED
    BY <1>3, <2>1, NotNone DEF Action
<1>7. InHand'
  <2>1. pc' = 0
    BY DEF Follow
  <2>2. ASSUME NEW i \in {"cpu.epp", "power.ppd_profile", "memory.zram"}
        PROVE  plan'[i] = None \/ \E u \in Statuses, v \in Targets : plan'[i] = Action(u, v)
    <3>1. CASE i = id
      BY <1>2, <1>3, <1>6, <3>1
    <3>2. CASE i # id
      <4>1. plan'[i] = plan[i]
        BY <1>4, <3>2 DEF ActionIds
      <4>2. plan # None
        BY DEF Follow
      <4>3. QED
        BY <4>1, <4>2 DEF InHand
    <3>3. QED
      BY <3>1, <3>2
  <2>3. QED
    BY <1>5, <2>1, <2>2 DEF InHand
<1>8. ~Untouched'
  BY <1>1, <1>6 DEF Untouched
<1>9. QED
  BY <1>7, <1>8

\* A machine that stood still until now changes: what was read is of the first.
LEMMA SeenChanges ==
    ASSUME Seen, m = first, UNCHANGED <<pc, left, got, first>>
    PROVE  Seen'
<1>1. Done' = Done /\ \A d : Pending(d)' = Pending(d)
  BY DEF Done, Pending
<1>2. \A i \in 1..Done : Reads[i] \notin Directories => got[Reads[i]] = first[Reads[i]]
  BY DEF Seen
<1>3. \A i \in 1..Done : Reads[i] \in Directories =>
         FilesSeen(got[Reads[i]], Reads[i], Pending(Reads[i]), first, m')
  BY SeenMoves DEF Seen
<1>4. QED
  BY <1>1, <1>2, <1>3 DEF Seen

\* IInv is inductive.
THEOREM Invariance == Spec => []IInv
<1>1. Init => IInv
  <2>1. SUFFICES ASSUME Init PROVE IInv
    OBVIOUS
  <2>2. WellFormed(m)
    BY <2>1, MachinesAssumption DEF Init, WellFormed
  <2>3. Types
    BY <2>1, <2>2, ReadsAreFields DEF Init, Types
  <2>4. InHand /\ Torn /\ PlanOfReads
    BY <2>1 DEF Init, InHand, Torn, PlanOfReads, Untouched
  <2>5. QED
    BY <2>3, <2>4 DEF IInv
<1>2. IInv /\ [Next]_vars => IInv'
  <2> SUFFICES ASSUME IInv, [Next]_vars PROVE IInv'
    OBVIOUS
  <2>0. /\ Types /\ InHand /\ Torn /\ PlanOfReads
        /\ pc \in 0..14 /\ pc \in Nat /\ moved \in Nat /\ Len(Reads) = 13
        /\ (pc = 0 \/ pc = 14 => left = {})
    BY ReadsAreFields DEF IInv, Types
  <2>1. CASE Start
    <3>1. Types'
      BY <2>0, <2>1, ReadsAreFields DEF Start, Types
    <3>2. ~Untouched' /\ InHand' /\ PlanOfReads'
      BY <2>1 DEF Start, InHand, Untouched, PlanOfReads
    <3>3. profile' \in VALID_PROFILES /\ WellFormed(first)' /\ m' = first' /\ moved' = 0
      BY <2>0, <2>1 DEF Start, Types
    <3>4. Done' = 0
      BY <2>1 DEF Start, Done
    <3>5. Seen'
      BY <3>4 DEF Seen
    <3>6. Torn'
      BY <3>3, <3>5 DEF Torn
    <3>7. QED
      BY <3>1, <3>2, <3>6 DEF IInv
  <2>2. CASE Read \/ List
    <3> DEFINE f == Reads[pc]
    <3>1. /\ pc \in 1..13 /\ f \in Fields /\ plan = None /\ ~Untouched /\ ~Untouched'
          /\ left = {} /\ pc' = pc + 1 /\ UNCHANGED <<m, profile, plan, first, moved>>
      BY <2>0, <2>2, ReadsAreFields DEF Read, List, InHand, Untouched
    <3>2. PICK v : got' = [got EXCEPT ![f] = v]
      BY <2>2 DEF Read, List
    <3>3. got = [e \in Fields |-> got[e]]
      BY <2>0 DEF Types
    <3>4. got'[f] = v /\ (\A e \in Fields \ {f} : got'[e] = got[e]) /\ got' = [e \in Fields |-> got'[e]]
      BY <3>1, <3>2, <3>3
    <3>5. f \notin Directories => v = m[f] /\ left' = {}
      <4>1. ASSUME f \notin Directories PROVE got'[f] = m[f] /\ left' = {}
        BY <2>2, <3>1, <3>3, <4>1 DEF Read, List
      <4>2. QED
        BY <3>4, <4>1
    <3>6. f \in Directories => v = Listed(m, f) /\ left' = (DOMAIN m[f]) \X Files(f)
      <4>1. ASSUME f \in Directories
            PROVE  got'[f] = Listed(m, f) /\ left' = (DOMAIN m[f]) \X Files(f)
        BY <2>2, <3>1, <3>3, <4>1 DEF Read, List
      <4>2. QED
        BY <3>4, <4>1
    <3> HIDE DEF f
    <3>7. Types'
      <4>1. pc' > 5 => got'["avail"] \subseteq Preferences
        <5>1. CASE pc = 5
          <6>1. f = "avail" /\ f \notin Directories
            BY <3>1, <5>1, ReadsAreFields DEF f, Directories
          <6>2. got'["avail"] = m.avail
            BY <3>4, <3>5, <6>1
          <6>3. QED
            BY <2>0, <6>2 DEF Types, WellFormed, Machine
        <5>2. CASE pc # 5
          <6>1. f # "avail" /\ "avail" \in Fields
            BY <3>1, <5>2, ReadsAreFields, FieldsAre DEF f
          <6>2. got'["avail"] = got["avail"]
            BY <3>4, <6>1
          <6>3. QED
            BY <2>0, <3>1, <5>2, <6>2 DEF Types
        <5>3. QED
          BY <5>1, <5>2
      <4>2. left' # {} => pc' > 1 /\ Reads[pc' - 1] \in Directories
        BY <3>1, <3>5 DEF f
      <4>3. QED
        BY <2>0, <3>1, <3>4, <4>1, <4>2 DEF Types
    <3>8. InHand' /\ PlanOfReads'
      BY <3>1 DEF InHand, PlanOfReads
    <3>9. Done = pc - 1 /\ Done' = pc
      BY <3>1 DEF Done
    <3>10. \A i \in 1..(pc - 1) : Reads[i] # f /\ got'[Reads[i]] = got[Reads[i]]
      BY <3>1, <3>4, ReadsAreFields DEF f
    <3>11. /\ profile' \in VALID_PROFILES /\ WellFormed(first)' /\ (moved = 0 => m = first)
           /\ (moved <= 1 => Seen) /\ (moved = 1 => OneChange)
      BY <2>0, <3>1 DEF Torn
    <3>12. ASSUME moved <= 1 PROVE Seen'
      <4>0. Seen
        BY <3>11, <3>12
      <4>1. \A i \in 1..pc : i = pc \/ i \in 1..(pc - 1)
        BY <3>1
      <4>2. \A i, j \in 1..pc : i < j => i \in 1..(pc - 1)
        BY <3>1
      <4>3. Reads[pc] \notin Directories => got'[Reads[pc]] = m[Reads[pc]]
        BY <3>4, <3>5 DEF f
      <4>4. \A i \in 1..pc : Reads[i] \notin Directories =>
               got'[Reads[i]] \in {first[Reads[i]], m[Reads[i]]}
        BY <3>9, <3>10, <4>0, <4>1, <4>3 DEF Seen
      <4>5. \A i, j \in 1..pc :
               i < j /\ Reads[i] \notin Directories /\ Reads[j] \notin Directories =>
                  got'[Reads[i]] = first[Reads[i]] \/ got'[Reads[j]] = m[Reads[j]]
        BY <3>9, <3>10, <4>0, <4>1, <4>2, <4>3 DEF Seen
      <4>6. ASSUME NEW i \in 1..pc, Reads[i] \in Directories
            PROVE  FilesSeen(got'[Reads[i]], Reads[i], Pending(Reads[i])', first, m)
        <5>1. CASE i = pc
          <6>1. got'[f] = Listed(m, f) /\ left' = (DOMAIN m[f]) \X Files(f)
            BY <3>4, <3>6, <4>6, <5>1 DEF f
          <6>2. Pending(Reads[i])' = left'
            BY <3>1, <5>1 DEF Pending
          <6>3. FilesSeen(Listed(m, f), f, (DOMAIN m[f]) \X Files(f), first, m)
            BY ListSeen
          <6>4. QED
            BY <5>1, <6>1, <6>2, <6>3 DEF f
        <5>2. CASE i \in 1..(pc - 1)
          <6>1. Pending(Reads[i]) = {} /\ Pending(Reads[i])' = {}
            BY <3>1, <3>10, <5>2 DEF Pending, f
          <6>2. FilesSeen(got[Reads[i]], Reads[i], {}, first, m)
            BY <3>9, <4>0, <4>6, <5>2, <6>1 DEF Seen
          <6>3. QED
            BY <3>10, <5>2, <6>1, <6>2
        <5>3. QED
          BY <4>1, <5>1, <5>2
      <4>7. QED
        BY <3>1, <3>9, <4>4, <4>5, <4>6 DEF Seen
    <3>13. moved = 1 => OneChange'
      BY <3>1, <3>11 DEF OneChange
    <3>14. Torn'
      BY <3>1, <3>11, <3>12, <3>13 DEF Torn
    <3>15. QED
      BY <3>7, <3>8, <3>14 DEF IInv
  <2>3. CASE ReadFile
    <3> DEFINE d == Reads[pc - 1]
    <3>1. /\ left # {} /\ pc \in 2..13 /\ d \in Directories /\ d \in Fields
          /\ plan = None /\ ~Untouched /\ ~Untouched'
          /\ UNCHANGED <<m, profile, pc, plan, first, moved>>
      BY <2>0, <2>3, ReadsAreFields DEF ReadFile, Types, InHand, Untouched
    <3>2. PICK name \in DOMAIN got[d], file \in Files(d) :
             /\ <<name, file>> \in left
             /\ got' = [got EXCEPT ![d][name][file] = Content(m, d, name, file)]
             /\ left' = left \ (IF file = "type" /\ Content(m, d, name, file) # "Mains"
                                   THEN {name} \X Files(d) ELSE {<<name, file>>})
      BY <2>3 DEF ReadFile, IsNext
    <3>3. got = [e \in Fields |-> got[e]]
      BY <2>0 DEF Types
    <3>4. /\ got'[d] = [got[d] EXCEPT ![name][file] = Content(m, d, name, file)]
          /\ \A e \in Fields \ {d} : got'[e] = got[e]
          /\ got' = [e \in Fields |-> got'[e]]
      BY <3>1, <3>2, <3>3
    <3> HIDE DEF d
    <3>5. Types'
      <4>1. got'["avail"] = got["avail"]
        BY <3>1, <3>4, FieldsAre DEF Directories
      <4>2. left' # {} => pc' > 1 /\ Reads[pc' - 1] \in Directories
        BY <3>1 DEF d
      <4>3. QED
        BY <2>0, <3>1, <3>4, <4>1, <4>2 DEF Types
    <3>6. InHand' /\ PlanOfReads'
      BY <3>1 DEF InHand, PlanOfReads
    <3>7. Done = pc - 1 /\ Done' = pc - 1
      BY <3>1 DEF Done
    <3>8. \A i \in 1..(pc - 1) : Reads[i] # d => got'[Reads[i]] = got[Reads[i]]
      BY <3>1, <3>4, ReadsAreFields
    <3>9. /\ profile' \in VALID_PROFILES /\ WellFormed(first)' /\ (moved = 0 => m = first)
          /\ (moved <= 1 => Seen) /\ (moved = 1 => OneChange)
      BY <2>0, <3>1 DEF Torn
    <3>10. ASSUME moved <= 1 PROVE Seen'
      <4>0. Seen
        BY <3>9, <3>10
      <4>1. \A i \in 1..(pc - 1) : Reads[i] \notin Directories => got'[Reads[i]] = got[Reads[i]]
        BY <3>1, <3>8
      <4>2. /\ \A i \in 1..(pc - 1) : Reads[i] \notin Directories =>
                   got'[Reads[i]] \in {first[Reads[i]], m[Reads[i]]}
            /\ \A i, j \in 1..(pc - 1) :
                   i < j /\ Reads[i] \notin Directories /\ Reads[j] \notin Directories =>
                      got'[Reads[i]] = first[Reads[i]] \/ got'[Reads[j]] = m[Reads[j]]
        BY <3>7, <4>0, <4>1 DEF Seen
      <4>3. ASSUME NEW i \in 1..(pc - 1), Reads[i] \in Directories
            PROVE  FilesSeen(got'[Reads[i]], Reads[i], Pending(Reads[i])', first, m)
        <5>1. FilesSeen(got[Reads[i]], Reads[i], Pending(Reads[i]), first, m)
          BY <3>7, <4>0, <4>3 DEF Seen
        <5>2. CASE Reads[i] = d
          <6>1. Pending(Reads[i]) = left /\ Pending(Reads[i])' = left'
            BY <3>1, <5>2 DEF Pending, d
          <6>2. WellFormed(m)
            BY <2>0 DEF Types
          <6>3. FilesSeen(got[d], d, left, first, m)
            BY <5>1, <5>2, <6>1
          <6>4. name \in DOMAIN got[d] /\ file \in Files(d) /\ d \in Directories
            BY <3>1
          <6>5. FilesSeen(got'[d], d, left', first, m)
            BY <3>2, <3>4, <6>2, <6>3, <6>4, FileSeen
          <6>6. QED
            BY <5>2, <6>1, <6>5
        <5>3. CASE Reads[i] # d
          <6>1. Pending(Reads[i]) = {} /\ Pending(Reads[i])' = {}
            BY <3>1, <5>3 DEF Pending, d
          <6>2. QED
            BY <3>8, <5>1, <5>3, <6>1
        <5>4. QED
          BY <5>2, <5>3
      <4>4. QED
        BY <3>1, <3>7, <4>2, <4>3 DEF Seen
    <3>11. moved = 1 => OneChange'
      BY <3>1, <3>9 DEF OneChange
    <3>12. Torn'
      BY <3>1, <3>9, <3>10, <3>11 DEF Torn
    <3>13. QED
      BY <3>5, <3>6, <3>12 DEF IInv
  <2>4. CASE Plan
    <3>1. /\ pc = 14 /\ pc' = 0 /\ plan = None /\ plan' = PlanOf(profile, got)
          /\ left = {} /\ UNCHANGED <<m, profile, left, got, first, moved>>
      BY <2>0, <2>4 DEF Plan, InHand
    <3>2. Types'
      BY <2>0, <3>1 DEF Types
    <3>3. InHand'
      <4>1. got.avail \subseteq Preferences
        BY <2>0, <3>1 DEF Types
      <4>2. ASSUME NEW id \in {"cpu.epp", "power.ppd_profile", "memory.zram"}
            PROVE  plan'[id] = None \/ \E s \in Statuses, t \in Targets : plan'[id] = Action(s, t)
        <5>1. /\ \E s \in Statuses, t \in Targets : CpuAction(profile, got) = Action(s, t)
              /\ \E s \in Statuses, t \in Targets : PowerProfileAction(profile, got) = Action(s, t)
              /\ \E s \in Statuses, t \in Targets : ZramAction(got) = Action(s, t)
          BY <4>1, DecisionsAreActions
        <5>2. CASE id = "cpu.epp"
          BY <3>1, <5>1, <5>2, PlanParts
        <5>3. CASE id = "power.ppd_profile"
          BY <3>1, <5>1, <5>3, PlanParts
        <5>4. CASE id = "memory.zram"
          BY <3>1, <5>1, <5>4, PlanParts
        <5>5. QED
          BY <5>2, <5>3, <5>4
      <4>3. plan' = [id \in ActionIds |-> plan'[id]]
        BY <3>1, PlanIsFunction
      <4>4. QED
        BY <3>1, <4>2, <4>3 DEF InHand
    <3>4. PlanOfReads'
      BY <3>1 DEF PlanOfReads
    <3>5. Done' = Done
      BY <2>0, <3>1 DEF Done
    <3>6. /\ profile' \in VALID_PROFILES /\ WellFormed(first)' /\ (moved = 0 => m = first)
          /\ (moved <= 1 => Seen) /\ (moved = 1 => OneChange)
      BY <2>0, <3>1 DEF Torn
    <3>7. (Seen => Seen') /\ (OneChange => OneChange')
      <4>1. \A d : Pending(d) = {} /\ Pending(d)' = {}
        BY <3>1 DEF Pending
      <4>2. Seen => Seen'
        BY <3>1, <3>5, <4>1 DEF Seen
      <4>3. OneChange => OneChange'
        BY <3>1 DEF OneChange
      <4>4. QED
        BY <4>2, <4>3
    <3>8. Torn'
      BY <3>1, <3>6, <3>7 DEF Torn
    <3>9. QED
      BY <3>2, <3>3, <3>4, <3>8 DEF IInv
  <2>5. CASE MachineChanges
    <3>1. /\ m' \in OneThing(m) \cup DriverChange(m) /\ moved' = moved + 1
          /\ UNCHANGED <<profile, pc, left, got, first, plan>>
      BY <2>5 DEF MachineChanges
    <3>2. Types'
      BY <2>0, <3>1, StaysMachine DEF Types
    <3>3. InHand' /\ PlanOfReads' /\ Done' = Done /\ (Untouched' <=> Untouched)
      BY <2>0, <3>1 DEF InHand, PlanOfReads, Done, Untouched
    <3>4. Torn'
      <4>1. SUFFICES ASSUME pc > 0 \/ Untouched
                     PROVE  /\ profile' \in VALID_PROFILES /\ WellFormed(first)'
                            /\ moved' = 0 => m' = first'
                            /\ moved' <= 1 => Seen'
                            /\ moved' = 1 => OneChange'
        BY <3>1, <3>3 DEF Torn
      <4>2. /\ profile \in VALID_PROFILES /\ WellFormed(first)
            /\ (moved = 0 => m = first) /\ (moved <= 1 => Seen)
        BY <2>0, <4>1 DEF Torn
      <4>3. ASSUME moved = 0 PROVE Seen' /\ OneChange'
        <5>1. m = first /\ Seen
          BY <4>2, <4>3
        <5>2. Seen'
          BY <3>1, <3>3, <5>1, SeenChanges
        <5>3. QED
          BY <3>1, <5>1, <5>2 DEF OneChange
      <4>4. QED
        BY <2>0, <3>1, <4>2, <4>3
    <3>5. QED
      BY <3>2, <3>3, <3>4 DEF IInv
  <2>6. CASE Boot
    <3>1. /\ pc = 0 /\ moved' = moved + 1 /\ UNCHANGED <<profile, pc, left, got, first, plan>>
      BY <2>6 DEF Boot
    <3>2. WellFormed(m)'
      <4> DEFINE b == m.zdev \/ (ConfSources(m) # {} /\ ~Virtualized(m.virt) /\ m.zctl)
                 e == IF "default" \in m.avail THEN "default" ELSE m.current
      <4>1. m' = [m EXCEPT !.zdev = b, !.current = e]
        BY <2>6 DEF Boot
      <4>2. b \in BOOLEAN /\ WellFormed(m)
        BY <2>0 DEF Types
      <4> HIDE DEF b
      <4>3. QED
        BY <4>1, <4>2, BootStaysMachine
    <3>3. Types'
      BY <2>0, <3>1, <3>2 DEF Types
    <3>4. InHand' /\ PlanOfReads' /\ Done' = Done /\ (Untouched' <=> Untouched)
      BY <2>0, <3>1 DEF InHand, PlanOfReads, Done, Untouched
    <3>5. Torn'
      <4>1. SUFFICES ASSUME Untouched
                     PROVE  /\ profile' \in VALID_PROFILES /\ WellFormed(first)'
                            /\ moved' = 0 => m' = first'
                            /\ moved' <= 1 => Seen'
                            /\ moved' = 1 => OneChange'
        BY <3>1, <3>4 DEF Torn
      <4>2. /\ profile \in VALID_PROFILES /\ WellFormed(first)
            /\ (moved = 0 => m = first) /\ (moved <= 1 => Seen)
        BY <2>0, <4>1 DEF Torn
      <4>3. ASSUME moved = 0 PROVE Seen' /\ OneChange'
        <5>1. m = first /\ Seen
          BY <4>2, <4>3
        <5>2. Seen'
          BY <3>1, <3>4, <5>1, SeenChanges
        <5>3. \A i \in 1..Done : got[Reads[i]] = AllOf(first)[Reads[i]]
          BY <2>0, <3>1, <5>1, SeenStill DEF Done
        <5>4. QED
          BY <3>1, <3>4, <5>2, <5>3 DEF OneChange
      <4>4. QED
        BY <2>0, <3>1, <4>2, <4>3
    <3>6. QED
      BY <3>3, <3>4, <3>5 DEF IInv
  <2>7. CASE PutAway
    <3>1. /\ pc = 0 /\ plan' = None /\ moved' = 0 /\ UNCHANGED <<m, pc, left, got>>
      BY <2>7 DEF PutAway
    <3>2. QED
      BY <2>0, <3>1 DEF IInv, Types, InHand, Torn, PlanOfReads, Untouched
  <2>8. ASSUME NEW id \in ActionIds, Follow(id)
        PROVE  IInv'
    <3>1. InHand' /\ ~Untouched' /\ pc = 0 /\ UNCHANGED <<pc, left, got, moved>>
      BY <2>0, <2>8, FollowedIsTouched DEF Follow
    <3>2. WellFormed(m)'
      BY <2>0, <2>8, CarriedStaysMachine DEF Follow, Proposals, Types
    <3>3. QED
      BY <2>0, <3>1, <3>2 DEF IInv, Types, Torn, PlanOfReads
  <2>9. CASE UNCHANGED vars
    <3>1. UNCHANGED <<m, profile, pc, left, got, first, moved, changes, plan>>
      BY <2>9 DEF vars
    <3>2. QED
      BY <2>0, <3>1 DEF IInv, Types, InHand, Torn, PlanOfReads, Untouched, Seen, OneChange, Done, Pending
  <2>10. QED
    BY <2>1, <2>2, <2>3, <2>4, <2>5, <2>6, <2>7, <2>8, <2>9 DEF Next
<1>3. QED
  BY <1>1, <1>2, PTL DEF Spec

----------------------------------------------------------------------------
(* What is claimed                                                         *)

\* What was read up to one change is a mixture.
LEMMA SeenIsMixture ==
    ASSUME Seen, Done = 13, left = {}
    PROVE  Mixture(got, first, m)
<1>1. \A f \in Fields : \E i \in 1..13 : Reads[i] = f
  BY FieldsAre DEF Reads
<1>2. /\ Reads[4] = "current" /\ Reads[5] = "avail" /\ Reads[8] = "zdev" /\ Reads[13] = "zctl"
      /\ {"current", "avail", "zdev", "zctl"} \cap Directories = {}
  BY DEF Reads, Directories
<1>3. \A f \in Fields \ Directories : got[f] \in {first[f], m[f]}
  BY <1>1 DEF Seen
<1>4. \A d \in Directories : ReadAcross(got[d], d, first, m)
  <2>1. \A d \in Directories : FilesSeen(got[d], d, {}, first, m)
    <3>1. Directories \subseteq Fields
      BY FieldsAre DEF Directories
    <3>2. \A d : Pending(d) = {}
      BY DEF Pending
    <3>3. QED
      BY <1>1, <3>1, <3>2 DEF Seen
  <2>2. QED
    BY <2>1, SeenIsAcross
<1>5. got["zdev"] = first["zdev"] \/ got["zctl"] = m["zctl"]
  BY <1>2 DEF Seen
<1>6. got["current"] = first["current"] \/ got["avail"] = m["avail"]
  BY <1>2 DEF Seen
<1>7. QED
  BY <1>3, <1>4, <1>5, <1>6 DEF Mixture

\* A plan that one change of the machine tore is torn in one of the three ways
\* it says, and in no other: for every machine, any number of supplies and
\* cards, every read the change falls between, every profile and any number of
\* changes after.
THEOREM TornInNoOtherWay == Spec => []TornInThreeWays
<1>1. IInv => TornInThreeWays
  <2> SUFFICES ASSUME IInv, Untouched, moved <= 1, NEW id \in ActionIds
               PROVE  \/ OfAnInstant(id)
                      \/ id = "memory.zram" /\ id \in Proposals(plan) /\ ~first.zctl /\ m.zdev
                      \/ id = "cpu.epp" /\ id \in Proposals(plan) /\ first.avail # m.avail
                            /\ plan[id].target = m.current
                      \/ id = "gpu" /\ plan[id].confidence = "low"
                            /\ \E name \in DOMAIN first.cards : name \notin DOMAIN m.cards
    BY DEF TornInThreeWays
  <2>1. /\ plan = PlanOf(profile, got) /\ profile \in VALID_PROFILES /\ WellFormed(first)
        /\ (moved = 0 => m = first) /\ Seen /\ (moved = 1 => OneChange) /\ moved \in {0, 1}
    BY DEF IInv, Types, Torn, PlanOfReads
  <2>2. Done = 13 /\ left = {}
    BY ReadsAreFields DEF IInv, Types, InHand, Untouched, Done
  <2>3. Mixture(got, first, m)
    BY <2>1, <2>2, SeenIsMixture
  <2>4. CASE \A i \in 1..13 : got[Reads[i]] = AllOf(first)[Reads[i]]
    <3>1. \A f \in Fields : \E i \in 1..13 : Reads[i] = f
      BY FieldsAre DEF Reads
    <3>2. \A f \in Fields : got[f] = AllOf(first)[f]
      BY <2>4, <3>1
    <3>3. QED
      BY <2>1, <3>2, SamePlan DEF OfAnInstant
  <2>5. CASE moved = 0
    BY <2>1, <2>2, <2>4, <2>5, SeenStill
  <2>6. CASE moved = 1 /\ m \in OneThing(first) \cup DriverChange(first)
    BY <2>1, <2>3, <2>6, TornByOneChange DEF OfAnInstant
  <2>7. QED
    BY <2>1, <2>2, <2>4, <2>5, <2>6 DEF OneChange
<1>2. QED
  BY <1>1, Invariance, PTL

\* Whatever the machine is and has become, a plan carried out proposes nothing
\* again but the power profile.
THEOREM PlanSettles == Spec => []FollowedPlanSettles
<1>1. IInv => FollowedPlanSettles
  BY CarriedOutSettles DEF IInv, Types, FollowedPlanSettles
<1>2. QED
  BY <1>1, Invariance, PTL

\* For any cards in any order, high confidence in the topology is justified.
THEOREM ConfidenceIsEarned == Spec => []HighConfidenceIsRight
<1>1. IInv => HighConfidenceIsRight
  BY HighConfidence DEF IInv, Types, HighConfidenceIsRight
<1>2. QED
  BY <1>1, Invariance, PTL

\* Report, planner and doctor tell one story of every machine.
THEOREM OneStory == Spec => []ReportsSpeakForPlanner
<1>1. IInv => ReportsSpeakForPlanner
  BY PlanWithinReport, DoctorSpeaksForPlan DEF IInv, Types, ReportsSpeakForPlanner, VALID_PROFILES
<1>2. QED
  BY <1>1, Invariance, PTL
=============================================================================
