------------------------------ MODULE GpuPolicy ------------------------------
(***************************************************************************)
(* serein.hardware.gpu and gpu_policy: what the graphics cards of a machine *)
(* are taken for.  The hardware planner and the AI planner share it.       *)
(* Cards are functions from names (card0, card1, ...); classified is what   *)
(* was read of each name that was listed, whether or not the card is still *)
(* there.                                                                  *)
(***************************************************************************)
EXTENDS Naturals, Sequences

\* A card as sysfs shows it (vendor, PCI class, boot_vga), and what it is.
Cards == [igpu    |-> [vendor |-> "Intel",  class |-> "vga", boot |-> TRUE,  is |-> "integrated"],
          idle    |-> [vendor |-> "AMD",    class |-> "vga", boot |-> FALSE, is |-> "integrated"],
          desktop |-> [vendor |-> "AMD",    class |-> "vga", boot |-> TRUE,  is |-> "discrete"],
          second  |-> [vendor |-> "AMD",    class |-> "vga", boot |-> FALSE, is |-> "discrete"],
          offload |-> [vendor |-> "AMD",    class |-> "3d",  boot |-> FALSE, is |-> "discrete"],
          nvidia  |-> [vendor |-> "NVIDIA", class |-> "vga", boot |-> FALSE, is |-> "discrete"],
          virtual |-> [vendor |-> "other",  class |-> "vga", boot |-> FALSE, is |-> "virtual"]]

\* Mutant: boot_vga is believed of a card that is alone.
ClassifySolo(card, several) ==
    IF card.class = "3d" \/ card.vendor = "NVIDIA" THEN "discrete"
    ELSE IF card.class = "vga" /\ card.boot /\ card.vendor \in {"Intel", "AMD"}
      THEN "integrated" ELSE "unknown"

Classify(card, several) ==
    IF card.class = "3d" \/ card.vendor = "NVIDIA" THEN "discrete"
    ELSE IF several /\ card.class = "vga" /\ card.boot /\ card.vendor \in {"Intel", "AMD"}
      THEN "integrated" ELSE "unknown"

\* total_gpus > 1: counted when the cards are listed.
Several(read) == \E i, j \in DOMAIN read : i # j

\* Confidence is medium for an integrated card, high for a discrete one.
Kinds(read) == {Classify(read[i], Several(read)) : i \in DOMAIN read}

Hybrid(read) ==
    IF {"integrated", "discrete"} \subseteq Kinds(read)
      THEN [is |-> "yes", confidence |-> IF "unknown" \in Kinds(read) THEN "low" ELSE "medium"]
    ELSE IF Several(read) /\ "unknown" \in Kinds(read)
      THEN [is |-> "unknown", confidence |-> "low"]
    ELSE [is |-> "no", confidence |-> "high"]

NvidiaPresent(cards) == \E i \in DOMAIN cards : Cards[cards[i]].vendor = "NVIDIA"
=============================================================================
