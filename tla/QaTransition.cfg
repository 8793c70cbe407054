SPECIFICATION Spec
CONSTANTS
    Layouts = {"none", "regular", "linkInside", "linkOutside"}
    Texts = {"derivable", "noEntry", "autoinstall", "undecodable"}
    Catalogs = {"absent", "listed", "unlisted", "linkInside", "linkOutside"}
CHECK_DEADLOCK FALSE
INVARIANT DoneMeansNothingElseChanged
INVARIANT CatalogIsFresh
INVARIANT ModesComeBack
INVARIANT BlockedLeavesWholeFiles
