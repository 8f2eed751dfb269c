------------------------- MODULE MCLicenseManager -------------------------
(* Small instances of LicenseManager for TLC. *)
EXTENDS LicenseManager, TLC

CONSTANTS r1, r2, r3, c1, c2, c3

BothActions == {"hide-licenses", "restore-licenses"}

(* The manager enabled for every file. *)
AllFiles == {[enabled |-> TRUE, files |-> File]}

(* An administrator who also disables it, or drops the first file. *)
SavedConfigs ==
    AllFiles \union {[enabled |-> FALSE, files |-> {}],
                     [enabled |-> TRUE, files |-> {NumFiles}]}

Symmetry == Permutations(Request) \union Permutations(Content)

===========================================================================
