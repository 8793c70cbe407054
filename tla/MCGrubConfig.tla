---------------------------- MODULE MCGrubConfig ----------------------------
(* Command lines with and without the separator, the console on either     *)
(* side of it, a quiet to drop on either side, and an unattended install.  *)
EXTENDS GrubConfig

const_Args == {<<>>, <<"quiet", "splash">>, <<"---", "quiet">>, <<"splash", "---">>,
               <<"console=ttyS0", "---">>, <<"---", "console=ttyS0">>,
               <<"autoinstall", "---">>}
=============================================================================
