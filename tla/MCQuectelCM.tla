------------------------------ MODULE MCQuectelCM ------------------------------
(***************************************************************************)
(* QuectelCM for TLC: the command lines qcm.sh builds.                     *)
(***************************************************************************)
EXTENDS QuectelCM

CMProfiles == {<<{4, 6}, "none", FALSE>>, <<{6}, "none", FALSE>>, <<{4}, "apn", FALSE>>,
               <<{4}, "user", FALSE>>}
=============================================================================
