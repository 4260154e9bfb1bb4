----------------------------- MODULE MCDatabase -----------------------------
(***************************************************************************)
(* All migrations and all seeds, two days, and one tour that the service   *)
(* reviews or suspends.                                                    *)
(***************************************************************************)
EXTENDS Database

MCWatched == {"kakum-canopy-walk"}
=============================================================================
