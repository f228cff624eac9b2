---------------------------- MODULE MCInterview -----------------------------
(***************************************************************************)
(* Instances of Interview for TLC: a brief of three items whose ids are not  *)
(* in the order the factory chose, and one of a single item.                *)
(***************************************************************************)
EXTENDS Interview

ThreeItems == <<3, 1, 2>>
OneItem    == <<1>>
=============================================================================
