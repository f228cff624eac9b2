------------------------------ MODULE MCSitting ------------------------------
(* An instance of Sitting for TLC.                                          *)
EXTENDS Sitting

MCOptions ==
  { [ears |-> TRUE, fallback |-> TRUE, adopt |-> FALSE, model |-> TRUE, cli |-> TRUE],
    [ears |-> TRUE, fallback |-> FALSE, adopt |-> TRUE, model |-> TRUE, cli |-> FALSE],
    [ears |-> TRUE, fallback |-> TRUE, adopt |-> TRUE, model |-> FALSE, cli |-> TRUE] }
MCOrder == <<2, 1>>
MCClassOf == <<"home", "home">>
=============================================================================
