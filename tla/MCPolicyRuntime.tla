-------------------------- MODULE MCPolicyRuntime --------------------------
EXTENDS PolicyRuntime

S(kind, asks, hold, slots, lead, spare, prompt) ==
  [kind |-> kind, asks |-> asks, hold |-> hold, slots |-> slots,
   lead |-> lead, spare |-> spare, prompt |-> prompt]

(* Plans of two holds of two, of three of one, and with a lead longer than *)
(* a hold; a chunk; an oracle block; pushed plans and commands.            *)
AllSetups ==
  UNION {{S("plan",   TRUE, 2, 2, 1, 0, prompt),
          S("plan",   TRUE, 1, 3, 1, 0, prompt),
          S("plan",   TRUE, 2, 2, 3, 0, prompt),
          S("chunk",  TRUE, 2, 1, 1, 2, prompt),
          S("oracle", TRUE, 2, 1, 1, 4, prompt)} : prompt \in BOOLEAN}
    \cup {S("plan", FALSE, 2, 2, 1, 0, FALSE), S("direct", FALSE, 2, 1, 1, 0, FALSE)}
=============================================================================
