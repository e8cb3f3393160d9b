----------------------------- MODULE MC_Client ------------------------------
(* Instances of Client for TLC.                                            *)
EXTENDS Client

CONSTANTS u1, u2, m1, m2, p1, p2, s1, l1, l2, r1, r2, c1, c2, n1, n2, 
          i1, i2

MCUser        == {u1, u2}
MCAgentOwner  == {u1}
MCAdmin       == {u2}
MCModel       == {m1, m2}
MCPrinter     == {p1, p2}
MCSerial      == {s1}
MCLine        == {l1, l2}
MCProduct     == {r1, r2}
MCComponent   == {c1, c2}
MCNote        == {n1, n2}
MCItem        == {i1, i2}
MCAuxLine     == {l2}
MCPlanItem    == {i1}
MCQuantity    == {1, 2}
MCPageSizes   == {1, 2}
MCDay         == {1}
MCTableWidths == <<2, 2, 4>>
MCRoute       == {<<"tech", "models", "all">>, <<"production", "report", "xlsx">>, <<"agent", "tasks">>}
=============================================================================
