--------------------------- MODULE MCPageScripts ---------------------------
EXTENDS PageScripts, TLC

CONSTANTS d1, d2, p1, p2, a, b

MCDesigns == {d1, d2}
MCPages == {p1, p2}
MCPressing == {p1}

(* Equal keys, a column in which the order differs, a column that goes, no rows. *)
Cells(x, y) == (a :> x @@ b :> y)
MCTables == {
    [cols |-> {a, b}, rows |-> <<Cells(2, 1), Cells(1, 1), Cells(1, 2)>>],
    [cols |-> {a, b}, rows |-> <<Cells(1, 1), Cells(2, 2), Cells(1, 3)>>],
    [cols |-> {a, b}, rows |-> <<>>],
    [cols |-> {b}, rows |-> <<b :> 1, b :> 0, b :> 1>>]}
=============================================================================
