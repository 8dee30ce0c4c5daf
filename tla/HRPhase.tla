------------------------------ MODULE HRPhase ------------------------------
(* loadHR: seven tables; person_id and spell_id are the same number, so    *)
(* both anchor families count the same parents.                            *)
EXTENDS ResumablePhase

PersonTables == <<"persons", "employment_spells", "staff_addresses">>
SpellTables == <<"contracts", "staff_shifts", "payroll_lines">>

\* A bug to catch: the spells' tables before the persons'.
HRFlushOrderSpellsFirst == SpellTables \o PersonTables \o <<"compensation_history">>

\* The order of the bulk copies of a flush.
HRFlushOrder == PersonTables \o SpellTables \o <<"compensation_history">>

HRTables == {HRFlushOrder[k] : k \in 1..Len(HRFlushOrder)}

HRMarks == {PersonTables[k] : k \in 1..3} \cup {SpellTables[k] : k \in 1..3}

\* cleanupAbove(personTables), then cleanupAbove(spellTables).
HRDeletions ==
    LET order == <<PersonTables[3], PersonTables[2], PersonTables[1],
                   SpellTables[3], SpellTables[2], SpellTables[1]>>
    IN  [k \in 1..6 |-> [table |-> order[k], above |-> Batched]]

HRReferences ==
    {<<"employment_spells", "persons">>, <<"staff_addresses", "persons">>,
     <<"compensation_history", "persons">>, <<"contracts", "employment_spells">>,
     <<"staff_shifts", "employment_spells">>, <<"payroll_lines", "employment_spells">>}

\* Shifts go back five years and head office works none; a spell between two
\* payroll periods has no payroll lines.
HRDatasets == LayoutsWithSparse({"staff_shifts", "payroll_lines"})

\* transactions.staff_id and trade_ins.staff_id refer to spells.
HRExposed == {"employment_spells"}
=============================================================================
