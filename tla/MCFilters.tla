------------------------------ MODULE MCFilters ------------------------------
(***************************************************************************)
(* A filter bar with a select, a multiselect (limited to one selection)    *)
(* and a text field, the first two in a group with a separator.            *)
(***************************************************************************)
EXTENDS Filters

MCField(k, type, options, max) ==
  [key |-> k, type |-> type, options |-> options, maxSelections |-> max]

MCFields ==
  << [group |-> "catalog",
      fields |-> << MCField("status", "select", <<"open", "done">>, 0),
                    MCField("rule", "separator", <<>>, 0),
                    MCField("labels", "multiselect", <<"bug", "docs">>, 1) >>],
     MCField("name", "text", <<>>, 0) >>

MCTexts == {"", "a"}
MCHits == {<<"a", "labels">>, <<"a", "name">>, <<"a", "docs">>}

\* The bar with and without repeats, starting empty; the chips alone, starting
\* with a filter of the parent's and more edits to come.
MCInit ==
  /\ FiltersInit
  /\ IF mode.form = "chips"
     THEN mode.allowMultiple /\ created = 1 /\ edits = 0
     ELSE created = 0 /\ edits = MaxEdits - 1

MCSpec == MCInit /\ [][FiltersNext]_vars
=============================================================================
