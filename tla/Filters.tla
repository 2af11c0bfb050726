------------------------------- MODULE Filters -------------------------------
(***************************************************************************)
(* The filter bar of the web client (web/components/filters.tsx): the      *)
(* "Add filter" menu with its keyboard highlight and its submenus, and one *)
(* chip per filter with an operator menu and a value control.              *)
(*                                                                         *)
(* React state is adjusted during render in three places, so every action  *)
(* ends in Put, which compares the state before and after it the way the   *)
(* component compares its previous keys.  The dropdown primitives are      *)
(* modal: at most one menu is open, and one dismissed by the user (a click *)
(* outside, Escape, or a click on an item that closes its menu) reports it *)
(* through onOpenChange, while a menu closed by the code does not.         *)
(***************************************************************************)
EXTENDS Integers, Sequences, FiniteSets, SequencesExt

CONSTANTS
  fields,      \* the field configuration: fields, or groups of fields
  Texts,       \* what a user can type into a search box, "" included
  Hits,        \* the pairs <<text, key or option>> whose label contains it
  Values,      \* what a user can type into a text filter, "" included
  Invalid,     \* the values a text field's validation refuses
  MaxFilters,  \* how many filters are ever created
  MaxEdits,    \* how often a user types a search or edits a chip
  MaxTimers    \* how many pending clear timers of a popover are told apart

VARIABLES
  mode,     \* how the parent uses it: the whole bar or chips, repeats allowed
  filters,  \* the filters, owned by the parent
  created,  \* how many ids createFilter has given out
  menu,     \* the state of the Add filter menu
  subm,     \* the state of the submenu's content, while it is mounted
  chip,     \* the state of each filter's value control
  typing,   \* the filter whose text input has the focus
  edits     \* how many edits were typed and chips edited

vars == <<mode, filters, created, menu, subm, chip, typing, edits>>

None == 0
Root == "root"
Ids == 1 .. MaxFilters

-----------------------------------------------------------------------------
(* Fields *)

isFieldGroup(item) == "fields" \in DOMAIN item

flattenFields ==
  FlattenSeq([i \in DOMAIN fields |->
    IF isFieldGroup(fields[i]) THEN fields[i].fields ELSE <<fields[i]>>])

FieldKeys ==
  {f.key : f \in {g \in Range(flattenFields) : g.type # "separator"}}

getFieldsMap ==
  [k \in FieldKeys |-> CHOOSE f \in Range(flattenFields) : f.key = k]

Field(k) == getFieldsMap[k]
Options(k) == Range(Field(k).options)
Empties == {"empty"}  \* for "not_empty" too

\* One operator with operand stands for each type's: is, is not, contains, ...
createOperatorsFromI18n ==
  [select |-> {"is"} \cup Empties,
   multiselect |-> {"is_any_of"} \cup Empties,
   text |-> {"is"} \cup Empties]

Operators == UNION Range(createOperatorsFromI18n)

getOperatorsForField(k, values) ==
  createOperatorsFromI18n[
    IF Field(k).type = "select" /\ Cardinality(values) > 1
    THEN "multiselect" ELSE Field(k).type]

Hit(text, x) == text = "" \/ <<text, x>> \in Hits

hasSubMenu(k) ==
  Field(k).type \in {"select", "multiselect"} /\ Field(k).options # <<>>

isMulti(k) == Field(k).type = "multiselect"

-----------------------------------------------------------------------------
(* What is on the screen *)

FieldsOf(fs) == {f.field : f \in Range(fs)}

selectableFields(fs) ==
  SelectSeq(flattenFields, LAMBDA f :
    /\ f.key \in FieldKeys
    /\ mode.allowMultiple \/ f.key \notin FieldsOf(fs))

filteredFields(m, fs) ==
  SelectSeq(selectableFields(fs), LAMBDA f : Hit(m.search, f.key))

FieldAt(m, fs, i) == filteredFields(m, fs)[i + 1].key

Shown(m, fs) == mode.form = "bar" /\ m.open /\ selectableFields(fs) # <<>>

\* The field whose submenu is on the screen.
Mounted(m, fs) ==
  IF /\ Shown(m, fs)
     /\ m.sub \in {f.key : f \in Range(filteredFields(m, fs))}
  THEN m.sub ELSE Root

ById(fs, id) == SelectLastInSeq(fs, LAMBDA f : f.id = id)
Present(fs, id) == \E f \in Range(fs) : f.id = id
TheFilter(fs, id) == fs[ById(fs, id)]

currentValues(m, fs, k) ==
  IF Present(fs, m.session[k]) THEN TheFilter(fs, m.session[k]).values ELSE {}

filteredOptions(m, s, fs, k) ==
  SelectSeq(Field(k).options, LAMBDA o :
    o \in currentValues(m, fs, k) \/ Hit(s.search, o))

\* A chip's own options: the selected ones first, then the others that match.
allFilteredOptions(f) ==
  LET opts == Field(f.field).options
  IN SelectSeq(opts, LAMBDA o : o \in f.values)
     \o SelectSeq(opts, LAMBDA o :
          o \notin f.values /\ Hit(chip[f.id].search, o))

Down(hi, n) == IF n = 0 THEN hi ELSE IF hi < n - 1 THEN hi + 1 ELSE 0

Up(hi, n) == IF n = 0 THEN hi ELSE IF hi > 0 THEN hi - 1 ELSE n - 1

-----------------------------------------------------------------------------
(* State adjusted during render *)

FreshSub == [search |-> "", hi |-> -1]
FreshChip ==
  [open |-> FALSE, search |-> "", hi |-> -1, timers |-> 0, invalid |-> FALSE]

\* The menu: a changed search drops the highlight, closing collapses the
\* submenu, and opening, or a changed number of matches, highlights the first.
KeepsHighlight(m, fs) ==
  [m EXCEPT !.sub = IF menu.open /\ ~m.open THEN Root ELSE @]

RenderMenu(m, fs) ==
  LET n == Len(filteredFields(m, fs))
  IN [m EXCEPT
       !.sub = IF menu.open /\ ~m.open THEN Root ELSE @,
       !.hi = IF /\ <<m.open, n>> #
                    <<menu.open, Len(filteredFields(menu, filters))>>
                 /\ m.open /\ n > 0
              THEN 0
              ELSE IF m.search # menu.search THEN -1 ELSE @]

\* The submenu's content, mounted afresh when another field's is shown.
RenderSub(m, s, fs) ==
  LET k == Mounted(m, fs)
      n(m1, s1, fs1) == Len(filteredOptions(m1, s1, fs1, k))
      Key(m1, s1, fs1) == <<m1.active = k, n(m1, s1, fs1)>>
  IN IF k = Root \/ k # Mounted(menu, filters) THEN FreshSub
     ELSE [s EXCEPT
            !.hi = IF /\ Key(m, s, fs) # Key(menu, subm, filters)
                      /\ m.active = k /\ n(m, s, fs) > 0
                   THEN 0
                   ELSE IF s.search # subm.search THEN -1 ELSE @]

Put(m, s, fs) ==
  LET m1 == RenderMenu(m, fs)
  IN /\ menu' = m1
     /\ subm' = RenderSub(m1, s, fs)
     /\ filters' = fs

PutMenu(m) == Put(m, subm, filters)

\* onChange of the parent, with the menu and the submenu left alone.
onChange(fs) == Put(menu, subm, fs)

-----------------------------------------------------------------------------
(* The filters *)

NewFilter(id, k, operator, values) ==
  [id |-> id, field |-> k, operator |-> operator, values |-> values]

createFilter(k, operator, values) ==
  NewFilter(created + 1, k, operator, values)

updateFilter(id, f) == [i \in DOMAIN filters |->
                          IF filters[i].id = id THEN f ELSE filters[i]]

Without(id) == SelectSeq(filters, LAMBDA f : f.id # id)

\* A value control that is not on the screen has no state.
Unmount(ids) == [id \in Ids |-> IF id \in ids THEN FreshChip ELSE chip[id]]

Busy == Shown(menu, filters) \/ \E id \in Ids : chip[id].open
Others == UNCHANGED <<mode, created, chip, typing>>
Rest == Others /\ UNCHANGED edits

Edit == edits < MaxEdits /\ edits' = edits + 1

\* A user types t into a search box; emptying it is free.
Typed(t) == IF t = "" THEN UNCHANGED edits ELSE Edit

removeFilter(id) ==
  /\ Present(filters, id) /\ ~Busy /\ typing = None
  /\ onChange(Without(id))
  /\ chip' = Unmount({id})
  /\ UNCHANGED <<mode, created, typing, edits>>

KeepsValues(id, op) ==
  /\ Present(filters, id) /\ ~Busy /\ typing = None
  /\ op \in getOperatorsForField(TheFilter(filters, id).field,
                                 TheFilter(filters, id).values)
  /\ onChange(updateFilter(id,
       [TheFilter(filters, id) EXCEPT !.operator = op]))
  /\ chip' = IF op \in Empties THEN Unmount({id}) ELSE chip
  /\ Edit /\ UNCHANGED <<mode, created, typing>>

\* The operator menu of a chip.  An operator without operand empties the
\* values, and the value control goes away.
setOperator(id, op) ==
  /\ Present(filters, id) /\ ~Busy /\ typing = None
  /\ op \in getOperatorsForField(TheFilter(filters, id).field,
                                 TheFilter(filters, id).values)
  /\ onChange(updateFilter(id,
       [TheFilter(filters, id) EXCEPT
          !.operator = op, !.values = IF op \in Empties THEN {} ELSE @]))
  /\ chip' = IF op \in Empties THEN Unmount({id}) ELSE chip
  /\ Edit /\ UNCHANGED <<mode, created, typing>>

-----------------------------------------------------------------------------
(* FilterInput: the value of a text filter *)

\* The chip shows a value control of this type.
FilterValueSelector(id, types) ==
  /\ Present(filters, id)
  /\ TheFilter(filters, id).operator \notin Empties
  /\ Field(TheFilter(filters, id).field).type \in types

TextOf(id) ==
  LET vs == TheFilter(filters, id).values
  IN IF vs = {} THEN "" ELSE CHOOSE v \in vs : TRUE

FocusInput(id) ==
  /\ FilterValueSelector(id, {"text"}) /\ ~Busy /\ typing = None
  /\ typing' = id
  /\ UNCHANGED <<mode, filters, created, menu, subm, chip, edits>>

\* A key goes to the input before the text changes; pasting presses none.
TypeText(id, v, byKey) ==
  /\ typing = id /\ v # TextOf(id)
  /\ chip' = [chip EXCEPT ![id].invalid = @ /\ ~byKey]
  /\ onChange(updateFilter(id, [TheFilter(filters, id) EXCEPT !.values = {v}]))
  /\ Edit /\ UNCHANGED <<mode, created, typing>>

handleBlur(id) ==
  /\ typing = id
  /\ chip' = [chip EXCEPT
       ![id].invalid = TextOf(id) # "" /\ TextOf(id) \in Invalid]
  /\ typing' = None
  /\ UNCHANGED <<mode, filters, created, menu, subm, edits>>

-----------------------------------------------------------------------------
(* SelectOptionsPopover: the values of a select or multiselect filter *)

isMultiSelect(f) == isMulti(f.field) \/ Cardinality(f.values) > 1

Popover(id) ==
  FilterValueSelector(id, {"select", "multiselect"}) /\ chip[id].open

\* Closed by the user (the search is cleared 200 ms later) or by the code.
Dismissed(c) ==
  [c EXCEPT !.open = FALSE, !.hi = -1,
            !.timers = IF @ < MaxTimers THEN @ + 1 ELSE @]

handleClose(c) == [c EXCEPT !.open = FALSE, !.hi = -1]

OpenPopover(id) ==
  /\ FilterValueSelector(id, {"select", "multiselect"})
  /\ ~Busy /\ typing = None
  /\ chip' = [chip EXCEPT ![id].open = TRUE, ![id].hi = -1]
  /\ UNCHANGED <<mode, filters, created, menu, subm, typing, edits>>

PopoverKeys(id) ==
  LET f == TheFilter(filters, id)
      n == Len(allFilteredOptions(f))
  IN /\ Popover(id)
     /\ \/ \E t \in Texts \ {chip[id].search} :
             chip' = [chip EXCEPT ![id].search = t, ![id].hi = -1] /\ Typed(t)
        \/ /\ \/ chip' = [chip EXCEPT ![id].hi = Down(@, n)]
              \/ chip' = [chip EXCEPT ![id].hi = Up(@, n)]
              \/ chip' = [chip EXCEPT ![id] = handleClose(@)]
              \/ chip' = [chip EXCEPT ![id] = Dismissed(@)]
           /\ UNCHANGED edits
     /\ UNCHANGED <<mode, filters, created, menu, subm, typing>>

\* The timer is not cancelled when the popover opens again.
ClearSearch(id) ==
  /\ chip[id].timers > 0
  /\ chip' = [chip EXCEPT
       ![id].timers = @ - 1,
       ![id].search = "",
       ![id].hi = IF chip[id].search = "" THEN @ ELSE -1]
  /\ UNCHANGED <<mode, filters, created, menu, subm, typing, edits>>

\* What choosing option o makes of the values of f.
Toggled(f, o) ==
  IF o \in f.values THEN f.values \ {o}
  ELSE IF isMultiSelect(f) THEN f.values \cup {o} ELSE {o}

withinLimit(f, o) ==
  \/ o \in f.values \/ ~isMultiSelect(f) \/ Field(f.field).maxSelections = 0
  \/ Cardinality(Toggled(f, o)) <= Field(f.field).maxSelections

\* A click on an option, or Enter on the highlighted one.
updateValues(id, o, byClick) ==
  LET f == TheFilter(filters, id)
      all == allFilteredOptions(f)
  IN /\ Popover(id)
     /\ o \in Range(all)
     /\ \/ byClick
        \/ chip[id].hi \in 0 .. Len(all) - 1 /\ all[chip[id].hi + 1] = o
     /\ withinLimit(f, o)
     /\ onChange(updateFilter(id, [f EXCEPT !.values = Toggled(f, o)]))
     /\ chip' = [chip EXCEPT ![id] =
          IF isMultiSelect(f) THEN @
          ELSE IF byClick THEN Dismissed(@) ELSE handleClose(@)]
     /\ Edit /\ UNCHANGED <<mode, created, typing>>

-----------------------------------------------------------------------------
(* The Add filter menu *)

NoSession == [k \in FieldKeys |-> None]

\* Dismissed by the user.
CloseMenu(m) == [m EXCEPT !.open = FALSE, !.search = "", !.session = NoSession]

OpenMenu ==
  /\ mode.form = "bar" /\ ~Busy /\ typing = None
  /\ ~menu.open /\ selectableFields(filters) # <<>>
  /\ PutMenu([menu EXCEPT !.open = TRUE, !.active = Root])
  /\ Rest

\* The shortcut key sets the menu open even where none is on the screen.
Shortcut ==
  /\ mode.form = "bar" /\ ~menu.open /\ ~Busy /\ typing = None
  /\ PutMenu([menu EXCEPT !.open = TRUE])
  /\ Rest

DismissMenu ==
  /\ Shown(menu, filters)
  /\ PutMenu(CloseMenu(menu))
  /\ Rest

MenuSearch(t) ==
  /\ Shown(menu, filters) /\ t # menu.search
  /\ PutMenu([menu EXCEPT !.search = t])
  /\ Typed(t) /\ Others

\* A field without options becomes a filter at once and the menu closes: by
\* the code alone when chosen with Enter, by the user too when clicked.
addFilter(k, byClick) ==
  /\ created < MaxFilters
  /\ LET type == Field(k).type
         op == IF type = "multiselect" THEN "is_any_of" ELSE "is"
         values == IF type = "text" THEN {""} ELSE {}
         closed == [menu EXCEPT !.open = FALSE, !.search = ""]
     IN Put(IF byClick THEN CloseMenu(menu) ELSE closed, subm,
            Append(filters, createFilter(k, op, values)))
  /\ created' = created + 1
  /\ UNCHANGED <<mode, chip, typing, edits>>

handleRootKeyDown ==
  LET n == Len(filteredFields(menu, filters))
      k == FieldAt(menu, filters, menu.hi)
      At == menu.hi \in 0 .. n - 1
  IN /\ Shown(menu, filters)
     /\ \/ PutMenu([menu EXCEPT !.hi = Down(@, n)]) /\ Rest
        \/ PutMenu([menu EXCEPT !.hi = Up(@, n)]) /\ Rest
        \/ At /\ hasSubMenu(k)
           /\ PutMenu([menu EXCEPT !.sub = k, !.active = k]) /\ Rest
        \/ menu.hi >= 0 /\ menu.sub # Root
           /\ PutMenu([menu EXCEPT !.sub = Root, !.active = Root]) /\ Rest
        \/ At /\ hasSubMenu(k)
           /\ PutMenu([menu EXCEPT !.sub = IF @ = k THEN Root ELSE k,
                                   !.active = IF @ = k THEN Root ELSE k])
           /\ Rest
        \/ At /\ ~hasSubMenu(k) /\ addFilter(k, FALSE)

ClickField ==
  /\ Shown(menu, filters)
  /\ \E f \in Range(filteredFields(menu, filters)) :
       ~hasSubMenu(f.key) /\ addFilter(f.key, TRUE)

\* The pointer opens a field's submenu and leaves it again.
HoverField(k) ==
  /\ Shown(menu, filters)
  /\ k \in {f.key : f \in Range(filteredFields(menu, filters))}
  /\ hasSubMenu(k)
  /\ PutMenu(IF menu.sub = k
             THEN [menu EXCEPT !.sub = Root, !.active = Root]
             ELSE [menu EXCEPT !.sub = k])
  /\ Rest

-----------------------------------------------------------------------------
(* FilterSubmenuContent *)

SubmenuKeys(k) ==
  LET n == Len(filteredOptions(menu, subm, filters, k))
  IN /\ k # Root /\ Mounted(menu, filters) = k
     /\ \/ \E t \in Texts \ {subm.search} :
             Put(menu, [subm EXCEPT !.search = t], filters) /\ Typed(t)
        \/ /\ \/ menu.active # k /\ PutMenu([menu EXCEPT !.active = k])
              \/ Put(menu, [subm EXCEPT !.hi = Down(@, n)], filters)
              \/ Put(menu, [subm EXCEPT !.hi = Up(@, n)], filters)
              \/ PutMenu([menu EXCEPT !.sub = Root, !.active = Root])
           /\ UNCHANGED edits
     /\ Others

ToggleMany(k, o) ==
  LET id == menu.session[k]
      current == currentValues(menu, filters, k)
      next == IF o \in current THEN current \ {o} ELSE current \cup {o}
  IN \/ /\ Present(filters, id) /\ next = {}
        /\ Put([menu EXCEPT !.session[k] = None], subm, Without(id))
        /\ chip' = Unmount({id})
        /\ UNCHANGED <<mode, created, typing, edits>>
     \/ /\ Present(filters, id) /\ next # {}
        /\ onChange(updateFilter(id,
             [TheFilter(filters, id) EXCEPT !.values = next]))
        /\ Rest
     \/ /\ ~Present(filters, id) /\ created < MaxFilters
        /\ Put([menu EXCEPT !.session[k] = created + 1], subm,
               Append(filters, createFilter(k, "is_any_of", next)))
        /\ created' = created + 1
        /\ UNCHANGED <<mode, chip, typing, edits>>

\* Choosing option o of a select field makes a filter and closes the menu.
ToggleOne(k, o, byClick) ==
  /\ created < MaxFilters
  /\ LET back == [menu EXCEPT !.open = FALSE, !.sub = Root, !.active = Root]
     IN Put(IF byClick THEN CloseMenu(back) ELSE back, subm,
            Append(filters, createFilter(k, "is", {o})))
  /\ created' = created + 1
  /\ UNCHANGED <<mode, chip, typing, edits>>

handleOptionToggle(k, o, byClick) ==
  LET opts == filteredOptions(menu, subm, filters, k)
  IN /\ k # Root /\ Mounted(menu, filters) = k
     /\ o \in Range(opts)
     /\ byClick \/ (subm.hi \in 0 .. Len(opts) - 1 /\ opts[subm.hi + 1] = o)
     /\ IF isMulti(k) THEN ToggleMany(k, o) ELSE ToggleOne(k, o, byClick)

-----------------------------------------------------------------------------
(* The specification *)

\* The parent may start with a filter of its own: a select field with several
\* values, or an empty text.
FiltersInit ==
  /\ mode \in [form : {"bar", "chips"}, allowMultiple : BOOLEAN]
  /\ \/ filters = <<>> /\ created = 0
     \/ \E k \in {j \in FieldKeys : Field(j).type \in {"select", "text"}} :
          /\ filters = <<IF Field(k).type = "text"
                         THEN NewFilter(1, k, "is", {""})
                         ELSE NewFilter(1, k, "is_any_of", Options(k))>>
          /\ created = 1
  /\ menu = [open |-> FALSE, search |-> "", active |-> Root, sub |-> Root,
             hi |-> -1, session |-> NoSession]
  /\ subm = FreshSub
  /\ chip = [id \in Ids |-> FreshChip]
  /\ typing = None
  /\ edits \in 0 .. MaxEdits

AddMenu ==
  \/ OpenMenu \/ Shortcut \/ DismissMenu \/ handleRootKeyDown \/ ClickField
  \/ \E t \in Texts : MenuSearch(t)
  \/ \E k \in FieldKeys :
       \/ HoverField(k) \/ SubmenuKeys(k)
       \/ \E o \in Options(k), c \in BOOLEAN : handleOptionToggle(k, o, c)

FiltersContent(id) ==
  \/ removeFilter(id) \/ FocusInput(id) \/ handleBlur(id)
  \/ OpenPopover(id) \/ PopoverKeys(id) \/ ClearSearch(id)
  \/ \E op \in Operators : setOperator(id, op)
  \/ \E v \in Values, b \in BOOLEAN : TypeText(id, v, b)
  \/ \E k \in FieldKeys : \E o \in Options(k), c \in BOOLEAN :
       updateValues(id, o, c)

FiltersNext ==
  AddMenu \/ \E id \in Ids : FiltersContent(id)

FiltersSpec == FiltersInit /\ [][FiltersNext]_vars

-----------------------------------------------------------------------------
(* Properties *)

\* Enter in a search box reads what the highlight names: whatever was typed,
\* added, removed or reopened in between, the highlight of the menu names a field
\* of the list on the screen, that of a submenu or of a chip an option.  The
\* exception is a bar without repeats whose last match was just used up from its
\* submenu: the index then stays on an empty list.
HighlightNamesAField ==
  /\ Shown(menu, filters) /\ menu.hi >= 0 =>
       \/ menu.hi < Len(filteredFields(menu, filters))
       \/ ~mode.allowMultiple /\ filteredFields(menu, filters) = <<>>
  /\ subm.hi >= 0 => \E k \in FieldKeys : subm.hi < Len(Field(k).options)
  /\ \A f \in Range(filters) :
       chip[f.id].hi \in -1 .. Len(Field(f.field).options) - 1

OnePerField(list) ==
  \A i, j \in DOMAIN list : list[i].field = list[j].field => i = j

\* Filters are told apart by id and never by field: a step adds, removes or
\* changes one filter and leaves the others as they are, in their order.  No step
\* puts two filters on one field where repeats are off, by whatever mix of menu,
\* submenu and chips; takes a filter past its field's maxSelections, but for the
\* Add filter menu, which does not look at the limit; or adds values to a filter
\* that asks for "empty", but for a submenu whose session still points at the
\* filter after the menu was closed by the code.
EditsKeepTheRules ==
  [][/\ \E id \in Ids :
          SelectSeq(filters, LAMBDA f : f.id # id)
            = SelectSeq(filters', LAMBDA f : f.id # id)
     /\ ~mode.allowMultiple /\ OnePerField(filters) => OnePerField(filters')
     /\ \A f \in Range(filters), g \in Range(filters') : f.id = g.id =>
          /\ Cardinality(g.values) > Field(f.field).maxSelections =>
               \/ Field(f.field).maxSelections = 0
               \/ Cardinality(g.values) <= Cardinality(f.values)
               \/ Shown(menu, filters)
          /\ g.operator \in Empties /\ g.values # {} =>
               \/ f.values # {} /\ f.operator \in Empties
               \/ Shown(menu, filters) /\ menu.session[f.field] = f.id]_vars
=============================================================================
