--------------------------- MODULE UnivariateFilter ---------------------------
(***************************************************************************)
(* The checkboxes of the univariate page: pages/univariate.py draws them   *)
(* from the newest run, the newest selection and the filter a tab knows;   *)
(* a click asks callbacks.py for the selection of all boxes now checked;   *)
(* analysis_compute.py picks its rows. Requests run in threads of several  *)
(* processes, so two of one tab may finish in either order. Every night    *)
(* univariate_refresh.py computes again and selects everything.            *)
(*                                                                         *)
(* A box is <<group, category>>; a filter is a set of such pairs with the  *)
(* values of the rows. Ages are in quarters of a year, monthly returns in  *)
(* percent, and a band is known by its place. Every listing that has       *)
(* quotes has both, so the bands of unknown values are left out.           *)
(***************************************************************************)
EXTENDS Integers, FiniteSets

CONSTANTS
    Measured,      \* per run and listing: frequency, age, month, usable
    FilterTabs, MaxToggles, MaxNights

Etfs == DOMAIN Measured[1]

\* The label of the box is not a frequency itself.
ASSUME FilterAssumption ==
    /\ 1 \in DOMAIN Measured
    /\ \A run \in DOMAIN Measured, etf \in Etfs : Measured[run][etf].frequency # "none / unknown"

VARIABLES
    newest,        \* newest succeeded run of the universe
    stored,        \* newest univariate selection: members, and the click it is from
    preference,    \* the predicates saved as univariate.filters
    edits,         \* what the browser's storage keeps of clicks on boxes
    tab,           \* what each tab knows and shows
    asks,          \* requests on their way
    night,         \* the nightly command
    toggles, nights

filterVars == <<newest, stored, preference, edits, tab, asks, night, toggles, nights>>

Groups == {"frequency", "age", "month"}
Nobody == <<"nobody", 0>>

Above(bounds, x) == Cardinality({k \in DOMAIN bounds : bounds[k] < x})

-----------------------------------------------------------------------------
(* The page.                                                               *)

PageCategory(row, group) ==
    CASE group = "frequency" ->
            IF row.frequency \in {"none", "unknown"} THEN "none / unknown" ELSE row.frequency
      [] group = "age" -> Above(<<1, 2, 4, 8, 12, 16, 20>>, row.age)
      [] group = "month" -> Above(<<-10, 0, 2, 5, 10>>, row.month)

Category(run, etf, group) == <<group, PageCategory(Measured[run][etf], group)>>

Counted(run, box) == {etf \in Etfs : Category(run, etf, box[1]) = box}

\* The table of ages has all its bands, the others those that occur.
Boxes(run) ==
    {Category(run, etf, group) : etf \in Etfs, group \in Groups} \cup ({"age"} \X (0 .. 7))

\* A group without a filter has the boxes checked whose rows are all selected.
Rendered(run, filter, members) ==
    {box \in Boxes(run) :
        \/ box \in filter
        \/ /\ \A value \in filter : value[1] # box[1]
           /\ Counted(run, box) # {} /\ Counted(run, box) \subseteq members}

\* The browser restores a click on a box that is drawn as it was before it.
Restored(run, drawn) ==
    {box \in DOMAIN edits \cap Boxes(run) : edits[box].from = (box \in drawn)}

Draw(t) ==
    LET drawn == Rendered(newest, tab[t].filter, stored.members)
        restored == Restored(newest, drawn)
        kept == (DOMAIN edits \ Boxes(newest)) \cup restored
    IN  /\ tab[t].pc = "draw"
        /\ tab' = [tab EXCEPT ![t].pc = "shown", ![t].drawn = newest,
                       ![t].checked = (drawn \ restored) \cup {box \in restored : edits[box].to}]
        /\ edits' = [box \in kept |-> edits[box]]
        /\ UNCHANGED <<newest, stored, preference, asks, night, toggles, nights>>

-----------------------------------------------------------------------------
(* The callback of the boxes. Fault_Values is a fault a mutant may have:    *)
(* the one box of two frequencies taken for a frequency.                   *)

Toggle(t, box) ==
    LET on == box \notin tab[t].checked
        checked == IF on THEN tab[t].checked \cup {box} ELSE tab[t].checked \ {box}
        from == IF box \in DOMAIN edits THEN edits[box].from ELSE ~on
    IN  /\ toggles < MaxToggles /\ tab[t].pc = "shown"
        /\ Counted(tab[t].drawn, box) # {}
        /\ toggles' = toggles + 1
        /\ tab' = [tab EXCEPT ![t].checked = checked, ![t].asked = toggles + 1]
        /\ edits' = [b \in DOMAIN edits \cup {box} |->
                        IF b = box THEN [from |-> from, to |-> on] ELSE edits[b]]
        /\ asks' = asks \cup {[tab |-> t, click |-> toggles + 1, boxes |-> checked,
                                 run |-> tab[t].run, pc |-> "select"]}
        /\ UNCHANGED <<newest, stored, preference, night, nights>>

Fault_Values(box) == {box}

Values(box) ==
    IF box = <<"frequency", "none / unknown">>
    THEN {<<"frequency", "none">>, <<"frequency", "unknown">>} ELSE {box}

PredicatesOf(boxes) == UNION {Values(box) : box \in boxes}

StageLabel(row, group) ==
    CASE group = "frequency" -> row.frequency
      [] group = "age" -> Above(<<1, 2, 4, 8, 12, 16, 20>>, row.age)
      [] group = "month" -> Above(<<-10, 0, 2, 5, 10>>, row.month)

\* Without predicates an empty selection, not an unrestricted one.
Filtered(run, predicates) ==
    {etf \in Etfs : predicates # {} /\
        \A group \in {value[1] : value \in predicates} :
            <<group, StageLabel(Measured[run][etf], group)>> \in predicates}

\* The tab takes the answer to its last click and draws itself anew.
Answer(c, filter) ==
    tab' = IF tab[c.tab].asked # c.click THEN tab
           ELSE [tab EXCEPT ![c.tab].filter = filter, ![c.tab].run = newest, ![c.tab].pc = "draw"]

Select(c) ==
    LET members == Filtered(c.run, PredicatesOf(c.boxes))
    IN  /\ c.pc = "select"
        /\ \A etf \in members : Measured[c.run][etf].usable
        /\ stored' = [members |-> members, from |-> <<c.tab, c.click>>]
        /\ asks' = (asks \ {c}) \cup {[c EXCEPT !.pc = "save"]}
        /\ UNCHANGED <<newest, preference, edits, tab, night, toggles, nights>>

RefuseSelection(c) ==
    /\ c.pc = "select"
    /\ \E etf \in Filtered(c.run, PredicatesOf(c.boxes)) : ~Measured[c.run][etf].usable
    /\ Answer(c, preference)
    /\ asks' = asks \ {c}
    /\ UNCHANGED <<newest, stored, preference, edits, night, toggles, nights>>

\* An error while saving the preference is ignored.
SaveFilter(c) ==
    /\ c.pc = "save"
    /\ preference' \in {preference, PredicatesOf(c.boxes)}
    /\ Answer(c, PredicatesOf(c.boxes))
    /\ asks' = asks \ {c}
    /\ UNCHANGED <<newest, stored, edits, night, toggles, nights>>

-----------------------------------------------------------------------------
\* A page is opened or a job ends: the tab keeps its filter when it has one.
Reload(t) ==
    /\ tab' = [tab EXCEPT ![t].run = newest, ![t].pc = "draw",
                          ![t].filter = IF @ # {} THEN @ ELSE preference]
    /\ UNCHANGED <<newest, stored, preference, edits, asks, night, toggles, nights>>

\* With the market unchanged the run is the one there is.
NightComputes ==
    /\ night = "over" /\ nights < MaxNights
    /\ newest' \in {newest, newest + 1} \cap DOMAIN Measured
    /\ night' = "computed" /\ nights' = nights + 1
    /\ UNCHANGED <<stored, preference, edits, tab, asks, toggles>>

NightSelects ==
    /\ night = "computed" /\ night' = "over"
    /\ stored' = [members |-> Etfs, from |-> Nobody]
    /\ UNCHANGED <<newest, preference, edits, tab, asks, toggles, nights>>

FilterInit ==
    /\ newest = 1 /\ stored = [members |-> {}, from |-> Nobody]
    /\ preference = {} /\ edits = [box \in {} |-> Nobody]
    /\ tab = [t \in FilterTabs |->
                 [run |-> 1, filter |-> {}, drawn |-> 1, checked |-> {}, asked |-> 0, pc |-> "draw"]]
    /\ asks = {} /\ night = "over" /\ toggles = 0 /\ nights = 0

FilterNext ==
    \/ \E t \in FilterTabs : Draw(t) \/ Reload(t) \/ \E box \in Boxes(tab[t].drawn) : Toggle(t, box)
    \/ \E c \in asks : Select(c) \/ RefuseSelection(c) \/ SaveFilter(c)
    \/ NightComputes \/ NightSelects

FilterSpec == FilterInit /\ [][FilterNext]_filterVars

-----------------------------------------------------------------------------
(* What must hold, and what a comment says and the code does not keep.     *)

Checked(c, etf) ==
    \A group \in {box[1] : box \in c.boxes} : Category(c.run, etf, group) \in c.boxes

\* What a click stores are the listings that, in the run the tab knows, the page
\* counts beside a checked box of every group that has one, and all of them can be
\* analysed, whatever was drawn, clicked or computed since
\* (univariate_checkbox_predicates and filtered_univariate_selection against the
\* page's own bands).
ClicksStoreWhatIsChecked ==
    [][\A c \in asks : (stored' # stored /\ stored'.from = <<c.tab, c.click>>) =>
          /\ stored'.members = {etf \in Etfs : c.boxes # {} /\ Checked(c, etf)}
          /\ \A etf \in stored'.members : Measured[c.run][etf].usable]_filterVars

\* One callback for all boxes prevents stale checks from overwriting current
\* ones: a tab's selection is never replaced by that of an earlier click.
NewerClicksPrevail ==
    [][\A t \in FilterTabs : (stored.from[1] = t /\ stored'.from[1] = t) =>
          stored'.from[2] >= stored.from[2]]_filterVars
=============================================================================
