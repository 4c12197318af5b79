--------------------------- MODULE ActionInventory ---------------------------
(***************************************************************************)
(* What the generic browser driver offers to do on a page: its elements    *)
(* are described (domDescriptors), discoverAccessibleActions makes actions *)
(* of them, and those whose locator counts exactly one element are offered *)
(* (actions and locatorFromResolver of generic-browser-driver.mjs).  An    *)
(* element carries one of the attributes a name is taken from, or none;    *)
(* ancestor scopes and the texts that are typed are left out.              *)
(***************************************************************************)
EXTENDS Naturals, Sequences, FiniteSets

CONSTANT Pages    \* sequences of elements, in document order

\* "textbox" stands for searchbox and spinbutton too.
Roles == {"button", "link", "checkbox", "radio", "textbox", "combobox", "listbox", "form",
          "dialog", "other"}

ASSUME InventoryAssumption ==
    \A p \in Pages : Len(p) \in Nat /\ DOMAIN p = 1 .. Len(p) /\ \A i \in DOMAIN p :
        /\ p[i].role \in Roles
        /\ p[i].via \in {"aria-label", "label", "text", "placeholder", "name", "none"}
        /\ {p[i].hidden, p[i].disabled, p[i].checked} \subseteq BOOLEAN
        /\ {p[i].name, p[i].test, p[i].href} \subseteq STRING
        /\ p[i].options \subseteq STRING
        /\ p[i].options # {} => p[i].role \in {"combobox", "listbox"}

VARIABLES shown, inventory

inventoryVars == <<shown, inventory>>

NoInventory == [actions |-> {}, diagnostics |-> {}, taken |-> FALSE]

InventoryInit == shown \in Pages /\ inventory = NoInventory

-----------------------------------------------------------------------------
\* targetIdentity of accessible-action-discovery.mjs; targetKey tells the same apart.
Target(e) == [role |-> e.role, name |-> e.name, test |-> e.test,
              href |-> IF e.role = "link" THEN e.href ELSE ""]

\* identityOf and the locator of a descriptor.
Strategy(e) ==
    IF e.test # "" THEN "test-id"
    ELSE CASE e.via \in {"aria-label", "text"} -> "role-name"
           [] OTHER -> e.via

\* ACTION_ROLES: what is done with an element, and with which input.
RoleActions(e) ==
    CASE e.role \in {"button", "link"} -> {<<"click", "">>}
      [] e.role = "checkbox" -> {<<IF e.checked THEN "uncheck" ELSE "check", "">>}
      [] e.role = "radio" -> {<<"select", "">>}
      [] e.role = "textbox" -> {<<"clear", "">>, <<"type", "text">>}
      [] e.role \in {"combobox", "listbox"} -> {"select"} \X e.options
      [] e.role = "form" -> {<<"submit", "">>}
      [] e.role = "dialog" -> {<<"confirm", "">>, <<"cancel", "">>, <<"close", "">>}
      [] OTHER -> {}

Action(deed, target) == [kind |-> deed[1], input |-> deed[2], target |-> target]

\* The elements of which discovery makes one and the same action.
Candidate(e) == ~e.hidden /\ ~e.disabled /\ e.name # ""
Sharing(p, deed, target) ==
    {i \in DOMAIN p : Candidate(p[i]) /\ Target(p[i]) = target /\ deed \in RoleActions(p[i])}

\* discoverAccessibleActions, and the diagnostics of actions that two elements share.
Discovered(p) ==
    UNION {{Action(d, Target(p[i])) :
              d \in {d \in RoleActions(p[i]) : Cardinality(Sharing(p, d, Target(p[i]))) = 1}} :
           i \in {i \in DOMAIN p : Candidate(p[i])}}

AmbiguousActions(p) ==
    {[kind |-> "ambiguous_action", target |-> Target(p[i])] :
        i \in {i \in DOMAIN p : Candidate(p[i]) /\
                 \E d \in RoleActions(p[i]) : Cardinality(Sharing(p, d, Target(p[i]))) > 1}}

\* The driver's own actions: Enter in every textbox that has a name.
Presses(p) ==
    {Action(<<"press", "Enter">>, Target(p[i])) :
        i \in {i \in DOMAIN p : p[i].role = "textbox" /\ p[i].name # ""}}

\* resolverByTarget: the first of the elements with the target, whether or not it is shown.
Resolver(p, target) ==
    LET with == {i \in DOMAIN p : p[i].name # "" /\ Target(p[i]) = target}
    IN Strategy(p[CHOOSE i \in with : \A j \in with : i <= j])

\* locatorFromResolver: the elements a locator counts.  Only a locator by role leaves out
\* what is hidden; none leaves out what is disabled.
Located(p, target, strategy) ==
    {i \in DOMAIN p :
        CASE target.test # "" -> p[i].test = target.test
          [] target.test = "" /\ strategy = "href" -> p[i].role = "link" /\ p[i].href = target.href
          [] target.test = "" /\ strategy = "placeholder" -> p[i].via = "placeholder" /\ p[i].name = target.name
          [] target.test = "" /\ strategy = "label" -> p[i].via \in {"label", "aria-label"} /\ p[i].name = target.name
          [] target.test = "" /\ strategy = "name" -> p[i].via = "name" /\ p[i].name = target.name
          [] OTHER -> ~p[i].hidden /\ p[i].role = target.role /\ p[i].via # "name" /\ p[i].name = target.name}

\* A link whose locator does not count one is tried by its href.
Found(p, target) ==
    LET plain == Located(p, target, Resolver(p, target))
        linked == Located(p, target, "href")
    IN IF /\ Cardinality(plain) # 1 /\ target.role = "link" /\ target.href # "" /\ target.test = ""
          /\ Cardinality(linked) = 1
       THEN linked ELSE plain

\* A slip: what the locator does not find is left out without a word.
AmbiguousLocatorsMany(p, all) ==
    {[kind |-> "ambiguous_locator", target |-> a.target] : a \in {a \in all : Cardinality(Found(p, a.target)) > 1}}

AmbiguousLocators(p, all) ==
    {[kind |-> "ambiguous_locator", target |-> a.target] : a \in {a \in all : Cardinality(Found(p, a.target)) # 1}}

Take ==
    /\ ~inventory.taken
    /\ LET all == {a \in Discovered(shown) \cup Presses(shown) : a.target.role # "dialog"}
           dialogs == {a \in Discovered(shown) : a.target.role = "dialog"}
       IN inventory' = [actions |-> {a \in all : Cardinality(Found(shown, a.target)) = 1},
                        diagnostics |-> AmbiguousActions(shown) \cup AmbiguousLocators(shown, all)
                                        \cup {[kind |-> "unsupported_generic_action", target |-> a.target] : a \in dialogs},
                        taken |-> TRUE]
    /\ UNCHANGED shown

InventoryNext == Take

InventorySpec == InventoryInit /\ [][InventoryNext]_inventoryVars

-----------------------------------------------------------------------------
\* What a person can do with a control, by the roles docs/WEB_DRIVER_PROTOCOL.md names.
CanDo(e) ==
    CASE e.role \in {"button", "link"} -> {"click"}
      [] e.role = "checkbox" -> IF e.checked THEN {"uncheck"} ELSE {"check"}
      [] e.role \in {"radio", "combobox", "listbox"} -> {"select"}
      [] e.role = "textbox" -> {"clear", "type", "press"}
      [] e.role = "form" -> {"submit"}
      [] e.role = "dialog" -> {"confirm", "cancel", "close"}
      [] OTHER -> {}

\* The two cases the driver passes over without a word: nothing names the control, or it
\* is a list of which no option can be read.
Nameless(e) == e.name = ""
NothingToSelect(e) == e.role \in {"combobox", "listbox"} /\ e.options = {}

\* It is offered, with every option the control has.
IsOffered(e, k) ==
    LET inputs == {a.input : a \in {a \in inventory.actions : a.kind = k /\ a.target = Target(e)}}
    IN inputs # {} /\ e.options \subseteq inputs

Told(e) == \E d \in inventory.diagnostics : d.target = Target(e)

\* Of a control that is shown and enabled, everything that can be done with it, every option
\* of a list included, is offered or told in a diagnostic, unless the control is of one of
\* the two cases: between description, discovery and locators nothing else drops out.
DropsAreKnown ==
    inventory.taken =>
        \A i \in DOMAIN shown : \A k \in CanDo(shown[i]) :
            ~shown[i].hidden /\ ~shown[i].disabled =>
                \/ IsOffered(shown[i], k) \/ Told(shown[i])
                \/ Nameless(shown[i]) \/ NothingToSelect(shown[i])

\* What docs/WEB_DRIVER_PROTOCOL.md says of accessible action discovery: hidden and disabled
\* elements are excluded, so what an action that is offered reaches is neither.
OnlyOperable ==
    \A a \in inventory.actions : \A i \in Found(shown, a.target) : ~shown[i].hidden /\ ~shown[i].disabled
===============================================================================
