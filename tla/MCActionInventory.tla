--------------------------- MODULE MCActionInventory ---------------------------
(***************************************************************************)
(* Pages of up to two elements that differ in role, in what they are named *)
(* and located by, and in whether they can be operated.                    *)
(***************************************************************************)
EXTENDS ActionInventory

Element(role, name, via, test, href, hidden, disabled, checked, options) ==
    [role |-> role, name |-> name, via |-> via, test |-> test, href |-> href,
     hidden |-> hidden, disabled |-> disabled, checked |-> checked, options |-> options]

TextBoxes ==
    {Element("textbox", n, v, t, "", h, d, FALSE, {}) :
        n \in {"A", "B"}, v \in {"aria-label", "label", "placeholder", "name"}, t \in {"", "t"},
        h \in BOOLEAN, d \in BOOLEAN}

Clickables ==
    {Element(r, n, "text", t, IF r = "link" THEN "/h" ELSE "", h, d, FALSE, {}) :
        r \in {"button", "link"}, n \in {"A", "B"}, t \in {"", "t"}, h \in BOOLEAN, d \in BOOLEAN}

Selections ==
    {Element(r, "A", v, "", "", h, FALSE, c, {}) :
        r \in {"checkbox", "radio"}, v \in {"label", "aria-label"}, h \in BOOLEAN, c \in BOOLEAN}
    \cup {Element(r, "A", v, "", "", FALSE, FALSE, FALSE, o) :
        r \in {"combobox", "listbox"}, v \in {"label", "name"}, o \in {{}, {"one"}, {"one", "two"}}}

Containers == {Element(r, n, "aria-label", "", "", FALSE, FALSE, FALSE, {}) : r \in {"form", "dialog"}, n \in {"A", "B"}}

\* An icon that nothing names, and its like.
Unnamed ==
    {Element(r, "", "none", "", IF r = "link" THEN "/h" ELSE "", FALSE, FALSE, FALSE, {}) :
        r \in {"button", "link", "textbox", "checkbox"}}

Elements ==
    {e \in TextBoxes \cup Clickables \cup Selections \cup Containers \cup Unnamed :
        /\ ~(e.hidden /\ e.disabled) /\ (e.role = "link" => ~e.disabled)
        /\ e.role = "radio" => ~e.checked
        /\ e.test = "t" => e.name = "A" /\ e.role # "link"}

MCPages == UNION {[1 .. n -> Elements] : n \in 1 .. 2}
===============================================================================
