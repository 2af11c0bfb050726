--------------------------- MODULE PrototypeStyle ---------------------------
(* The style picker of the prototype: the accent and the typeface, restored  *)
(* from and saved to localStorage by two effects of the root layout.         *)
EXTENDS Naturals, FiniteSets

CONSTANTS
    Picks     \* what the picker's user tries: records [field, value]

VARIABLES
    style,      \* AccentProvider's config and pickerVisible, and next-themes' theme
    savedStyle, \* localStorage: a config, or nothing saved yet
    queued,     \* the saved config handed to setConfig but not rendered yet
    chosen      \* history: the config the user left

styleVars == <<style, savedStyle, queued, chosen>>

\* Shades by their position among the thirteen of the scale.
SHADES == 1..13
Defaults == [accentId |-> "orange", lightShade |-> 9, darkShade |-> 9, fontId |-> "source-sans"]
Unsaved == [accentId |-> "none", lightShade |-> 0, darkShade |-> 0, fontId |-> "none"]

hoverShade(shade) == IF shade >= Cardinality(SHADES) THEN shade - 1 ELSE shade + 1

\* The accent, its hover colour and the two themes' shades.
buildCss(c) ==
    [light |-> <<c.lightShade, hoverShade(c.lightShade)>>, dark |-> <<c.darkShade, hoverShade(c.darkShade)>>]

\* The effects of a mount, in their order: the saved config is read and queued,
\* then the defaults on screen are written over it.
LoadThenPersist(saved) ==
    /\ queued' = saved
    /\ savedStyle' = Defaults

StyleInit ==
    /\ style = [config |-> Defaults, visible |-> FALSE, theme |-> "light"]
    /\ savedStyle = Defaults /\ queued = Unsaved /\ chosen = Defaults

\* A reload before the queued config was rendered finds the defaults saved.
StyleReload ==
    /\ style' = [style EXCEPT !.config = Defaults, !.visible = FALSE]
    /\ LoadThenPersist(savedStyle)
    /\ chosen' = IF queued # Unsaved THEN Defaults ELSE chosen

StyleRenders ==
    /\ queued # Unsaved
    /\ style' = [style EXCEPT !.config = queued]
    /\ savedStyle' = queued
    /\ queued' = Unsaved
    /\ UNCHANGED chosen

\* The keys "a" and "d", pressed outside a field.
RevealPicker ==
    /\ style' = [style EXCEPT !.visible = ~@]
    /\ UNCHANGED <<savedStyle, queued, chosen>>

ThemeHotkey ==
    /\ style' = [style EXCEPT !.theme = IF @ = "dark" THEN "light" ELSE "dark"]
    /\ UNCHANGED <<savedStyle, queued, chosen>>

\* A choice in the picker: the others stay, and the effect saves them all.
StylePicker(c) ==
    /\ style.visible /\ queued = Unsaved
    /\ style' = [style EXCEPT !.config = [style.config EXCEPT ![c.field] = c.value]]
    /\ savedStyle' = style'.config
    /\ chosen' = style'.config
    /\ UNCHANGED queued

-----------------------------------------------------------------------------
\* A reload brings back the style the user left, unless a second reload strikes
\* between the two effects of the first (AccentProvider's load and persist).
StyleKept ==
    IF queued = Unsaved THEN style.config = chosen /\ savedStyle = chosen ELSE queued = chosen

\* The hover colour is another step of the scale, in both themes, whatever shade
\* is chosen (hoverShade at the end of the scale).
HoverSeen ==
    LET css == buildCss(style.config)
    IN  \A theme \in DOMAIN css : css[theme][1] # css[theme][2] /\ css[theme][2] \in SHADES
=============================================================================
