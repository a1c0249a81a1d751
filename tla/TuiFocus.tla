------------------------------ MODULE TuiFocus ------------------------------
(***************************************************************************)
(* How tab and shift+tab move between the panels of the user interface     *)
(* (src/internal/tui/app.go, nextFocus and prevFocus).                     *)
(***************************************************************************)

FocusAreas == {"sidebar", "list", "detail", "form"}

\* The two sections whose main panel is a list; the others show a form.
MainPanel(section) ==
    IF section \in {"executions", "transfers"} THEN "list" ELSE "form"

NextFocus(section, current) ==
    CASE current = "sidebar" -> MainPanel(section)
      [] current \in {"list", "form"} -> "detail"
      [] OTHER -> "sidebar"

PrevFocus(section, current) ==
    CASE current = "sidebar" -> "detail"
      [] current = "detail" -> MainPanel(section)
      [] OTHER -> "sidebar"

=============================================================================
