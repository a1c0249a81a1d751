------------------------------ MODULE TuiForms ------------------------------
(***************************************************************************)
(* The forms of the user interface (src/internal/tui/app.go): which panel  *)
(* has the focus, which field of which form has the cursor, and the modes  *)
(* of the forms.  What a field holds is not modelled: a submission may be  *)
(* refused.                                                                *)
(***************************************************************************)
EXTENDS Integers, TuiFocus

\* In the order of the sidebar.
Sidebar == <<"executions", "transfers", "newCommand", "newTransfer", "connection">>
AllSections == {Sidebar[i] : i \in DOMAIN Sidebar}
CommandModes == <<"argv", "shell", "session">>
TransferModes == <<"upload", "download", "archive">>

VARIABLES
    activeSection, activeFocus,
    formCursor,
    commandMode, transferMode,   \* indexes of CommandModes and TransferModes
    cursorField,                 \* the form and field that shows the cursor
    submissions                  \* sections that in-flight answers will show

formsVars == <<activeSection, activeFocus, formCursor, commandMode, transferMode,
               cursorField, submissions>>

NoField == <<"none", 0>>

\* activeFormFieldCount, which agrees with the active fields of syncFormFocus.
FieldCount(sec, cmode, tmode) ==
    CASE sec = "newCommand" -> IF CommandModes[cmode + 1] = "argv" THEN 2 ELSE 3
      [] sec = "newTransfer" -> IF TransferModes[tmode + 1] = "upload" THEN 2 ELSE 3
      [] sec = "connection" -> 5
      [] OTHER -> 0

FormsInit ==
    /\ activeSection = "executions" /\ activeFocus = "list"
    /\ formCursor = 0
    /\ commandMode = 0 /\ transferMode = 0
    /\ cursorField = NoField
    /\ submissions = {}

\* syncFormFocus: only the field at the cursor of the form in focus is focused.
SyncFormFocus ==
    cursorField' =
        IF activeFocus' = "form"
        THEN LET last == FieldCount(activeSection', commandMode', transferMode') - 1
             IN  <<activeSection', IF formCursor' < last THEN formCursor' ELSE last>>
        ELSE NoField

\* tab and shift+tab move through the fields of a form, then between the panels.
FormsTab ==
    /\ LET last == FieldCount(activeSection, commandMode, transferMode) - 1
           inForm == activeFocus = "form"
       IN  \/ inForm /\ formCursor < last /\ formCursor' = formCursor + 1
              /\ UNCHANGED activeFocus
           \/ ~(inForm /\ formCursor < last) /\ UNCHANGED formCursor
              /\ activeFocus' = NextFocus(activeSection, activeFocus)
           \/ inForm /\ formCursor > 0 /\ formCursor' = formCursor - 1
              /\ UNCHANGED activeFocus
           \/ ~(inForm /\ formCursor > 0) /\ UNCHANGED formCursor
              /\ activeFocus' = PrevFocus(activeSection, activeFocus)
    /\ UNCHANGED <<activeSection, commandMode, transferMode, submissions>>
    /\ SyncFormFocus

\* up and down in the sidebar.
SidebarMove ==
    /\ activeFocus = "sidebar"
    /\ \E i, j \in DOMAIN Sidebar :
        /\ Sidebar[i] = activeSection /\ j \in {i - 1, i + 1}
        /\ activeSection' = Sidebar[j]
    /\ formCursor' = 0
    /\ UNCHANGED <<activeFocus, commandMode, transferMode, submissions>>
    /\ SyncFormFocus

\* A seeded fault: a shorter form keeps the cursor of the longer one.
SwitchModeKeepsCursor ==
    /\ activeFocus = "form"
    /\ \E step \in {1, 2} :
        \/ /\ activeSection = "newCommand"
           /\ commandMode' = (commandMode + step) % 3
           /\ UNCHANGED transferMode
        \/ /\ activeSection = "newTransfer"
           /\ transferMode' = (transferMode + step) % 3
           /\ UNCHANGED commandMode
    /\ UNCHANGED <<activeSection, activeFocus, formCursor, submissions>>
    /\ SyncFormFocus

\* [ and ] change the mode of the form and go to its first field.
SwitchMode ==
    /\ activeFocus = "form"
    /\ \E step \in {1, 2} :
        \/ /\ activeSection = "newCommand"
           /\ commandMode' = (commandMode + step) % 3
           /\ UNCHANGED transferMode
        \/ /\ activeSection = "newTransfer"
           /\ transferMode' = (transferMode + step) % 3
           /\ UNCHANGED commandMode
    /\ formCursor' = 0
    /\ UNCHANGED <<activeSection, activeFocus, submissions>>
    /\ SyncFormFocus

\* enter submits the form and empties it; a form that is not valid stays.
SubmitForm ==
    /\ activeFocus = "form"
    /\ activeSection \in {"newCommand", "newTransfer"}
    /\ submissions' = submissions \union
            {IF activeSection = "newCommand" THEN "executions" ELSE "transfers"}
    /\ formCursor' = 0
    /\ UNCHANGED <<activeSection, activeFocus, commandMode, transferMode>>
    /\ SyncFormFocus

\* The answer moves the user to the sidebar of its section, wherever he types by
\* then; the cursor and the focused field stay behind.
TakeSubmission ==
    /\ \E sec \in submissions :
        /\ submissions' = submissions \ {sec}
        /\ activeSection' = sec
    /\ activeFocus' = "sidebar"
    /\ UNCHANGED <<formCursor, commandMode, transferMode, cursorField>>

\* A submission that fails only sets the error line.
SubmissionFails ==
    /\ \E sec \in submissions : submissions' = submissions \ {sec}
    /\ UNCHANGED <<activeSection, activeFocus, formCursor, commandMode, transferMode,
                   cursorField>>

FormsNext ==
    \/ FormsTab \/ SidebarMove \/ SwitchMode \/ SubmitForm \/ TakeSubmission
    \/ SubmissionFails

FormsSpec == FormsInit /\ [][FormsNext]_formsVars

(***************************************************************************)
(* Properties.                                                             *)
(***************************************************************************)

\* The list has the focus only in a section that has one, and a form only in a
\* section that is one, with the cursor on the field that the next tab starts
\* from and that exists: although answers change the section under a form that is
\* being filled in, modes change the number of fields, and the focused field is
\* kept apart from the cursor (app.go:435-467, 576-599, 846-910, 1709-1765).
FocusFitsSection ==
    /\ activeFocus = "list" => MainPanel(activeSection) = "list"
    /\ activeFocus = "form" =>
        /\ formCursor < FieldCount(activeSection, commandMode, transferMode)
        /\ cursorField = <<activeSection, formCursor>>

=============================================================================
