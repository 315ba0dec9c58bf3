------------------------------ MODULE FormHistory ------------------------------
(***************************************************************************)
(* MainWindow with a history variable: what the forms of each method have  *)
(* shown last.  The window does not look at it.                            *)
(***************************************************************************)
EXTENDS MainWindow

VARIABLE known   \* per side and method, the form last shown
historyVars == <<windowVars, known>>

Showing(p) == [m \in {p.method} |-> p.form]

HistoryInit == WindowInit /\ known = [side \in Sides |-> Showing(panel[side])]

Remember == known' = [side \in Sides |-> Override(known[side], Showing(panel'[side]))]

HistoryNext == WindowNext /\ Remember

HistorySpec == HistoryInit /\ [][HistoryNext]_historyVars
-----------------------------------------------------------------------------
\* A method shows again what it showed when the user left it for another one,
\* unless a settings file was loaded in between or is loaded now.
MethodsKeepTheirValues ==
  [][\A side \in Sides :
       LET method == panel'[side].method
       IN  /\ method # panel[side].method /\ tasks' = tasks
           /\ method \in DOMAIN known[side]
           => panel'[side].form = known[side][method]]_historyVars
=============================================================================
