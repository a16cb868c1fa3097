------------------------------ MODULE MCServlet ------------------------------
(* Two plugins that export three handlers, two of the same name; scripts    *)
(* with known, unknown, abbreviated and text nodes.                         *)
EXTENDS Servlet

List == <<1, 2>>
Get == <<2, 2>>
Abbreviated == <<1>>   \* the first letter of list
Unknown == <<3>>
MCText == <<4>>
Textual == <<4, 1>>    \* a command whose name starts with "text"
MCComment == <<5>>

MCNames == {List, Get, Abbreviated, Unknown, MCText, Textual, MCComment}
MCHandlers == <<List, Get, List>>
MCScripts == {<<>>, <<List>>, <<Get, Unknown>>, <<MCText, Unknown, Get>>,
              <<Abbreviated>>, <<Textual, List>>}
=============================================================================
