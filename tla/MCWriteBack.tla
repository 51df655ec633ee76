----------------------------- MODULE MCWriteBack -----------------------------
(* watch_generate() on docs embeds the title in place and writes a text about *)
(* the body to pages, where watch() embeds it; or watch_generate() does, and  *)
(* also reads a column of pages that the upsert leaves NULL.                  *)
EXTENDS WriteBack

Edge(t, c, u, d) == [from |-> <<t, c>>, to |-> <<u, d>>]

OnDocs == [on |-> {<<"docs", "title">>, <<"docs", "body">>},
           jobs |-> {Edge("docs", "title", "docs", "vec"), Edge("docs", "body", "pages", "text")}]
OnText == [on |-> {<<"pages", "text">>}, jobs |-> {Edge("pages", "text", "pages", "vec")}]
OnBoth == [on |-> {<<"pages", "text">>, <<"pages", "tag">>},
           jobs |-> {Edge("pages", "text", "pages", "vec"), Edge("pages", "tag", "pages", "note")}]

Watches == {{OnDocs, OnText}, {OnDocs, OnBoth}}
AllCells == {<<"docs", c>> : c \in {"title", "body", "vec"}}
              \cup {<<"pages", c>> : c \in {"text", "tag", "vec", "note"}}
===============================================================================
