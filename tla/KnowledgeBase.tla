--------------------------- MODULE KnowledgeBase ---------------------------
(***************************************************************************)
(* Knowledge base articles and the keyword index the bot answers from      *)
(* (src/support/kb.go).  A node's index is rebuilt from a listing read     *)
(* earlier, so two rebuilds may finish in either order.  Texts are         *)
(* abstracted: an article is its slug and its state.  Audit rows are left  *)
(* out, but a failing audit ends the handler before what follows it        *)
(* (HandlerFails).                                                         *)
(***************************************************************************)
EXTENDS Naturals, FiniteSets

CONSTANTS
  Articles,   \* identifiers newID() can return
  Slugs,      \* links titles reduce to; all of them have keywords
  Agents,     \* enabled agents in support mode
  Admins,     \* those of them who are administrators
  Workers     \* requests being served at once

VARIABLES
  article,   \* support_kb_articles
  index,     \* kbIndex of this node, as a set of slugs
  public,    \* history: the slugs published articles ever had
  worker     \* the statement a handler runs next

vars == <<article, index, public, worker>>

NoArticle == [status |-> "none", slug |-> ""]
Idle == [op |-> "idle", art |-> "", row |-> NoArticle, fresh |-> FALSE, list |-> {}]

Init ==
  /\ article = [a \in Articles |-> NoArticle]
  /\ index = {} /\ public = {}
  /\ worker = [w \in Workers |-> Idle]

-----------------------------------------------------------------------------
articleTransitions ==
  {<<"DRAFT", "REVIEW">>, <<"REVIEW", "DRAFT">>, <<"REVIEW", "PUBLISHED">>,
   <<"PUBLISHED", "ARCHIVED">>, <<"ARCHIVED", "DRAFT">>}

CanPublishArticle(from, to) == <<from, to>> \in articleTransitions

ArticleBySlug(s) == {a \in Articles : article[a].status # "none" /\ article[a].slug = s}

ListPublished == {article[a].slug : a \in {b \in Articles : article[b].status = "PUBLISHED"}}

Hold(w, v) ==
  /\ worker' = [worker EXCEPT ![w] = v]
  /\ UNCHANGED <<article, index, public>>

\* The link is looked up before the row is inserted or rewritten.
CreateArticle(w, a, s) ==
  /\ worker[w] = Idle /\ article[a].status = "none"
  /\ \A v \in Workers : worker[v].art # a
  /\ ArticleBySlug(s) = {}
  /\ Hold(w, [Idle EXCEPT !.op = "insert", !.art = a, !.fresh = TRUE,
                          !.row = [NoArticle EXCEPT !.status = "DRAFT", !.slug = s]])

EditArticle(w, a, s) ==
  /\ worker[w] = Idle /\ article[a].status # "none"
  /\ s # article[a].slug => ArticleBySlug(s) = {}
  /\ Hold(w, [Idle EXCEPT !.op = "edit", !.art = a, !.fresh = TRUE,
                          !.row = [article[a] EXCEPT !.slug = s]])

TransitionArticle(w, u, a, to) ==
  /\ worker[w] = Idle
  /\ CanPublishArticle(article[a].status, to)
  /\ to = "PUBLISHED" => u \in Admins
  /\ Hold(w, [Idle EXCEPT !.op = "move", !.art = a, !.fresh = TRUE,
                          !.row = [article[a] EXCEPT !.status = to]])

\* Mutant: the row is overwritten whatever its version.
UpdateArticleBlind(w) ==
  /\ worker[w].op \in {"insert", "edit", "move"}
  /\ article' = [article EXCEPT ![worker[w].art] = worker[w].row]
  /\ public' = public \cup ListPublished'
  /\ worker' = [worker EXCEPT ![w] = [Idle EXCEPT !.op = "list"]]
  /\ UNCHANGED index

\* InsertArticle or UpdateArticle, which compares the version.  A published
\* text and every change of state are followed by a rebuild of the index.
UpdateArticle(w) ==
  /\ worker[w].op \in {"insert", "edit", "move"}
  /\ worker[w].fresh
  /\ article' = [article EXCEPT ![worker[w].art] = worker[w].row]
  /\ public' = public \cup ListPublished'
  /\ worker' = [v \in Workers |->
       IF v # w THEN IF worker[v].art = worker[w].art
                       THEN [worker[v] EXCEPT !.fresh = FALSE] ELSE worker[v]
       ELSE IF worker[w].op = "move" \/ (worker[w].op = "edit"
                                          /\ worker[w].row.status = "PUBLISHED")
         THEN [Idle EXCEPT !.op = "list"]
       ELSE Idle]
  /\ UNCHANGED index

\* RebuildKBIndex: the listing, and the swap of the index.
ListArticles(w) ==
  /\ worker[w].op = "list"
  /\ Hold(w, [Idle EXCEPT !.op = "swap", !.list = ListPublished])

\* Mutant: the index takes every article that has a link.
SwapIndexAll(w) ==
  /\ worker[w].op = "swap"
  /\ index' = {article[a].slug : a \in {b \in Articles : article[b].status # "none"}}
  /\ worker' = [worker EXCEPT ![w] = Idle]
  /\ UNCHANGED <<article, public>>

SwapIndex(w) ==
  /\ worker[w].op = "swap"
  /\ index' = worker[w].list
  /\ worker' = [worker EXCEPT ![w] = Idle]
  /\ UNCHANGED <<article, public>>

HandlerFails(w) == worker[w] # Idle /\ Hold(w, Idle)

\* The process restarts: requests and the index are gone, Bootstrap lists again.
Bootstrap(w) ==
  /\ index' = {}
  /\ worker' = [v \in Workers |-> IF v = w THEN [Idle EXCEPT !.op = "list"] ELSE Idle]
  /\ UNCHANGED <<article, public>>

Next ==
  \E w \in Workers :
    \/ UpdateArticle(w) \/ ListArticles(w) \/ SwapIndex(w) \/ HandlerFails(w) \/ Bootstrap(w)
    \/ \E a \in Articles, s \in Slugs : CreateArticle(w, a, s) \/ EditArticle(w, a, s)
    \/ \E a \in Articles, u \in Agents :
         \E to \in {"DRAFT", "REVIEW", "PUBLISHED", "ARCHIVED"} :
           TransitionArticle(w, u, a, to)

Spec == Init /\ [][Next]_vars

-----------------------------------------------------------------------------
(* Properties.                                                             *)

\* An article moves along its four-state lifecycle only, although a handler
\* decides on a row it read before others wrote it.
ArticleMoveIsEdge ==
  \A a \in Articles :
    \/ article'[a].status = article[a].status
    \/ article[a].status = "none" /\ article'[a].status = "DRAFT"
    \/ CanPublishArticle(article[a].status, article'[a].status)

\* The bot's reading list never holds a draft: each link in the index was the
\* link of a published article when some rebuild listed it.
IndexWasPublished == index \subseteq public

(* Statements of the source that TLC refutes; see the README.              *)

\* kb.go: "An article already uses that link".
SlugsUnique == \A s \in Slugs : Cardinality(ArticleBySlug(s)) <= 1

\* service.go: the index "is rebuilt when an article's state changes".
IndexIsCurrent == (\A w \in Workers : worker[w] = Idle) => index = ListPublished
=============================================================================
