------------------------------ MODULE MCTenants ------------------------------
(***************************************************************************)
(* What a tenant meets: accounts, custom domains and credentials;          *)
(* notifications and their channel; tickets, chats, the knowledge base and *)
(* the shelf of support.  One run explores the components, one at a time.  *)
(* AccessProofs, NoticeProofs and SupportProofs put them side by side,     *)
(* state what is checked of them and prove most of it.                     *)
(***************************************************************************)
EXTENDS AccessProofs, NoticeProofs, SupportProofs, TLC

Interchangeable == Permutations(Workers)

Suppression == [e \in {"backup", "sched"} |-> IF e = "sched" THEN {"backup"} ELSE {}]
Delays == <<1>>

vars == <<accessVars, noticeVars, supportVars>>

Init ==
  \/ AccessInit /\ NoNotices /\ NoSupport
  \/ NoticeInit /\ NoAccess /\ NoSupport
  \/ SupportInit /\ NoAccess /\ NoNotices

Next ==
  \/ /\ AccessNext
     /\ UNCHANGED <<ofNotify, ofChannel, ofTickets, ofChats, ofArticles, ofShelf>>
  \/ /\ NoticeNext
     /\ UNCHANGED <<ofAccounts, ofDomains, ofCredentials, ofTickets, ofChats, ofArticles,
                    ofShelf>>
  \/ /\ SupportNext
     /\ UNCHANGED <<ofAccounts, ofDomains, ofCredentials, ofNotify, ofChannel>>

Spec == Init /\ [][Next]_vars
==============================================================================
