----------------------------- MODULE AuthSession -----------------------------
(***************************************************************************)
(* The session of the web client and the pages it moves between: the       *)
(* AuthProvider (context/AuthContext.tsx), the links of the navigation bar *)
(* and of the home page, and the sign-in page.                             *)
(*                                                                         *)
(* One page is mounted at a time; ui is its state.  A page that is left    *)
(* loses its state and its event stream, but the handlers it started go    *)
(* on: what they set is ignored, what they do besides is not.              *)
(***************************************************************************)
EXTENDS ApiClient

VARIABLES
    ui,       \* the page and its state
    stored,   \* localStorage: the account whose token and user it holds, or None
    session,  \* the same in the context of the AuthProvider
    booted    \* whether the AuthProvider has read localStorage

web == <<ui, stored, session, booted>>

Routes == {"home", "login", "register", "dashboard", "admin", "org", "verify"}

\* A page that has been navigated to and is yet to be mounted.
Opening(route) == [page |-> route, mounted |-> FALSE]

On(page) == ui.page = page /\ ui.mounted

PushKeepsStream(route, handlers) ==
    /\ ui' = Opening(route)
    /\ calls' = Unmounted(handlers)
    /\ UNCHANGED feed

\* router.push, once the handler c, if any, has ended.
Push(route, handlers) ==
    /\ ui' = Opening(route)
    /\ calls' = Unmounted(handlers)
    /\ feed' = NoFeed

\* What a handler sets is the state of the page that started it.
Sets(c, state) == ui' = IF calls[c].mounted THEN state ELSE ui

\* Effects run child first: the page that is opened first is mounted before
\* the provider restores the session.
Restore ==
    /\ ~booted
    /\ ui.mounted
    /\ booted' = TRUE
    /\ session' = stored
    /\ UNCHANGED <<ui, stored>>

Login(account) ==
    /\ stored' = account
    /\ session' = account
    /\ UNCHANGED booted

LogoutKeepsStorage ==
    /\ session' = None
    /\ UNCHANGED <<stored, booted>>

Logout ==
    /\ stored' = None
    /\ session' = None
    /\ UNCHANGED booted

SameSession == UNCHANGED <<stored, session, booted>>

IsAuthenticated == session # None

\* Pages take the token of the context, or that of localStorage.
ActiveToken == IF session # None THEN session ELSE stored

-----------------------------------------------------------------------------
(* Navigation. *)

PageLinks ==
    CASE On("home") -> {"register", "verify"}
      [] On("register") -> {"login"}
      [] OTHER -> {}

BarLinks ==
    {"home", "verify", "org", "admin"} \cup
    (IF IsAuthenticated THEN {"dashboard"} ELSE {"login", "register"})

Navigate ==
    \E route \in BarLinks \cup PageLinks :
        /\ ui.mounted
        /\ route # ui.page
        /\ Push(route, calls)
        /\ SameSession
        /\ UNCHANGED world

HandleLogout ==
    /\ ui.mounted
    /\ IsAuthenticated
    /\ Logout
    /\ Push("home", calls)
    /\ UNCHANGED world

HomeMount ==
    /\ ui = Opening("home")
    /\ ui' = [page |-> "home", mounted |-> TRUE]
    /\ SameSession
    /\ UNCHANGED <<world, feed, calls>>

-----------------------------------------------------------------------------
(* The sign-in page. *)

LoginMount ==
    /\ ui = Opening("login")
    /\ ui' = [page |-> "login", mounted |-> TRUE, loading |-> FALSE, error |-> FALSE]
    /\ SameSession
    /\ UNCHANGED <<world, feed, calls>>

\* The button is disabled while a sign-in is under way.
SignInEnabled == ~ui.loading

HandleSubmit ==
    /\ On("login")
    /\ SignInEnabled
    /\ \E account \in Accounts : Await("login", account, None, {"loginUser"})
    /\ ui' = [ui EXCEPT !.loading = TRUE, !.error = FALSE]
    /\ SameSession
    /\ UNCHANGED <<world, feed>>

\* A sign-in that succeeds signs in and moves on, whatever page is mounted.
HandleSubmitResumes(c) ==
    /\ Resumes(c, "login")
    /\ \/ /\ Fulfilled(c, "loginUser")
          /\ Login(Value(c, "loginUser"))
          /\ Push(IF Value(c, "loginUser") = Officer THEN "admin" ELSE "dashboard", Ended(c))
       \/ /\ ~Fulfilled(c, "loginUser")
          /\ End(c)
          /\ Sets(c, [ui EXCEPT !.loading = FALSE, !.error = TRUE])
          /\ SameSession
          /\ UNCHANGED feed
    /\ UNCHANGED world
=============================================================================
