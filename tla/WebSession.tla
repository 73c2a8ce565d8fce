----------------------------- MODULE WebSession -----------------------------
(***************************************************************************)
(* The signed-in session of a browser: its tabs keep the token in memory,  *)
(* share it through localStorage and hear of each other's changes by       *)
(* storage events, while answers to requests made with older tokens still  *)
(* arrive (src/apps/web/composables/useAuth.ts, the 401 interceptor of     *)
(* composables/useApi.ts, pages/settings.vue, middleware/auth.global.ts).  *)
(* A token is named by its number: all live equally long, so they expire   *)
(* in the order they were signed.                                          *)
(***************************************************************************)
EXTENDS Integers, Sequences

CONSTANTS Tabs,      \* tabs of one browser
          MaxTokens, \* bound: tokens signed
          MaxEvents  \* bound: storage events a tab has not handled yet

ASSUME WebSessionAssumption == MaxTokens \in Nat \ {0} /\ MaxEvents \in Nat \ {0}

VARIABLES signed,   \* how many tokens the API has signed
          lapsed,   \* how many of them have expired
          dead,     \* tokens ended by a logout or a change of the password
          stored,   \* localStorage "auth": its token, or 0
          memory,   \* authState.token of each tab, or 0
          heard,    \* storage events on their way to each tab
          waiting,  \* the request of each tab that is not answered yet
          crossed   \* history: a tab wrote while events were on their way to it

sessVars == <<signed, lapsed, dead, stored, memory, heard, waiting, crossed>>

SessTokens == 1 .. MaxTokens
Nothing == [kind |-> "none", token |-> 0, state |-> "none", new |-> 0]

SessInit ==
    /\ signed = 0 /\ lapsed = 0 /\ dead = {}
    /\ stored = 0
    /\ memory = [t \in Tabs |-> 0]
    /\ heard = [t \in Tabs |-> <<>>]
    /\ waiting = [t \in Tabs |-> Nothing]
    /\ crossed = FALSE

IsTokenExpired(k) == k <= lapsed
IsAuthenticated(t) == memory[t] # 0 /\ ~IsTokenExpired(memory[t])

(* localStorage changes, and the other tabs are told the new value.        *)
Store(t, k) ==
    /\ \A o \in Tabs \ {t} : Len(heard[o]) < MaxEvents
    /\ stored' = k
    /\ heard' = [o \in Tabs |-> IF o = t THEN heard[o] ELSE Append(heard[o], k)]
    /\ crossed' = (crossed \/ heard[t] # <<>>)

(* removeItem tells nobody when there is nothing to remove.                *)
RemoveItem(t) == IF stored # 0 THEN Store(t, 0) ELSE UNCHANGED <<stored, heard, crossed>>

(* setToken, login, register, loginLdap and the OAuth callback: the token  *)
(* is kept and persisted, whatever the tab had meanwhile.                  *)
SetToken(t, k) == memory' = [memory EXCEPT ![t] = k] /\ Store(t, k)

ForceLogout(t) == memory' = [memory EXCEPT ![t] = 0] /\ RemoveItem(t)

server == <<signed, lapsed, dead>>

(***************************************************************************)
(* Requests.                                                               *)
(***************************************************************************)
Ask(t, kind) ==
    /\ waiting[t] = Nothing
    /\ waiting' = [waiting EXCEPT ![t] =
                     [kind |-> kind, token |-> memory[t], state |-> "sent", new |-> 0]]

SignIn(t) == ~IsAuthenticated(t) /\ Ask(t, "login") /\ UNCHANGED <<server, stored, memory, heard, crossed>>
CallApi(t) == Ask(t, "call") /\ UNCHANGED <<server, stored, memory, heard, crossed>>
ChangeOwnPassword(t) ==
    /\ IsAuthenticated(t) /\ Ask(t, "change")
    /\ UNCHANGED <<server, stored, memory, heard, crossed>>

(* The API decides; a change of the password ends every session and signs  *)
(* a new one.                                                              *)
Decide(t) ==
    LET w == waiting[t]
        valid == w.token \notin dead /\ ~IsTokenExpired(w.token)
        Say(state, new) ==
            waiting' = [waiting EXCEPT ![t].state = state, ![t].new = new]
    IN  /\ w.state = "sent"
        /\ \/ /\ w.kind = "login" \/ (w.kind = "change" /\ valid)
              /\ signed < MaxTokens
              /\ signed' = signed + 1
              /\ dead' = IF w.kind = "change" THEN 1 .. signed ELSE dead
              /\ Say("signed", signed + 1)
           \/ w.kind = "call" /\ valid /\ Say("done", 0) /\ UNCHANGED <<signed, dead>>
           \/ w.kind = "call" /\ ~valid /\ Say("401", 0) /\ UNCHANGED <<signed, dead>>
           \/ w.kind # "call" /\ Say("done", 0) /\ UNCHANGED <<signed, dead>>   \* refused
        /\ UNCHANGED <<lapsed, stored, memory, heard, crossed>>

(* The answer reaches the tab: only the change of the password is exempt   *)
(* from the interceptor.                                                   *)
Receive(t) ==
    LET w == waiting[t] IN
    /\ w.state \in {"signed", "done", "401"}
    /\ CASE w.state = "signed" -> SetToken(t, w.new)
         [] w.state = "401" -> ForceLogout(t)
         [] OTHER -> UNCHANGED <<stored, memory, heard, crossed>>
    /\ waiting' = [waiting EXCEPT ![t] = Nothing]
    /\ UNCHANGED server

(* The API is told, and nobody waits for it.                               *)
SignOut(t) ==
    /\ memory[t] # 0
    /\ ForceLogout(t)
    /\ dead' \in {dead, dead \cup {memory[t]}}
    /\ UNCHANGED <<signed, lapsed, waiting>>

(***************************************************************************)
(* What happens to a tab.                                                  *)
(***************************************************************************)
(* The address was confirmed in this tab: the user is persisted again.     *)
PersistUser(t) ==
    /\ memory[t] # 0 /\ Store(t, memory[t])
    /\ UNCHANGED <<server, memory, waiting>>

(* A call of useAuth with no token reads localStorage.                     *)
Hydrate(t) ==
    /\ memory[t] = 0 /\ stored # 0
    /\ \/ /\ ~IsTokenExpired(stored)
          /\ memory' = [memory EXCEPT ![t] = stored]
          /\ UNCHANGED <<stored, heard, crossed>>
       \/ IsTokenExpired(stored) /\ RemoveItem(t) /\ UNCHANGED memory
    /\ UNCHANGED <<server, waiting>>

BecomeVisible(t) ==
    /\ memory[t] # 0 /\ IsTokenExpired(memory[t])
    /\ ForceLogout(t)
    /\ UNCHANGED <<server, waiting>>

(* Mutant: a tab is told of new tokens and not of their removal.           *)
HearStorageSetOnly(t) ==
    LET k == Head(heard[t]) IN
    /\ heard[t] # <<>>
    /\ heard' = [heard EXCEPT ![t] = Tail(@)]
    /\ memory' = IF k = 0 \/ IsTokenExpired(k) THEN memory ELSE [memory EXCEPT ![t] = k]
    /\ UNCHANGED <<server, stored, waiting, crossed>>

HearStorage(t) ==
    LET k == Head(heard[t])
        rest == [heard EXCEPT ![t] = Tail(@)]
    IN  /\ heard[t] # <<>>
        /\ IF k # 0
           THEN /\ memory' = IF IsTokenExpired(k) THEN memory ELSE [memory EXCEPT ![t] = k]
                /\ heard' = rest
                /\ UNCHANGED <<stored, crossed>>
           ELSE /\ memory' = [memory EXCEPT ![t] = 0]
                /\ IF memory[t] # 0 /\ stored # 0
                   THEN /\ \A o \in Tabs \ {t} : Len(heard[o]) < MaxEvents
                        /\ stored' = 0
                        /\ heard' = [o \in Tabs |-> IF o = t THEN Tail(heard[t])
                                                    ELSE Append(heard[o], 0)]
                        /\ crossed' = (crossed \/ Tail(heard[t]) # <<>>)
                   ELSE heard' = rest /\ UNCHANGED <<stored, crossed>>
        /\ UNCHANGED <<server, waiting>>

Reload(t) ==
    /\ memory' = [memory EXCEPT ![t] = 0]
    /\ heard' = [heard EXCEPT ![t] = <<>>]
    /\ waiting' = [waiting EXCEPT ![t] = Nothing]
    /\ UNCHANGED <<server, stored, crossed>>

Expire ==
    /\ lapsed < signed
    /\ lapsed' = lapsed + 1
    /\ UNCHANGED <<signed, dead, stored, memory, heard, waiting, crossed>>

SessNext ==
    \/ \E t \in Tabs : \/ SignIn(t) \/ CallApi(t) \/ ChangeOwnPassword(t) \/ Decide(t)
                       \/ Receive(t) \/ SignOut(t) \/ PersistUser(t) \/ Hydrate(t)
                       \/ BecomeVisible(t) \/ HearStorage(t) \/ Reload(t)
    \/ Expire

SessSpec == SessInit /\ [][SessNext]_sessVars

(***************************************************************************)
(* Properties.                                                             *)
(***************************************************************************)
(* Tokens, tabs and requests are well typed.                               *)
SessTypeOK ==
    /\ signed \in 0 .. MaxTokens /\ lapsed \in 0 .. signed /\ dead \subseteq SessTokens
    /\ stored \in 0 .. signed
    /\ memory \in [Tabs -> 0 .. signed]
    /\ \A t \in Tabs : heard[t] \in Seq(0 .. signed) /\ Len(heard[t]) <= MaxEvents
    /\ \A t \in Tabs : waiting[t].kind \in {"none", "login", "call", "change"}
    /\ crossed \in BOOLEAN

(* "A logout in one tab shouldn't leave another tab quietly rendering      *)
(* authenticated UI" (useAuth.ts:92): once the storage events are          *)
(* delivered, a tab that has a token has the one in localStorage (or that  *)
(* one has expired), unless two tabs changed it before they heard of each  *)
(* other.                                                                  *)
TabsAgree ==
    (~crossed /\ \A t \in Tabs : heard[t] = <<>>)
        => \A t \in Tabs : memory[t] \in {0, stored} \/ (stored # 0 /\ IsTokenExpired(stored))
=============================================================================
