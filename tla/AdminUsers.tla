----------------------------- MODULE AdminUsers -----------------------------
(***************************************************************************)
(* The users page of two or more administrators, each with its own copy of *)
(* the accounts, and the server's handlers, which look and write in        *)
(* separate statements.  Of the products only Rooms is kept: it is the one *)
(* whose access is stored twice.                                           *)
(***************************************************************************)
EXTENDS Integers, Sequences

CONSTANTS Accounts, Admins, GuestAccounts,
          UserQuotas,            \* sizes in bytes that an account is given
          MaxQuotaBytes,     \* three quarters of the free disk, as last read
          NoMax,             \* no upload limit of its own
          MaxAdminCalls

ASSUME AdminAssumption ==
  /\ Admins # {} /\ Admins \subseteq Accounts /\ GuestAccounts \subseteq Accounts \ Admins
  /\ UserQuotas \subseteq Nat /\ MaxQuotaBytes \in Nat /\ NoMax \notin UserQuotas
  /\ MaxAdminCalls \in Nat

VARIABLES accounts,          \* the server's rows
          seen, rereading,     \* each page's copy of them, and its request for a new one
          orders,            \* the calls made, in order, and how far each has come
          torn               \* ghost: two were served at once, or one broke halfway

usersVars == <<accounts, seen, rereading, orders, torn>>

NotReading == [at |-> "none", lists |-> {}]
RoleOf(i) == IF i \in Admins THEN "admin" ELSE IF i \in GuestAccounts THEN "guest" ELSE "user"

UsersInit ==
  /\ \E q \in UserQuotas :
       accounts = [i \in Accounts |->
         [role |-> RoleOf(i), is_active |-> TRUE, chat |-> TRUE, must_change |-> FALSE,
          totp |-> IF i \in Admins THEN "off" ELSE "on", level |-> "full", rooms_enabled |-> TRUE,
          quota |-> q, max_upload |-> NoMax]]
  /\ seen = [a \in Admins |-> accounts] /\ rereading = [a \in Admins |-> NotReading]
  /\ orders = <<>> /\ torn = FALSE

---------------------------------------------------------------------------
\* The quota field: two decimals of the largest unit that fits, read back as bytes.
UnitOf(bytes) == IF bytes < 1024 THEN 1 ELSE IF bytes < 1048576 THEN 1024 ELSE 1048576
Nearest(x, y) == (2 * x + y) \div (2 * y)
formatQuotaForInput(bytes) ==
  Nearest(Nearest(100 * bytes, UnitOf(bytes)) * UnitOf(bytes), 100)

---------------------------------------------------------------------------
\* The page of administrator a.
Press(a, op, u, arg) ==
  /\ Len(orders) < MaxAdminCalls
  /\ orders' = Append(orders, [by |-> a, op |-> op, id |-> u, arg |-> arg, at |-> "sent"])
  /\ UNCHANGED <<accounts, seen, rereading, torn>>

IsAdminSeen(a, u) == seen[a][u].role = "admin"
adminCount(a) == {u \in DOMAIN seen[a] : IsAdminSeen(a, u)}
\* A mutant: nothing stops an administrator from stepping down.
NotLastAdmin(a, u) == adminCount(a) # {u}
MayDemote(a, u) == adminCount(a) # {u} /\ u # a

TotpCell(a, u) ==
  \/ seen[a][u].totp = "on" /\ Press(a, "totp", u, "off")
  \/ seen[a][u].totp = "required" /\ Press(a, "totp", u, "unrequired")
  \/ seen[a][u].totp = "off" /\ Press(a, "totp", u, "required")

NextLevel == [none |-> "limited", limited |-> "full", full |-> "none"]
ProductAccessCell(a, u) == Press(a, "product", u, NextLevel[seen[a][u].level])

UserRow(a, u) ==
  /\ seen[a][u].role # "guest"
  /\ \/ IsAdminSeen(a, u) /\ MayDemote(a, u) /\ Press(a, "role", u, "user")
     \/ ~IsAdminSeen(a, u) /\ Press(a, "role", u, "admin")
     \/ seen[a][u].is_active /\ u # a /\ Press(a, "lock", u, FALSE)
     \/ ~seen[a][u].is_active /\ Press(a, "lock", u, TRUE)
     \/ u # a /\ Press(a, "delete", u, "")
     \/ Press(a, "reset", u, "")
     \/ Press(a, "chat", u, ~seen[a][u].chat)
     \/ TotpCell(a, u) \/ ProductAccessCell(a, u)

GuestsPanel(a, u) ==
  /\ seen[a][u].role = "guest"
  /\ \/ Press(a, "lock", u, ~seen[a][u].is_active)
     \/ Press(a, "chat", u, ~seen[a][u].chat) \/ Press(a, "reset", u, "")
     \/ Press(a, "promote", u, "") \/ Press(a, "remove", u, "")
     \/ TotpCell(a, u)

\* The rooms tab has a list of its own, read anew here at each press.
AccountRow(a, u) ==
  u \in DOMAIN accounts /\ Press(a, "access", u, ~accounts[u].rooms_enabled)

Saving(a) == \E n \in DOMAIN orders :
               orders[n].by = a /\ orders[n].op = "edit" /\ orders[n].at # "done"

\* The dialog keeps the row it was opened on.  An empty upload limit is sent as
\* null, which the server takes for "unchanged".  Bound: both fields are typed in, or
\* neither is.
EditUserDialog(a, u) ==
  /\ seen[a][u].role # "guest" /\ ~Saving(a)
  /\ \E typed \in UserQuotas \cup {NoMax} :
       LET bytes == IF typed = NoMax THEN formatQuotaForInput(seen[a][u].quota) ELSE typed IN
       /\ bytes > 0 /\ bytes <= MaxQuotaBytes
       /\ Press(a, "edit", u, [quota |-> bytes, max |-> typed])

\* A page that would read what it has is left out, and what one that makes no more
\* calls would read.
OpenUsersPage(a) ==
  /\ Len(orders) < MaxAdminCalls /\ rereading[a] = NotReading /\ seen[a] # accounts
  /\ rereading' = [rereading EXCEPT ![a] = [at |-> "asked", lists |-> {"users", "guests"}]]
  /\ UNCHANGED <<accounts, seen, orders, torn>>

ServeLists(a) ==
  /\ Len(orders) < MaxAdminCalls /\ rereading[a].at = "asked"
  /\ rereading' = [rereading EXCEPT ![a] = [at |-> "served", lists |-> @.lists, has |-> accounts]]
  /\ UNCHANGED <<accounts, seen, orders, torn>>

ListOf(row) == IF row.role = "guest" THEN "guests" ELSE "users"
Rows(from, lists) == {i \in DOMAIN from : ListOf(from[i]) \in lists}

\* A row of both lists, for an account promoted since one was read, is drawn in
\* each; the fresh one is kept here.
TakeLists(a) ==
  /\ rereading[a].at = "served"
  /\ LET new == Rows(rereading[a].has, rereading[a].lists)
         old == Rows(seen[a], {"users", "guests"} \ rereading[a].lists) IN
     seen' = [seen EXCEPT ![a] =
               [i \in new \cup old |-> IF i \in new THEN rereading[a].has[i] ELSE seen[a][i]]]
  /\ rereading' = [rereading EXCEPT ![a] = NotReading]
  /\ UNCHANGED <<accounts, orders, torn>>

---------------------------------------------------------------------------
\* The server.  The session is looked up, then the handler looks, then it writes.
AtOnce(n) == \E m \in DOMAIN orders \ {n} : orders[m].at \notin {"sent", "done"}
Reach(n, where) == orders' = [orders EXCEPT ![n].at = where]

RequireAdmin(n) ==
  /\ orders[n].at = "sent"
  /\ LET by == orders[n].by IN
     IF by \in DOMAIN accounts /\ accounts[by].role = "admin" /\ accounts[by].is_active
     THEN Reach(n, "admitted") ELSE Reach(n, "done")
  /\ UNCHANGED <<accounts, seen, rereading, torn>>

otherAdmins(u) == {i \in DOMAIN accounts : accounts[i].role = "admin"} \ {u}
ensureRemainingAdmin(c) == c.arg # "user" \/ otherAdmins(c.id) # {}
IsGuest(u) == u \in DOMAIN accounts /\ accounts[u].role = "guest"
NotOneself(c) == c.by # c.id

Passes(c) ==
  CASE c.op = "role" -> ensureRemainingAdmin(c)
    [] c.op = "lock" -> c.arg \/ NotOneself(c)
    [] c.op = "delete" -> NotOneself(c) /\ c.id \in DOMAIN accounts
    [] c.op \in {"promote", "remove"} -> IsGuest(c.id)
    [] c.op = "product" -> c.id \in DOMAIN accounts
    [] c.op = "access" -> c.id \in DOMAIN accounts /\ accounts[c.id].is_active
    [] OTHER -> TRUE

Look(n) ==
  /\ orders[n].at = "admitted"
  /\ IF Passes(orders[n]) THEN Reach(n, "passed") ELSE Reach(n, "done")
  /\ UNCHANGED <<accounts, seen, rereading, torn>>

TotpAfter(was, arg) ==
  CASE arg = "off" -> IF was = "on" THEN "off" ELSE was
    [] arg = "required" -> IF was = "on" THEN was ELSE "required"
    [] arg = "unrequired" -> IF was = "required" THEN "off" ELSE was

\* What the first statement sets, and the second of the two that have one.
First(row, c) ==
  CASE c.op = "role" -> [row EXCEPT !.role = c.arg]
    [] c.op = "promote" -> [row EXCEPT !.role = "user"]
    [] c.op = "lock" -> [row EXCEPT !.is_active = c.arg]
    [] c.op = "chat" -> [row EXCEPT !.chat = c.arg]
    [] c.op = "reset" -> [row EXCEPT !.must_change = TRUE]
    [] c.op = "totp" -> [row EXCEPT !.totp = TotpAfter(@, c.arg)]
    [] c.op = "edit" -> [row EXCEPT !.quota = c.arg.quota,
                                    !.max_upload = IF c.arg.max = NoMax THEN @ ELSE c.arg.max]
    [] c.op = "product" -> [row EXCEPT !.level = c.arg]
    [] c.op = "access" -> [row EXCEPT !.rooms_enabled = c.arg]

Second(row, c) ==
  IF c.op = "product" THEN [row EXCEPT !.rooms_enabled = c.arg # "none"]
  ELSE [row EXCEPT !.level = IF c.arg THEN "full" ELSE "none"]

Put(c, row) ==
  accounts' = IF c.id \in DOMAIN accounts
              THEN [accounts EXCEPT ![c.id] = row] ELSE accounts

\* What the page reads again.  A forced reset of a user is not shown, and the rooms
\* tab reads its own list only.
Invalidated(c) ==
  IF c.op \in {"reset", "access"} THEN {}
  ELSE IF c.op \in {"promote", "chat"} THEN {"users", "guests"}
  ELSE IF c.id \in GuestAccounts THEN {"guests", "users"} ELSE {"users"}

Answer(n, lists) ==
  LET c == orders[n] IN
  /\ Reach(n, "done")
  /\ rereading' = IF lists = {} THEN rereading
                ELSE [rereading EXCEPT ![c.by] =
                        [at |-> "asked", lists |-> @.lists \cup lists]]

Write(n) ==
  LET c == orders[n] IN
  /\ c.at = "passed" /\ torn' = (torn \/ AtOnce(n)) /\ UNCHANGED seen
  /\ CASE c.op \in {"delete", "remove"} ->
            /\ accounts' = [i \in DOMAIN accounts \ {c.id} |-> accounts[i]]
            /\ Answer(n, Invalidated(c))
       [] c.op \in {"product", "access"} ->
            Put(c, First(accounts[c.id], c)) /\ Reach(n, "half") /\ UNCHANGED rereading
       [] OTHER -> Put(c, First(accounts[c.id], c)) /\ Answer(n, Invalidated(c))

WriteSecond(n) ==
  LET c == orders[n] IN
  /\ c.at = "half" /\ torn' = (torn \/ AtOnce(n)) /\ UNCHANGED seen
  /\ Put(c, Second(accounts[c.id], c)) /\ Answer(n, Invalidated(c))

\* The database refuses; nothing is taken back.
WriteFails(n) ==
  /\ orders[n].at \in {"passed", "half"} /\ Reach(n, "done")
  /\ torn' = (torn \/ orders[n].at = "half")
  /\ UNCHANGED <<accounts, seen, rereading>>

UsersNext ==
  \/ \E a \in Admins :
       \/ \E u \in DOMAIN seen[a] : UserRow(a, u) \/ GuestsPanel(a, u) \/ EditUserDialog(a, u)
       \/ \E u \in Accounts : AccountRow(a, u)
       \/ OpenUsersPage(a) \/ ServeLists(a) \/ TakeLists(a)
  \/ \E n \in DOMAIN orders :
       RequireAdmin(n) \/ Look(n) \/ Write(n) \/ WriteSecond(n) \/ WriteFails(n)

UsersSpec == UsersInit /\ [][UsersNext]_usersVars

---------------------------------------------------------------------------
\* There is always an active administrator: one may not lock, delete or demote
\* oneself, though the server's own count of administrators has the locked ones
\* in it.  Two who act on each other at the same moment can both succeed.
AdminRemains ==
  torn \/ \E i \in DOMAIN accounts : accounts[i].role = "admin" /\ accounts[i].is_active

\* The two records of an account's access to Rooms agree when no change is
\* underway: both places that change one change the other, in opposite orders.
RoomsRecordsAgree ==
  \A i \in DOMAIN accounts :
    \/ torn \/ \E n \in DOMAIN orders : orders[n].id = i /\ orders[n].at = "half"
    \/ accounts[i].rooms_enabled = (accounts[i].level # "none")

\* An administrator remains, and what is recorded twice of an account agrees.
AccountsAgree == AdminRemains /\ RoomsRecordsAgree

=============================================================================
