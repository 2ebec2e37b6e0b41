----------------------------- MODULE PlanSales -----------------------------
(***************************************************************************)
(* Selling a plan that is being edited.  on_buy_pick sends an invoice with *)
(* the price and the size (days or requests) of the plan's row, and writes *)
(* the price and the plan's id into a pending payment; when the payment    *)
(* comes, fulfill_payment reads the row again and credits the size it has  *)
(* then.  Owners and superadmins PATCH the rows meanwhile, several calls   *)
(* at once: a call reads the row, and its UPDATE sets the columns whose    *)
(* value in the body differs from the one read.                            *)
(*                                                                         *)
(* (Payments has the deliveries, the crashes and the subscription's row.)  *)
(***************************************************************************)
EXTENDS Naturals

CONSTANTS
    Ids,            \* ids of plans; each of the two tables counts its own
    Prices, Sizes,
    Patches,        \* calls of the PATCH routes that may run at once
    Invoices,       \* ids of payments
    MaxPatches      \* bound: PATCH calls that begin

VARIABLES
    plan,           \* the rows of subscription_plans and package_plans
    patch,          \* what each PATCH has read, and its body
    patches,        \* PATCH calls begun
    menu,           \* the plans with a button in the menu last shown
    payment,        \* the rows of payments, with the invoice that was sent
    meant,          \* history: the rows a PATCH or a POST meant to leave
    torn,           \* history: plans with PATCH calls that overlapped
    edited          \* history: invoices whose plan changed before crediting

vars == <<plan, patch, patches, menu, payment, meant, torn,
          edited>>

Kinds == {"subscription", "package"}
Plans == Kinds \X Ids
Absent == [price |-> 0, size |-> 0, active |-> FALSE]
Rows == [price : Prices, size : Sizes, active : BOOLEAN]
NoPayment == [status |-> "none"]
NoPatch == [op |-> "none"]

Init ==
    /\ plan = [p \in Plans |-> Absent]
    /\ patch = [c \in Patches |-> NoPatch]
    /\ patches = 0
    /\ menu = {}
    /\ payment = [i \in Invoices |-> NoPayment]
    /\ meant = [p \in Plans |-> {}]
    /\ torn = {}
    /\ edited = {}

Exists(p) == plan[p] # Absent

-----------------------------------------------------------------------------
(* The plans.                                                              *)

\* create_tenant_subscription_plan, create_tenant_package_plan, and the
\* routes of the platform.
CreatePlan(p, price, size) ==
    /\ ~Exists(p)
    /\ LET row == [price |-> price, size |-> size, active |-> TRUE]
       IN  /\ plan' = [plan EXCEPT ![p] = row]
           /\ meant' = [meant EXCEPT ![p] = {row}]
    /\ UNCHANGED <<patch, patches, menu, payment, torn, edited>>

\* A PATCH reads the row; a body leaves out what it does not set, which is
\* the same as setting it to what was read.
BeginPatch(c, p, row) ==
    /\ patch[c] = NoPatch /\ Exists(p)
    /\ row # plan[p]
    /\ patches < MaxPatches /\ patches' = patches + 1
    /\ patch' = [patch EXCEPT ![c] = [op |-> "patch", plan |-> p,
                                      read |-> plan[p], body |-> row]]
    /\ torn' = IF \E d \in Patches :
                     patch[d] # NoPatch /\ patch[d].plan = p
               THEN torn \cup {p} ELSE torn
    /\ UNCHANGED <<plan, menu, payment, meant, edited>>

Merged(row, read, body) ==
    [f \in DOMAIN row |-> IF body[f] # read[f] THEN body[f] ELSE row[f]]

Open(p) == {i \in Invoices : /\ payment[i].status \in {"pending", "paid"}
                             /\ payment[i].plan = p}

SavePatch(c) ==
    LET x == patch[c] IN
    /\ x # NoPatch
    /\ plan' = [plan EXCEPT ![x.plan] = Merged(@, x.read, x.body)]
    /\ patch' = [patch EXCEPT ![c] = NoPatch]
    /\ meant' = [meant EXCEPT ![x.plan] = @ \cup {x.body}]
    /\ edited' = edited \cup Open(x.plan)
    /\ UNCHANGED <<patches, menu, payment, torn>>

-----------------------------------------------------------------------------
(* The sale.                                                               *)

\* build_buy_menu; list_subscription_plans and list_package_plans.
ShowBuyMenu ==
    /\ menu' = {p \in Plans : plan[p].active}
    /\ UNCHANGED <<plan, patch, patches, payment, meant, torn, edited>>

\* on_buy_pick, for a button of the menu: get_subscription_plan and
\* get_package_plan return what is still active.
OnBuyPick(i, p) ==
    /\ payment[i] = NoPayment
    /\ p \in menu
    /\ plan[p].active
    /\ payment' = [payment EXCEPT
                     ![i] = [status |-> "pending", plan |-> p,
                             price |-> plan[p].price, size |-> plan[p].size,
                             credited |-> 0]]
    /\ UNCHANGED <<plan, patch, patches, menu, meant, torn, edited>>

\* on_pre_checkout accepts every invoice, however old; then
\* on_successful_payment marks the payment.
MarkPaid(i) ==
    /\ payment[i].status = "pending"
    /\ payment' = [payment EXCEPT ![i].status = "paid"]
    /\ UNCHANGED <<plan, patch, patches, menu, meant, torn, edited>>

(* Seeded fault: the id is looked up among the packages whatever it is of.  *)
PlanOf_Package(i) == plan[<<"package", payment[i].plan[2]>>]

PlanOf(i) == plan[payment[i].plan]

\* fulfill_payment reads the plan that metadata_json names, and credits
\* nothing when it is no longer active.
Credit(i) ==
    /\ payment[i].status = "paid"
    /\ LET p == PlanOf(i)
       IN  payment' = [payment EXCEPT
                         ![i].status = "credited",
                         ![i].credited = IF p.active THEN p.size ELSE 0]
    /\ UNCHANGED <<plan, patch, patches, menu, meant, torn, edited>>

Next ==
    \/ \E p \in Plans :
          \/ \E price \in Prices, size \in Sizes : CreatePlan(p, price, size)
          \/ \E c \in Patches, row \in Rows : BeginPatch(c, p, row)
          \/ \E i \in Invoices : OnBuyPick(i, p)
    \/ \E c \in Patches : SavePatch(c)
    \/ ShowBuyMenu
    \/ \E i \in Invoices : MarkPaid(i) \/ Credit(i)

Spec == Init /\ [][Next]_vars

-----------------------------------------------------------------------------
(* The price and the size of an invoice were set together by somebody,     *)
(* unless calls of PATCH for its plan overlapped and each left a column of *)
(* its own (api/routes/admin_tenants.py 803-869, api/routes/billing.py     *)
(* 62-81).                                                                 *)
OfferedAsMeant ==
    \A i \in Invoices :
       payment[i] # NoPayment =>
          \/ payment[i].plan \in torn
          \/ \E row \in meant[payment[i].plan] :
                row.price = payment[i].price /\ row.size = payment[i].size

(* Who has paid an invoice is credited what it offered, unless the plan    *)
(* was edited, or withdrawn, between the invoice and the crediting         *)
(* (bot/handlers/buy.py 83-116, domain/billing.py 231-251).                *)
CreditedAsOffered ==
    \A i \in Invoices :
       payment[i].status = "credited" =>
          i \in edited \/ payment[i].credited = payment[i].size

(* Both, as one property of the sale.                                      *)
SoldAsOffered == OfferedAsMeant /\ CreditedAsOffered
=============================================================================
