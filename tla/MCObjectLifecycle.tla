-------------------------- MODULE MCObjectLifecycle --------------------------
(* Objects of one class and two registrations of it.                       *)
EXTENDS ObjectLifecycle
NoUses        == {}
Failures      == {"fail"}
Unregistering == {"unregister"}
TearingDown   == {"fail", "unregister"}
BindingLate   == {"bind_late"}
=============================================================================
