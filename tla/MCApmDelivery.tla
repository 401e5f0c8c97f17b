--------------------------- MODULE MCApmDelivery ---------------------------
(***************************************************************************)
(* ApmDelivery in the environments that matter: each adversity excuses one *)
(* property, so every property is checked under the other two.             *)
(***************************************************************************)
EXTENDS ApmDelivery

AnyTwo == {{"answers", "refusals"}, {"caps", "refusals"}, {"caps", "answers"}}

=============================================================================
