------------------------------ MODULE Entities ------------------------------
(***************************************************************************)
(* The nine generated entities, field by field: what a value of one is     *)
(* built from, which of its fields a rule guards, which a POST may carry,  *)
(* which a PUT must, which keys a PATCH is read for, which a read shows.   *)
(* id and metadata belong to the framework.                                *)
(*                                                                         *)
(*   required   no default: build() fails without it, POST does not decode *)
(*   defaulted  POST may leave it out, PUT may not                         *)
(*   optional   NULL when left out                                         *)
(***************************************************************************)
Fields(schema) == schema.required \cup schema.defaulted \cup schema.optional

\* The fields some rule of a guard is about.
Guarded(rules) == rules.required \cup rules.max_length \cup rules.non_negative

-----------------------------------------------------------------------------
Quotation ==
    [required |-> {"quotation_number", "customer_id", "quotation_date"},
     defaulted |-> {"status", "currency", "subtotal", "tax_rate", "tax_amount",
                   "total"},
     optional |-> {"branch_id", "valid_until", "notes", "opportunity_id",
                  "status_reason"}]

QuotationRowRules ==
    [required |-> {"quotation_number", "customer_id"},
     max_length |-> {"quotation_number", "currency", "notes", "status_reason"},
     non_negative |-> {"subtotal", "tax_rate", "tax_amount", "total"}]

QuotationBodies ==
    [post |-> Fields(Quotation) \ {"status"},
     put |-> Quotation.required \cup Quotation.defaulted]

QuotationPatch == Fields(Quotation)

QuotationResponse == Fields(Quotation)

-----------------------------------------------------------------------------
QuotationItem ==
    [required |-> {"quotation_id", "item_id", "quantity", "unit_price"},
     defaulted |-> {"line_discount", "line_amount", "invoice_policy",
                   "is_downpayment"},
     optional |-> {"description"}]

QuotationItemRowRules ==
    [required |-> {"quotation_id", "item_id"},
     max_length |-> {"description"},
     non_negative |-> {"quantity", "unit_price", "line_discount", "line_amount"}]

QuotationItemBodies ==
    [post |-> Fields(QuotationItem),
     put |-> QuotationItem.required \cup QuotationItem.defaulted]

QuotationItemPatch == Fields(QuotationItem)

QuotationItemResponse == Fields(QuotationItem)

-----------------------------------------------------------------------------
QuotationTemplate ==
    [required |-> {"name"},
     defaulted |-> {"validity_days"},
     optional |-> {"default_notes"}]

QuotationTemplateRowRules ==
    [required |-> {"name"},
     max_length |-> {"name", "default_notes"},
     non_negative |-> {}]

QuotationTemplateBodies ==
    [post |-> Fields(QuotationTemplate),
     put |-> QuotationTemplate.required \cup QuotationTemplate.defaulted]

QuotationTemplatePatch == Fields(QuotationTemplate)

QuotationTemplateResponse == Fields(QuotationTemplate)

-----------------------------------------------------------------------------
SalesOrder ==
    [required |-> {"order_number", "customer_id", "order_date"},
     defaulted |-> {"status", "currency", "subtotal", "tax_rate", "tax_amount",
                   "total"},
     optional |-> {"quotation_id", "delivery_carrier_id", "tracking_ref",
                  "branch_id", "delivery_date", "notes"}]

SalesOrderRowRules ==
    [required |-> {"order_number", "customer_id"},
     max_length |-> {"order_number", "tracking_ref", "currency", "notes"},
     non_negative |-> {"subtotal", "tax_rate", "tax_amount", "total"}]

SalesOrderBodies ==
    [post |-> Fields(SalesOrder) \ {"status"},
     put |-> SalesOrder.required \cup SalesOrder.defaulted]

SalesOrderPatch == Fields(SalesOrder)

SalesOrderResponse == Fields(SalesOrder)

-----------------------------------------------------------------------------
SalesOrderItem ==
    [required |-> {"order_id", "item_id", "quantity", "unit_price"},
     defaulted |-> {"line_discount", "line_amount", "billed_qty", "delivered_qty",
                   "invoice_policy", "is_downpayment"},
     optional |-> {"description", "unit_cost", "project_id", "task_id"}]

SalesOrderItemRowRules ==
    [required |-> {"order_id", "item_id"},
     max_length |-> {"description"},
     non_negative |-> {"quantity", "unit_price", "line_discount", "line_amount",
                      "unit_cost", "billed_qty",
                      "delivered_qty"}]

SalesOrderItemBodies ==
    [post |-> Fields(SalesOrderItem),
     put |-> SalesOrderItem.required \cup SalesOrderItem.defaulted]

SalesOrderItemPatch == Fields(SalesOrderItem)

SalesOrderItemResponse == Fields(SalesOrderItem)

-----------------------------------------------------------------------------
DeliveryCarrier ==
    [required |-> {"name"},
     defaulted |-> {"active"},
     optional |-> {"tracking_url_template"}]

DeliveryCarrierRowRules ==
    [required |-> {"name"},
     max_length |-> {"name", "tracking_url_template"},
     non_negative |-> {}]

DeliveryCarrierBodies ==
    [post |-> Fields(DeliveryCarrier),
     put |-> DeliveryCarrier.required \cup DeliveryCarrier.defaulted]

DeliveryCarrierPatch == Fields(DeliveryCarrier)

DeliveryCarrierResponse == Fields(DeliveryCarrier)

-----------------------------------------------------------------------------
ExpenseReinvoiceLink ==
    [required |-> {"order_id", "expense_id", "amount"},
     defaulted |-> {"state"},
     optional |-> {}]

ExpenseReinvoiceLinkRowRules ==
    [required |-> {"order_id", "expense_id"},
     max_length |-> {},
     non_negative |-> {"amount"}]

ExpenseReinvoiceLinkBodies ==
    [post |-> Fields(ExpenseReinvoiceLink),
     put |-> ExpenseReinvoiceLink.required \cup ExpenseReinvoiceLink.defaulted]

ExpenseReinvoiceLinkPatch == Fields(ExpenseReinvoiceLink)

ExpenseReinvoiceLinkResponse == Fields(ExpenseReinvoiceLink)

-----------------------------------------------------------------------------
SalesTeam ==
    [required |-> {"name"},
     defaulted |-> {},
     optional |-> {"description"}]

SalesTeamRowRules ==
    [required |-> {"name"},
     max_length |-> {"name", "description"},
     non_negative |-> {}]

SalesTeamBodies ==
    [post |-> Fields(SalesTeam),
     put |-> SalesTeam.required \cup SalesTeam.defaulted]

SalesTeamPatch == Fields(SalesTeam)

SalesTeamResponse == Fields(SalesTeam)

-----------------------------------------------------------------------------
SalesPersonAllocation ==
    [required |-> {"order_id", "sales_person_id", "allocated_pct"},
     defaulted |-> {},
     optional |-> {"sales_team_id"}]

SalesPersonAllocationRowRules ==
    [required |-> {"order_id", "sales_person_id"},
     max_length |-> {},
     non_negative |-> {"allocated_pct"}]

SalesPersonAllocationBodies ==
    [post |-> Fields(SalesPersonAllocation),
     put |-> SalesPersonAllocation.required \cup SalesPersonAllocation.defaulted]

SalesPersonAllocationPatch == Fields(SalesPersonAllocation)

SalesPersonAllocationResponse == Fields(SalesPersonAllocation)

-----------------------------------------------------------------------------
Schema ==
    [quotation |-> Quotation, quotation_item |-> QuotationItem,
     quotation_template |-> QuotationTemplate, sales_order |-> SalesOrder,
     sales_order_item |-> SalesOrderItem, delivery_carrier |-> DeliveryCarrier,
     expense_reinvoice_link |-> ExpenseReinvoiceLink, sales_team |-> SalesTeam,
     sales_person_allocation |-> SalesPersonAllocation]

RowRules ==
    [quotation |-> QuotationRowRules, quotation_item |-> QuotationItemRowRules,
     quotation_template |-> QuotationTemplateRowRules,
     sales_order |-> SalesOrderRowRules, sales_order_item |-> SalesOrderItemRowRules,
     delivery_carrier |-> DeliveryCarrierRowRules,
     expense_reinvoice_link |-> ExpenseReinvoiceLinkRowRules,
     sales_team |-> SalesTeamRowRules,
     sales_person_allocation |-> SalesPersonAllocationRowRules]

Bodies ==
    [quotation |-> QuotationBodies, quotation_item |-> QuotationItemBodies,
     quotation_template |-> QuotationTemplateBodies, sales_order |-> SalesOrderBodies,
     sales_order_item |-> SalesOrderItemBodies, delivery_carrier |-> DeliveryCarrierBodies,
     expense_reinvoice_link |-> ExpenseReinvoiceLinkBodies,
     sales_team |-> SalesTeamBodies,
     sales_person_allocation |-> SalesPersonAllocationBodies]

PatchKeys ==
    [quotation |-> QuotationPatch, quotation_item |-> QuotationItemPatch,
     quotation_template |-> QuotationTemplatePatch, sales_order |-> SalesOrderPatch,
     sales_order_item |-> SalesOrderItemPatch, delivery_carrier |-> DeliveryCarrierPatch,
     expense_reinvoice_link |-> ExpenseReinvoiceLinkPatch, sales_team |-> SalesTeamPatch,
     sales_person_allocation |-> SalesPersonAllocationPatch]

\* What a read of a row answers.
Shown ==
    [quotation |-> QuotationResponse, quotation_item |-> QuotationItemResponse,
     quotation_template |-> QuotationTemplateResponse, sales_order |-> SalesOrderResponse,
     sales_order_item |-> SalesOrderItemResponse,
     delivery_carrier |-> DeliveryCarrierResponse,
     expense_reinvoice_link |-> ExpenseReinvoiceLinkResponse,
     sales_team |-> SalesTeamResponse,
     sales_person_allocation |-> SalesPersonAllocationResponse]

Kinds == DOMAIN Schema

\* Fields a verb stores as its caller gave them: price_document looks at the lines'
\* quantities, prices and discounts alone.
Unvalidated ==
    [k \in Kinds |->
        CASE k = "quotation" ->
               {"quotation_number", "currency", "notes", "status_reason", "tax_rate",
                "tax_amount", "total"}
          [] k = "sales_order" ->
               {"order_number", "currency", "notes", "tracking_ref", "tax_rate",
                "tax_amount", "total"}
          [] k \in {"quotation_item", "sales_order_item"} -> {"description"}
          [] k = "quotation_template" -> {"name", "default_notes"}
          [] k = "delivery_carrier" -> {"name", "tracking_url_template"}
          [] OTHER -> {}]

\* The kinds whose status belongs to a state machine.
Machines == {"quotation", "sales_order"}
=============================================================================
