CONSTANTS None = None
  KnownUsers <- MCUsers
  Members <- MCHolders
  GroupNames = {"team"}
  Questions <- MCQuestions
  Topics = {"errors", "routes", "bulk", "pages", "diff", "responses", "permissions", "webhooks", "registration", "sharing",
            "resources", "plans", "schemas", "wiring", "identity", "rendering", "filters", "clients", "response", "checks"}
SPECIFICATION Spec
INVARIANTS AccessIsDecidedOnce RequestsAreServed ReportsTellTheTruth ReadsAreComplete 
  WritesKeepTheirScope  WebhooksArriveSafely
