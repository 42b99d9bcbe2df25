CONSTANT Nums <- MCNums
SPECIFICATION Spec
INVARIANT FieldValidatorMatchesSpec
INVARIANT ExpressionValidatorMatchesSpec
INVARIANT OrdinalMatchesEnglish
INVARIANT MonthNamesDefined
INVARIANT NumericDaysNamed
INVARIANT PhoneSpellingsReachContact
INVARIANT CorsAdmitsConfiguredOrigins
INVARIANT ListsOneFetchInFlight
INVARIANT ListsSettleComplete
INVARIANT ModalsOneSendPerForm
